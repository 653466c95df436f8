----------------------------- MODULE VoiceOrigin -----------------------------
(***************************************************************************)
(* Where a request was spoken (extract_voice_origin_context,               *)
(* intent_bridge/api/conversation.py) and which media player plays the     *)
(* sounds for it (resolve_assistant_sound_target,                          *)
(* intent_bridge/sounds/controller.py).                                    *)
(*                                                                         *)
(* A house is Home Assistant's cached registries:                          *)
(*   devices   device -> [name, area, via]                                 *)
(*   entities  entity -> [domain, device, area, class, words]              *)
(*   areas     area -> name                                                *)
(* Names are compared normalised.  The words of a player are those of its  *)
(* names that count; floors and the source label are left out.             *)
(***************************************************************************)
EXTENDS Integers, FiniteSets, SequencesExt

CONSTANT Nothing   \* no value (Python's None, an empty string)

Given(a, b) == IF a # Nothing THEN a ELSE b

\* The one element of a set that has exactly one.
Sole(S) == IF Cardinality(S) = 1 THEN CHOOSE x \in S : TRUE ELSE Nothing

-----------------------------------------------------------------------------
(* Home Assistant's catalog (home_assistant/catalog.py).                   *)

\* The area of an entity: its own, or that of its device.
AreaOf(house, e) ==
  LET entity == house.entities[e]
  IN  IF entity.area # Nothing THEN entity.area
      ELSE IF entity.device \in DOMAIN house.devices
      THEN house.devices[entity.device].area ELSE Nothing

ResolveArea(house, area, name) ==
  IF area \in DOMAIN house.areas THEN area
  ELSE IF name = Nothing THEN Nothing
  ELSE Sole({a \in DOMAIN house.areas : house.areas[a] = name})

\* The device by its id, else by a name only one device has.
ResolveDevice(house, where) ==
  IF where.device \in DOMAIN house.devices THEN where.device
  ELSE IF where.deviceName = Nothing THEN Nothing
  ELSE Sole({d \in DOMAIN house.devices :
               house.devices[d].name = where.deviceName})

\* An area the request names goes first, then the device's, then the one all
\* placed entities of the device are in; an unknown id is kept.
ResolveOrigin(house, where) ==
  LET device == ResolveDevice(house, where)
      ofEntities ==
        Sole({house.entities[e].area :
                e \in {x \in DOMAIN house.entities :
                         house.entities[x].device = device
                           /\ house.entities[x].area # Nothing}})
      area == IF where.area # Nothing \/ device = Nothing THEN where.area
              ELSE Given(house.devices[device].area, ofEntities)
  IN  [device |-> Given(device, where.device),
       deviceName |-> IF device = Nothing THEN where.deviceName
                      ELSE house.devices[device].name,
       area |-> Given(ResolveArea(house, area, where.areaName), area),
       areaName |->
         LET known == ResolveArea(house, area, where.areaName)
         IN  IF known # Nothing THEN house.areas[known]
             ELSE IF area # Nothing THEN where.areaName ELSE Nothing]

-----------------------------------------------------------------------------
(* The origin of a request.                                                *)

\* What the request says; the area of the system prompt's hint counts when
\* the request itself names none.
Said(body) ==
  [device |-> body.device, deviceName |-> body.deviceName,
   area |-> body.area,
   areaName |-> IF body.area = Nothing THEN Given(body.areaName, body.hint)
                ELSE body.areaName]

Located(where) == \E f \in DOMAIN where : where[f] # Nothing

-----------------------------------------------------------------------------
(* The player for the sounds.                                              *)

Of(house, domain) ==
  {e \in DOMAIN house.entities : house.entities[e].domain = domain}

SatellitesIn(house, area) ==
  {e \in Of(house, "assist_satellite") : AreaOf(house, e) = area}

\* Mutant: any satellite of the area will do.
AnySatellite(house, origin) ==
  LET resolved == ResolveOrigin(house, origin)
      ofDevice == {e \in Of(house, "assist_satellite") :
                     house.entities[e].device = resolved.device}
      all == Of(house, "assist_satellite")
  IN  IF ofDevice # {} THEN CHOOSE e \in ofDevice : TRUE
      ELSE IF all # {} THEN CHOOSE e \in all : TRUE ELSE Nothing

\* The satellite of the calling device; else the only one in its area, which
\* may be known by its name alone.
Satellite(house, origin) ==
  LET resolved == ResolveOrigin(house, origin)
      area == Given(origin.area, resolved.area)
      ofDevice == Sole({e \in Of(house, "assist_satellite") :
                          resolved.device # Nothing
                            /\ house.entities[e].device = resolved.device})
      known == ResolveArea(house, area,
                           Given(origin.areaName, resolved.areaName))
  IN  IF ofDevice # Nothing THEN ofDevice
      ELSE IF known = Nothing THEN Nothing
      ELSE Sole(SatellitesIn(house, known))

Linked(house, d, e) ==
  /\ d \in DOMAIN house.devices /\ e \in DOMAIN house.devices
  /\ house.devices[d].via = e \/ house.devices[e].via = d

\* Devices at most two links away, by their distance.
Distance(house, anchor) ==
  LET near == {d \in DOMAIN house.devices : Linked(house, anchor, d)}
              \ {anchor}
      far == {d \in DOMAIN house.devices :
                \E n \in near : Linked(house, n, d)} \ (near \cup {anchor})
  IN  [d \in {anchor} \cup near \cup far |->
         IF d = anchor THEN 0 ELSE IF d \in near THEN 1 ELSE 2]

Via(house, d) ==
  IF d \in DOMAIN house.devices /\ house.devices[d].via \in DOMAIN house.devices
  THEN house.devices[d].via ELSE Nothing

\* indicator_relation_bonus of the relation between the two devices.
RelationBonus(house, anchor, d, distance) ==
  LET parent == Via(house, anchor)
  IN  IF distance = 0 THEN 30
      ELSE IF d = parent THEN 10
      ELSE IF Via(house, d) = anchor THEN 20
      ELSE IF parent # Nothing /\ Via(house, d) = parent THEN 18
      ELSE 10 - 2 * distance

SpeakerWords == {"speaker", "audio", "playback", "assistant", "satellite"}
VideoWords == {"tv", "television", "projector"}

Score(house, anchor, p) ==
  LET player == house.entities[p]
  IN  100 + RelationBonus(house, anchor, player.device,
                          Distance(house, anchor)[player.device])
      + (IF player.class = "speaker" THEN 60 ELSE 0)
      + 12 * Cardinality(player.words \cap SpeakerWords)
      - (IF player.class = "tv" \/ player.words \cap VideoWords # {}
         THEN 50 ELSE 0)

\* The best player near the satellite; the nearer of equals, and none when
\* two are equally near.
SoundTarget(house, origin) ==
  LET satellite == Satellite(house, origin)
      anchor == IF satellite = Nothing THEN Nothing
                ELSE house.entities[satellite].device
      distance == Distance(house, anchor)
      players == {p \in Of(house, "media_player") :
                    house.entities[p].device \in DOMAIN distance}
      Beats(p, q) ==
        LET s == Score(house, anchor, p)
            t == Score(house, anchor, q)
        IN  s > t \/ /\ s = t
                     /\ distance[house.entities[p].device]
                          <= distance[house.entities[q].device]
      best == {p \in players : \A q \in players : Beats(p, q)}
  IN  IF anchor = Nothing THEN Nothing ELSE Sole(best)
=============================================================================
