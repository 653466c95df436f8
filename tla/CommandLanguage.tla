-------------------------- MODULE CommandLanguage --------------------------
(***************************************************************************)
(* What a clause asks for: the operation that _classify and                *)
(* normalize_lexical_operator (intent_engine/natural_language.py) read     *)
(* from its words, before any target is looked for.                        *)
(*                                                                         *)
(* An operation is an intent, the domain it is about, and one slot with a  *)
(* number (0 where the value is a word: a colour, a state, a direction).   *)
(***************************************************************************)
EXTENDS Phrases

Operation(intent, domain, slot, number) ==
  [intent |-> intent, domain |-> domain, slot |-> slot, number |-> number]

Plain(intent, domain) == Operation(intent, domain, None, 0)

NoOperation == Plain(None, None)

QueryIntents == {"HassGetState", "HassClimateGetTemperature", "HassGetWeather"}

\* The one numeric property a domain has.
Setter(domain, number) ==
  CASE domain = "light" -> Operation("HassLightSet", domain, "brightness", number)
    [] domain = "cover" -> Operation("HassSetPosition", domain, "position", number)
    [] domain = "fan" -> Operation("HassFanSetSpeed", domain, "percentage", number)
    [] domain = "climate" -> Operation("HassClimateSetTemperature", domain, "temperature", number)
    [] domain = "media_player" -> Operation("HassSetVolume", domain, "volume_level", number)
    [] OTHER -> NoOperation

Sound == {"sound", "audio", "volume"}
CoverNouns == {"blind", "blinds", "cover", "covers", "window", "windows"}
Moves == {"flip", "flick", "push", "move", "pull", "roll"}

\* The operator an imperative names whatever its target turns out to be.
NormalizeLexicalOperator(text, hint) ==
  LET domain == FirstKnown(<<SemanticDomain(text), ExplicitDomain(text), hint>>)
      number == NumberAfterRelation(text)
      switches == Opens(text, {"turn", "switch", "power"}, {"on", "off"})
  IN  FirstOf(
    <<<<Starts(text, Moves) /\ Before(text, CoverNouns, {"down"}), Plain("HassTurnOff", "cover")>>,
      <<Starts(text, Moves) /\ Before(text, CoverNouns, {"up"}), Plain("HassTurnOn", "cover")>>,
      <<\/ Opens(text, {"turn", "switch"}, {"off"}) /\ Len(text) > 2 /\ text[3] \in Sound
        \/ Starts(text, {"silence", "mute"}), Plain("HassMediaPlayerMute", "media_player")>>,
      <<\/ Opens(text, {"restore", "enable"}, {"sound", "audio"})
        \/ Starts(text, {"unmute"}), Plain("HassMediaPlayerUnmute", "media_player")>>,
      <<Starts(text, {"resume", "unpause", "continue", "restart"})
          /\ (domain = "media_player" \/ SaysWord(text, {"playback"})),
        Plain("HassMediaUnpause", "media_player")>>,
      <<text = <<"play">>, Plain("HassMediaUnpause", "media_player")>>,
      <<switches, Plain(IF switches /\ text[2] = "on" THEN "HassTurnOn" ELSE "HassTurnOff", domain)>>,
      <<number \in 0..100, Setter(domain, number)>>>>, NoOperation)

PairedState(text) ==
  LET pairs == {<<"on", "off">>, <<"open", "closed">>, <<"locked", "unlocked">>, <<"up", "down">>}
  IN  \E p \in pairs : Says(text, <<p[1], "or", p[2]>>) \/ Says(text, <<p[2], "or", p[1]>>)

QueryMarkers == {"check", "report", "read", "confirm", "where", "status", "state", "doing", "whether"}

IsQuery(text) ==
  \/ Starts(text, {"is", "are", "what", "whats", "how", "get"}) /\ Len(text) > 1
  \/ SaysWord(text, QueryMarkers) \/ Says(text, <<"tell", "me">>)
  \/ PairedState(text)

States == {"unlocked", "locked", "closed", "close", "open", "running", "playing",
           "paused", "off", "on"}

QueryOperation(text, domain, hint) ==
  LET temperature == SaysWord(text, {"temperature"})
      generic == /\ temperature /\ hint # "climate"
                 /\ ~SaysWord(text, {"room", "inside", "home", "thermostat", "climate", "sensor"})
                 /\ ~Before(text, {"temperature"}, {"in", "at", "of", "for"})
      wanted == ~PairedState(text) /\ SaysWord(text, States)
      subject == IF domain = None /\ SaysWord(text, {"locked", "unlocked"}) THEN "lock" ELSE domain
  IN  FirstOf(
    <<<<SaysWord(text, {"weather", "outside"}) \/ generic, Plain("HassGetWeather", "weather")>>,
      <<SaysWord(text, {"brightness", "bright"}), Plain("HassGetState", "light")>>,
      <<SaysWord(text, {"temperature", "warm"}) /\ domain \in {None, "climate"},
        Plain("HassClimateGetTemperature", "climate")>>>>,
    Operation("HassGetState", subject, IF wanted THEN "state" ELSE None, 0))

\* The percentage of a setter, in the order the patterns are tried.
Percentage(text, domain) ==
  FirstNumber(<<NumberBeforeMarker(text, {"percent"})>>
    \o [n \in 1..4 |-> NumberAfterKeyword(text, <<<<"brightness">>, <<"speed">>, <<"position">>, <<"volume">>>>[n])]
    \o [n \in 1..4 |-> NumberBeforeKeyword(text, <<<<"brightness">>, <<"speed">>, <<"position">>, <<"volume">>>>[n])]
    \o <<NumberAfterRelation(text),
         IF domain \in {"climate", "cover", "fan", "light", "media_player"}
         THEN TrailingNumber(text) ELSE NoNumber>>)

Colors == {"red", "green", "blue", "white", "orange"}

Changes == {"set", "change", "adjust", "make", "turn", "flick", "flip"}

\* Attributes named without a verb are read; a colour temperature is set.
AttributeOperation(text, domain) ==
  LET kelvin == NumberBeforeMarker(text, {"kelvin"})
  IN  FirstOf(
    <<<<SaysWord(text, {"brightness", "bright"}) /\ ~SaysWord(text, Changes \cup {"dim"})
          /\ NumberAfterKeyword(text, <<"brightness">>) = NoNumber
          /\ NumberBeforeKeyword(text, <<"brightness">>) = NoNumber, Plain("HassGetState", "light")>>,
      <<SaysWord(text, {"temperature"}) /\ ~SaysWord(text, Changes \cup {"raise", "lower"}),
        IF domain = "sensor" THEN Plain("HassGetState", "sensor")
        ELSE Plain("HassClimateGetTemperature", "climate")>>,
      <<Says(text, <<"color", "temperature">>) /\ kelvin # NoNumber,
        Operation("HassLightSet", "light", "temperature", kelvin)>>>>, NoOperation)

\* Setters of a number or a colour; percentage is within 0..100 or absent.
ValueOperation(text, domain, percentage) ==
  LET degrees == FirstNumber(<<NumberBeforeMarker(text, {"degrees"}), percentage>>)
      given == percentage # NoNumber
  IN  FirstOf(
    <<<<SaysWord(text, {"volume"}) /\ given, Setter("media_player", percentage)>>,
      <<(domain = "fan" \/ Says(text, <<"fan", "speed">>)) /\ given, Setter("fan", percentage)>>,
      <<domain = "cover" /\ given, Setter("cover", percentage)>>,
      <<(domain = "light" \/ SaysWord(text, {"brightness", "dim"})) /\ given, Setter("light", percentage)>>,
      <<(domain = "climate" \/ SaysWord(text, {"temperature"})) /\ degrees # NoNumber,
        Setter("climate", degrees)>>,
      <<\E color \in Colors :
          /\ SaysWord(text, {color})
          /\ domain = "light" \/ SaysWord(text, {"color", "set", "change", "make", "flick", "flip", "turn"})
          /\ ~Before(text, {"off"}, {color}),
        Operation("HassLightSet", "light", "color", 0)>>>>, NoOperation)

MediaOperation(text, domain) ==
  LET player == domain = "media_player"
      media(intent) == Plain(intent, "media_player")
      volume == SaysWord(text, {"volume"})
  IN  FirstOf(
    <<<<volume /\ SaysWord(text, {"up", "increase", "louder", "down", "decrease", "quieter"}),
        Operation("HassSetVolumeRelative", "media_player", "volume_step", 0)>>,
      <<SaysWord(text, {"unmute"}) \/ (player /\ (\/ Says(text, <<"mute", "off">>)
                                                 \/ Before(text, Sound, {"back"}))),
        media("HassMediaPlayerUnmute")>>,
      <<(player /\ SaysWord(text, {"sound", "volume"}) /\ SaysWord(text, {"off"}))
          \/ SaysWord(text, {"mute"}), media("HassMediaPlayerMute")>>,
      <<SaysWord(text, {"next", "skip"}), media("HassMediaNext")>>,
      <<SaysWord(text, {"previous"}), media("HassMediaPrevious")>>,
      <<SaysWord(text, {"resume", "unpause", "continue"})
          \/ (player /\ (Says(text, <<"back", "on">>) \/ SaysWord(text, {"restart"}))),
        media("HassMediaUnpause")>>,
      <<SaysWord(text, {"pause", "hold"}) \/ (player /\ SaysWord(text, {"stop"})), media("HassMediaPause")>>,
      <<SaysWord(text, {"quiet", "silence"}), media("HassMediaPlayerMute")>>,
      <<player /\ SaysWord(text, {"play"}), media("HassMediaUnpause")>>>>, NoOperation)

Opening == {"open", "opened"}
Closing == {"close", "closed", "shut"}
Switching == {"turn", "switch", "power", "flip", "flick"}

\* Locks, vacuums, covers and plain power; a lock is "on" when locked.
PowerOperation(text, domain) ==
  LET on == Plain("HassTurnOn", domain)
      off == Plain("HassTurnOff", domain)
      container == domain \in {"scene", "script"}
      says(words) == SaysWord(text, words)
  IN  FirstOf(
    <<<<domain = "lock" /\ says(Opening), off>>,
      <<domain = "lock" /\ says(Closing), on>>,
      <<~container /\ says({"unlock", "unlocked"}), Plain("HassTurnOff", "lock")>>,
      <<~container /\ says({"lock", "locked", "secure"}), Plain("HassTurnOn", "lock")>>,
      <<domain = "vacuum" /\ (Before(text, Switching, {"on"}) \/ says({"run", "start"})),
        Plain("HassVacuumStart", "vacuum")>>,
      <<domain = "vacuum" /\ says({"dock", "return"}), Plain("HassVacuumReturnToBase", "vacuum")>>,
      <<Before(text, Switching, {"off"}) \/ Last(text) = "off", off>>,
      <<Before(text, Switching, {"on"}) \/ Last(text) = "on", on>>,
      <<domain # None /\ says({"off"}), off>>,
      <<domain # None /\ says({"on"}), on>>,
      <<says({"enable", "enabled"}), on>>,
      <<says({"disable", "disabled"}), off>>,
      <<says(Closing \cup {"lower"}), IF domain = "lock" THEN on ELSE off>>,
      <<says(Opening \cup {"raise", "lift"}), IF domain = "lock" THEN off ELSE on>>,
      <<says({"activate", "run", "start", "launch", "engage"}), on>>,
      <<says({"illuminate"}) \/ Says(text, <<"light", "up">>), Plain("HassTurnOn", "light")>>,
      <<domain = "cover" /\ Before(text, Moves, {"up"}), on>>,
      <<domain = "cover" /\ Before(text, Moves, {"down"}), off>>,
      <<says({"deactivate", "stop", "kill", "disengage", "release"}), off>>,
      <<container /\ says({"set", "execute", "trigger"}), on>>>>, NoOperation)

\* A percentage beyond 0..100 leaves the clause without an operation.
Classify(text, hint) ==
  LET domain == FirstKnown(<<SemanticDomain(text), ExplicitDomain(text), hint>>)
      lexical == NormalizeLexicalOperator(text, hint)
      percentage == Percentage(text, domain)
      attribute == AttributeOperation(text, domain)
      valid == percentage \in 0..100 \cup {NoNumber}
      value == ValueOperation(text, domain, percentage)
      media == MediaOperation(text, domain)
  IN  IF lexical # NoOperation THEN lexical
      ELSE IF IsQuery(text) THEN QueryOperation(text, domain, hint)
      ELSE IF attribute # NoOperation THEN attribute
      ELSE IF ~valid THEN NoOperation
      ELSE IF value # NoOperation THEN value
      ELSE IF media # NoOperation THEN media ELSE PowerOperation(text, domain)
=============================================================================
