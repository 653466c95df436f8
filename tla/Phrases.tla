------------------------------ MODULE Phrases ------------------------------
(***************************************************************************)
(* The words of an utterance: phrases, numbers and the clauses of a        *)
(* compound request, as intent_engine/natural_language.py reads them.      *)
(*                                                                         *)
(* A text is the sequence of its words after normalize_search_text: lower  *)
(* case, without punctuation, articles and misspellings.  Word classes     *)
(* hold the words whose treatment differs; synonyms the code lists side by *)
(* side are not all repeated.                                              *)
(***************************************************************************)
EXTENDS Integers, SequencesExt, FiniteSetsExt, TLC

None == "none"     \* no domain, slot, subtype or label
NoNumber == -1     \* no number was spoken

\* The text holds the phrase as consecutive whole words.
Says(text, phrase) ==
  /\ phrase # <<>>
  /\ \E i \in 0..(Len(text) - Len(phrase)) :
       SubSeq(text, i + 1, i + Len(phrase)) = phrase

\* The length of a phrase in characters, a blank after each word.
Characters(phrase) == FoldLeft(LAMBDA n, w : n + Len(w) + 1, 0, phrase)

SaysWord(text, words) == ToSet(text) \cap words # {}

\* A word of A stands somewhere before a word of B.
Before(text, A, B) ==
  \E i, j \in DOMAIN text : i < j /\ text[i] \in A /\ text[j] \in B

Starts(text, A) == text # <<>> /\ text[1] \in A

\* The text begins with a word of A followed by a word of B.
Opens(text, A, B) == Len(text) > 1 /\ text[1] \in A /\ text[2] \in B

\* Patterns are tried in order: the result of the first that matches.
FirstOf(rules, otherwise) ==
  LET hits == {i \in DOMAIN rules : rules[i][1]}
  IN  IF hits = {} THEN otherwise ELSE rules[Min(hits)][2]

FirstKnown(domains) ==
  FirstOf([i \in DOMAIN domains |-> <<domains[i] # None, domains[i]>>], None)

---------------------------------------------------------------------------
(* Numbers *)

WordValue ==
  [zero |-> 0, one |-> 1, two |-> 2, three |-> 3, four |-> 4, five |-> 5,
   six |-> 6, seven |-> 7, eight |-> 8, nine |-> 9, ten |-> 10,
   eleven |-> 11, twelve |-> 12, thirteen |-> 13, fourteen |-> 14,
   fifteen |-> 15, sixteen |-> 16, seventeen |-> 17, eighteen |-> 18,
   nineteen |-> 19, twenty |-> 20, thirty |-> 30, forty |-> 40, fifty |-> 50,
   sixty |-> 60, seventy |-> 70, eighty |-> 80, ninety |-> 90]

MaxDigits == 200   \* bound: numbers that are written in digits
Numerals == {ToString(n) : n \in 0..MaxDigits}
DigitsValue == [w \in Numerals |-> CHOOSE n \in 0..MaxDigits : ToString(n) = w]

NumberWords == Numerals \cup DOMAIN WordValue \cup {"hundred", "and"}

\* One step of _words_to_number.
AddWord(acc, word) ==
  IF word = "and" \/ ~acc.ok THEN acc
  ELSE IF word = "hundred" /\ acc.found
       THEN [acc EXCEPT !.sum = Max({@, 1}) * 100]
  ELSE IF word # "hundred" /\ word \in NumberWords
       THEN [acc EXCEPT !.found = TRUE,
                        !.sum = @ + (IF word \in Numerals THEN DigitsValue[word] ELSE WordValue[word])]
  ELSE [acc EXCEPT !.ok = FALSE]

WordsToNumber(words) ==
  LET acc == FoldLeft(AddWord, [sum |-> 0, found |-> FALSE, ok |-> TRUE], words)
  IN  IF acc.ok /\ acc.found THEN acc.sum ELSE NoNumber

\* The number that begins after, or ends before, position i.
NumberAfter(text, i) ==
  LET end == CHOOSE j \in i..Len(text) :
               /\ \A k \in (i + 1)..j : text[k] \in NumberWords
               /\ j < Len(text) => text[j + 1] \notin NumberWords
  IN  WordsToNumber(SubSeq(text, i + 1, end))

NumberUpTo(text, i) ==
  LET start == CHOOSE j \in 0..i :
                 /\ \A k \in (j + 1)..i : text[k] \in NumberWords
                 /\ j > 0 => text[j] \notin NumberWords
  IN  WordsToNumber(SubSeq(text, start + 1, i))

\* Places of the text where the phrase ends.
EndsOf(text, phrase) ==
  {i \in DOMAIN text : i >= Len(phrase)
                    /\ SubSeq(text, i - Len(phrase) + 1, i) = phrase}

NumberAfterKeyword(text, keyword) ==
  LET skip(i) == CHOOSE j \in i..Len(text) :
                   /\ \A k \in (i + 1)..j : text[k] \in {"to", "at", "is"}
                   /\ j < Len(text) => text[j + 1] \notin {"to", "at", "is"}
      hits == {i \in EndsOf(text, keyword) : NumberAfter(text, skip(i)) # NoNumber}
  IN  IF hits = {} THEN NoNumber ELSE NumberAfter(text, skip(Min(hits)))

NumberBeforeKeyword(text, keyword) ==
  LET before(i) == NumberUpTo(text, i - Len(keyword))
      hits == {i \in EndsOf(text, keyword) : before(i) # NoNumber}
  IN  IF hits = {} THEN NoNumber ELSE before(Min(hits))

\* "to N" anywhere in the text is the marker's fall-back.
NumberBeforeMarker(text, markers) ==
  LET marked == {i \in DOMAIN text :
                   text[i] \in markers /\ NumberUpTo(text, i - 1) # NoNumber}
      to == {i \in DOMAIN text : text[i] = "to" /\ i < Len(text)
                              /\ text[i + 1] \in NumberWords \ {"and"}}
  IN  IF marked # {} THEN NumberUpTo(text, Max(marked) - 1)
      ELSE IF to # {} THEN NumberAfter(text, Min(to)) ELSE NoNumber

NumberAfterRelation(text) ==
  LET hits == {i \in 1..(Len(text) - 1) :
                 /\ text[i] \in {"to", "at", "around"}
                 /\ NumberAfter(text, i) # NoNumber}
  IN  IF hits = {} THEN NoNumber ELSE NumberAfter(text, Min(hits))

TrailingNumber(text) == NumberUpTo(text, Len(text))

FirstNumber(numbers) ==
  FirstOf([i \in DOMAIN numbers |-> <<numbers[i] # NoNumber, numbers[i]>>], NoNumber)

---------------------------------------------------------------------------
(* Clauses *)

Polite == {"hey", "please", "kindly", "just", "also", "then", "oh", "quickly"}

Gerund == [switching |-> "switch", turning |-> "turn", opening |-> "open",
           closing |-> "close", dimming |-> "dim", setting |-> "set",
           checking |-> "check", playing |-> "play"]

CleanClause(text) ==
  LET words == SelectSeq(text, LAMBDA w : w \notin Polite)
      core == IF Opens(words, {"you"}, DOMAIN Gerund) THEN Tail(words) ELSE words
  IN  IF Starts(core, DOMAIN Gerund) THEN <<Gerund[core[1]]>> \o Tail(core) ELSE words

Connectors == {"and", "plus", "then", "after", "while"}
Fillers == {"please", "also", "then", "oh", "you"}
ActionStart ==
  DOMAIN Gerund \cup
  {"turn", "switch", "power", "flip", "set", "change", "dim", "open", "close",
   "raise", "lower", "lock", "unlock", "activate", "deactivate", "run", "start",
   "stop", "pause", "resume", "play", "mute", "unmute", "skip", "next",
   "previous", "check", "tell", "get", "what", "is", "are", "how"}

\* Connectors that an operation word follows; others join targets.
Boundaries(text) ==
  {i \in DOMAIN text :
     /\ text[i] \in Connectors
     /\ \E j \in (i + 1)..Len(text) :
          /\ text[j] \in ActionStart
          /\ \A k \in (i + 1)..(j - 1) : text[k] \in Fillers}

Ascending(S) ==
  [n \in 1..Cardinality(S) |-> CHOOSE i \in S : Cardinality({j \in S : j < i}) = n - 1]

\* The pieces of a text between the cuts, which are left out.
Pieces(text, cuts) ==
  LET at == Ascending(cuts \cup {0, Len(text) + 1})
  IN  [n \in 1..(Cardinality(cuts) + 1) |-> SubSeq(text, at[n] + 1, at[n + 1] - 1)]

\* The clauses in the order they are executed: for "A after B", B is first.
SplitCompoundRequest(text) ==
  LET cuts == Ascending(Boundaries(text))
      clauses == Pieces(text, ToSet(cuts))
      place(ordered, n) ==
        IF text[cuts[n]] = "after" THEN <<CleanClause(clauses[n + 1])>> \o ordered
        ELSE Append(ordered, CleanClause(clauses[n + 1]))
  IN  SelectSeq(FoldLeft(place, <<CleanClause(clauses[1])>>, [n \in DOMAIN cuts |-> n]),
                LAMBDA c : c # <<>>)

---------------------------------------------------------------------------
(* Domains *)

\* DOMAIN_ALIASES, in the order they are tried.
DomainAliases ==
  <<<<{<<"vacuum">>, <<"vacuums">>}, "vacuum">>,
    <<{<<"weather">>}, "weather">>,
    <<{<<"temperature", "sensors">>, <<"temperature", "sensor">>}, "sensor">>,
    <<{<<"media", "player">>}, "media_player">>,
    <<{<<"garage", "doors">>, <<"garage", "door">>}, "cover">>,
    <<{<<"thermostat">>, <<"climate">>, <<"temperature">>}, "climate">>,
    <<{<<"blinds">>, <<"blind">>, <<"covers">>, <<"cover">>}, "cover">>,
    <<{<<"speakers">>, <<"speaker">>}, "media_player">>,
    <<{<<"windows">>, <<"window">>}, "cover">>,
    <<{<<"switches">>, <<"switch">>}, "switch">>,
    <<{<<"tvs">>, <<"tv">>}, "media_player">>,
    <<{<<"sensors">>, <<"sensor">>}, "sensor">>>>

\* COVER_SUBTYPE_FORMS.
CoverSubtypeForms ==
  [window_covering |-> {<<"blind">>, <<"blinds">>, <<"window">>, <<"windows">>},
   garage_door |-> {<<"garage", "door">>, <<"garage", "doors">>}]

\* A control noun is stronger than a phrase it is part of; the imperative
\* "switch on" does not name the domain switch.
ExplicitDomain(text) ==
  LET imperative == Opens(text, {"switch"}, {"on", "off"}) /\ ~SaysWord(text, {"switches"})
      alias(n) == <<(\E phrase \in DomainAliases[n][1] : Says(text, phrase))
                     /\ ~(imperative /\ DomainAliases[n][2] = "switch"), DomainAliases[n][2]>>
  IN  FirstOf(<<<<SaysWord(text, {"script", "scripts"}), "script">>,
                <<SaysWord(text, {"scene", "scenes"}), "scene">>,
                <<SaysWord(text, {"lock", "locks"}), "lock">>,
                <<SaysWord(text, {"fan", "fans"}), "fan">>,
                <<SaysWord(text, {"light", "lights", "lamp", "lamps"}), "light">>,
                <<~imperative /\ SaysWord(text, {"switch", "switches"}), "switch">>>>
                \o [n \in DOMAIN DomainAliases |-> alias(n)], None)

CoverSubtype(text) ==
  LET said == {s \in DOMAIN CoverSubtypeForms :
                 \E form \in CoverSubtypeForms[s] : Says(text, form)}
  IN  FirstOf(<<<<"window_covering" \in said, "window_covering">>,
                <<"garage_door" \in said, "garage_door">>>>, None)

SemanticDomain(text) ==
  FirstOf(<<<<SaysWord(text, {"weather", "outside"})
                /\ SaysWord(text, {"temperature", "weather", "cold", "warm"}), "weather">>,
            <<SaysWord(text, {"color", "brightness", "bright", "dim"}), "light">>,
            <<Says(text, <<"fan", "speed">>), "fan">>,
            <<SaysWord(text, {"position"}) \/ CoverSubtype(text) # None, "cover">>,
            <<SaysWord(text, {"volume", "sound", "mute"}), "media_player">>,
            <<SaysWord(text, {"motion", "presence", "contact"}), "binary_sensor">>,
            <<Says(text, <<"temperature", "sensor">>) \/ Says(text, <<"temperature", "sensors">>), "sensor">>,
            <<SaysWord(text, {"temperature", "climate", "warm"}), "climate">>>>, None)
=============================================================================
