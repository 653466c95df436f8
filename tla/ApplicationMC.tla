--------------------------- MODULE ApplicationMC ---------------------------
(***************************************************************************)
(* The instance of Application that TLC checks: two conversations, and a   *)
(* house with two rooms.                                                   *)
(***************************************************************************)
EXTENDS Application, TLC

Device(name, area, via) == [name |-> name, area |-> area, via |-> via]
Entity(domain, device, area, class) ==
  [domain |-> domain, device |-> device, area |-> area, class |-> class,
   words |-> {}]

Rooms == ("office" :> "office") @@ ("den" :> "den")

\* In the office a satellite on a hub with a speaker and a screen, in the den
\* one of the same name with a player of its own.
House ==
  [devices |-> "h" :> Device("hub", "office", Nothing)
            @@ "a" :> Device("one", Nothing, "h")
            @@ "s" :> Device("speaker", "office", "h")
            @@ "v" :> Device("screen", "office", "h")
            @@ "b" :> Device("one", "den", Nothing),
   entities |-> "sat a" :> Entity("assist_satellite", "a", "office", Nothing)
             @@ "sat b" :> Entity("assist_satellite", "b", Nothing, Nothing)
             @@ "player a" :> Entity("media_player", "s", Nothing, "speaker")
             @@ "screen" :> Entity("media_player", "v", Nothing, "tv")
             @@ "player b" :> Entity("media_player", "b", Nothing, Nothing),
   areas |-> Rooms]

MCHouses == {House}

Body(key, sends, reset, device, name, hint) ==
  [key |-> key, sends |-> sends, reset |-> reset, device |-> device,
   deviceName |-> name, area |-> Nothing, areaName |-> Nothing, hint |-> hint]

MCBodies ==
  {Body("k1", TRUE, FALSE, "a", Nothing, "den"),
   Body("k1", FALSE, FALSE, Nothing, "one", "den"),
   Body("k1", TRUE, TRUE, Nothing, Nothing, Nothing),
   Body("k2", FALSE, FALSE, Nothing, Nothing, Nothing)}

Symmetry == Permutations(Requests)
=============================================================================
