------------------------------ MODULE FireZones ------------------------------
(***************************************************************************)
(* The fires and stations of the FireWatch plugin (Build/Plugins/          *)
(* FireWatch.lua): fires start, change and end as the packets of a source  *)
(* say, stations report positions over APRS-IS, and the plugin executes an *)
(* event for every fire that changes and for every station that enters a   *)
(* fire zone, moves in it or leaves it.                                    *)
(*                                                                         *)
(* The hot spots of a fire are modelled by its zone: the places that lie   *)
(* within the radius of one of them.                                       *)
(***************************************************************************)
EXTENDS Naturals

CONSTANTS
    Stations,
    Fires,      \* ids of fires
    Names,      \* names of fires
    Places,     \* positions that stations report
    Zones,      \* zones that fires have
    NoFire,     \* an id that is not in FireWatch.Private.Fires
    Unknown     \* a station that is not in FireWatch.Private.StationPositions

ASSUME FireZonesAssumption ==
    /\ Zones \subseteq SUBSET Places
    /\ Unknown \notin Places

VARIABLES
    fires,      \* FireWatch.Private.Fires
    positions,  \* FireWatch.Private.StationPositions
    last,       \* history: the last position each station reported
    told,       \* history: the fires a station was last reported to be in
    heard       \* history: the names a listener of the fire events knows

firesVars == <<fires, positions, last, told, heard>>
stationVars == <<positions, last, told>>

Fire == [name : Names, zone : Zones]

ASSUME NoFireAssumption == NoFire \notin Fire \cup Names

FiresTypeOK ==
    /\ fires \in [Fires -> Fire \cup {NoFire}]
    /\ positions \in [Stations -> Places \cup {Unknown}]
    /\ last \in [Stations -> Places \cup {Unknown}]
    /\ told \subseteq Stations \X Fires
    /\ heard \in [Fires -> Names \cup {NoFire}]

FiresInit ==
    /\ fires = [f \in Fires |-> NoFire]
    /\ positions = [s \in Stations |-> Unknown]
    /\ last = positions
    /\ told = {}
    /\ heard = fires

-----------------------------------------------------------------------------
(* The packets of a source.                                                *)

(* Also a fire that is known already is replaced and starts again.         *)
AddFire(f, name, zone) ==
    /\ fires' = [fires EXCEPT ![f] = [name |-> name, zone |-> zone]]
    /\ heard' = [heard EXCEPT ![f] = name]
    /\ UNCHANGED stationVars

RemoveFire(f) ==
    /\ fires[f] # NoFire
    /\ fires' = [fires EXCEPT ![f] = NoFire]
    /\ heard' = [heard EXCEPT ![f] = NoFire]
    /\ UNCHANGED stationVars

(* Mutant: a fire that is not known is added.                              *)
UpdateFireAdds(f, name, zone) ==
    /\ fires' = [fires EXCEPT ![f] = [name |-> name, zone |-> zone]]
    /\ heard' = IF fires[f] # NoFire THEN [heard EXCEPT ![f] = name] ELSE heard
    /\ UNCHANGED stationVars

(* OnFireNameChanged if the name is another one, then OnFireUpdated.       *)
UpdateFire(f, name, zone) ==
    /\ fires[f] # NoFire
    /\ fires' = [fires EXCEPT ![f] = [name |-> name, zone |-> zone]]
    /\ heard' = IF fires[f].name # name THEN [heard EXCEPT ![f] = name] ELSE heard
    /\ UNCHANGED stationVars

-----------------------------------------------------------------------------
(* A station reports its position.                                         *)

(* The fires a place is in the zone of.                                    *)
FindFires(place) == {f \in Fires : fires[f] # NoFire /\ place \in fires[f].zone}

Reported(s, fs) == {s} \X fs

(* Mutant: a station that was known is forgotten in any case.              *)
RememberedOnce(s, place) == IF positions[s] # Unknown THEN Unknown ELSE place

(* A station that was known and is in no zone now is forgotten.            *)
Remembered(s, place) ==
    IF positions[s] # Unknown /\ FindFires(place) = {} THEN Unknown ELSE place

(* A station that was not known enters the zones it is in, another one has *)
(* moved in them, and leaves those only its previous position is in.       *)
OnReceivePosition(s, place) ==
    LET now  == FindFires(place)
        prev == IF positions[s] = Unknown THEN {} ELSE FindFires(positions[s])
    IN  /\ positions' = [positions EXCEPT ![s] = Remembered(s, place)]
        /\ last' = [last EXCEPT ![s] = place]
        /\ told' = (told \cup Reported(s, now)) \ Reported(s, prev \ now)
        /\ UNCHANGED <<fires, heard>>

-----------------------------------------------------------------------------

FiresNext ==
    \/ \E f \in Fires, name \in Names, zone \in Zones :
           AddFire(f, name, zone) \/ UpdateFire(f, name, zone)
    \/ \E f \in Fires : RemoveFire(f)
    \/ \E s \in Stations, place \in Places : OnReceivePosition(s, place)

FiresSpec == FiresInit /\ [][FiresNext]_firesVars

-----------------------------------------------------------------------------

Inside(s, f) == last[s] # Unknown /\ f \in FindFires(last[s])

(* Listeners are right about a station and a fire, and the plugin knows    *)
(* where the station is when they take it to be in the zone.               *)
Followed(s, f) ==
    /\ (<<s, f>> \in told) = Inside(s, f)
    /\ Inside(s, f) => positions[s] = last[s]

(* As long as the fires stay as they are, listeners are told of every zone *)
(* a station comes into and goes out of: once followed it stays followed,  *)
(* also across reports after which the station is forgotten                *)
(* (FireWatch.lua:22-49).                                                  *)
StationsStayFollowed ==
    [][UNCHANGED fires =>
         \A s \in Stations, f \in Fires : Followed(s, f) => Followed(s, f)']_firesVars

(* A listener that takes names from OnFireStarted and OnFireNameChanged    *)
(* and drops fires at OnFireExtinguished knows the fires there are         *)
(* (FireWatch.lua:232, 243, 260).                                          *)
ListenersKnowTheFires ==
    \A f \in Fires : heard[f] = IF fires[f] = NoFire THEN NoFire ELSE fires[f].name

(* The types, and what listeners know of the fires.                        *)
FiresInv == FiresTypeOK /\ ListenersKnowTheFires
=============================================================================
