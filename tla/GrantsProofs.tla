---------------------------- MODULE GrantsProofs ----------------------------
(***************************************************************************)
(* Proofs about the grant registry.  RegistryInv of Grants is kept by      *)
(* every step, with OldVersionsAreAnnounced; the safety properties of the  *)
(* component follow from it, for any number of requests, principals,       *)
(* policy versions, limits and ages.                                       *)
(*                                                                         *)
(* Most parts of the invariant are disturbed by few actions.  What each    *)
(* group of variables is written by is said once (Written), as is what a   *)
(* step does to the slots (SlotsMove), to the places (PlacesMove), and to  *)
(* the live grants with their records and wires (EndsMove).                *)
(***************************************************************************)
EXTENDS Grants, FiniteSetTheorems, TLAPS

-----------------------------------------------------------------------------
(* A step is one of these.                                                 *)
LEMMA StepCases ==
  ASSUME [Next]_vars
  PROVE  \/ \E a \in Asks :
              \/ Arrives(a) \/ Reloads(a) \/ Compares(a) \/ Announces(a) \/ Ticks(a)
              \/ \E c \in Asks : AnnouncesTo(a, c) \/ TicksOn(a, c)
              \/ Admits(a) \/ Decides(a) \/ Appends(a) \/ Delivers(a) \/ Opens(a)
              \/ Issues(a) \/ Arrested(a) \/ Rechecks(a) \/ Rereads(a)
              \/ BeginsToHold(a) \/ Holds(a) \/ Finishes(a) \/ Closes(a)
              \/ Refuses(a) \/ AppendFails(a) \/ PeerActs(a)
         \/ \E t \in Threads : Records(t)
         \/ StopsAll \/ (\E c \in Asks : StopsOne(c)) \/ TimePasses \/ Edits \/ Stops
         \/ UNCHANGED vars
BY DEF Next, Serves, Sweeps, Registers, Watches, Shutdown, Incident, Threads

(* Who writes what.                                                        *)
Written ==
  /\ UNCHANGED policyVars \/ Edits \/ TimePasses \/ (\E a \in Asks : Reloads(a)
        \/ Compares(a) \/ Admits(a))
  /\ UNCHANGED slotVars \/ (\E a \in Asks : Decides(a) \/ AppendFails(a) \/ Delivers(a)
        \/ Opens(a))
  /\ UNCHANGED stopping \/ Stops
  /\ UNCHANGED version \/ (\E a \in Asks : Decides(a))
  /\ UNCHANGED <<age, silence, holding>> \/ TimePasses \/ (\E a \in Asks : Decides(a)
        \/ Opens(a) \/ BeginsToHold(a)) \/ (\E a \in Asks, c \in Asks : TicksOn(a, c))
  /\ UNCHANGED lag \/ TimePasses \/ (\E a \in Asks : Arrives(a) \/ Ticks(a) \/ Decides(a)
        \/ Refuses(a) \/ Holds(a)) \/ (\E a \in Asks, c \in Asks : TicksOn(a, c))
  /\ UNCHANGED wire \/ (\E a \in Asks : Delivers(a) \/ Arrested(a) \/ Holds(a))
        \/ (\E a \in Asks, c \in Asks : AnnouncesTo(a, c))
        \/ (\E a \in Asks, c \in Asks : TicksOn(a, c)) \/ (\E c \in Asks : StopsOne(c))
  /\ UNCHANGED <<shut, peer>> \/ (\E a \in Asks : Closes(a) \/ PeerActs(a))
        \/ (\E t \in Threads : Records(t))
  /\ UNCHANGED events \/ (\E a \in Asks : Issues(a)) \/ (\E t \in Threads : Records(t))
  /\ UNCHANGED ending \/ (\E a \in Asks : Arrested(a) \/ Holds(a) \/ Finishes(a))
        \/ (\E a \in Asks, c \in Asks : AnnouncesTo(a, c))
        \/ (\E a \in Asks, c \in Asks : TicksOn(a, c)) \/ (\E c \in Asks : StopsOne(c))
        \/ (\E t \in Threads : Records(t))
  /\ UNCHANGED conns \/ (\E a \in Asks : Arrested(a) \/ Holds(a) \/ Finishes(a)
        \/ Opens(a)) \/ (\E a \in Asks, c \in Asks : AnnouncesTo(a, c))
        \/ (\E a \in Asks, c \in Asks : TicksOn(a, c)) \/ (\E c \in Asks : StopsOne(c))
  /\ UNCHANGED lock \/ (\E a \in Asks : Arrested(a) \/ Holds(a))
        \/ (\E a \in Asks, c \in Asks : AnnouncesTo(a, c))
        \/ (\E a \in Asks, c \in Asks : TicksOn(a, c)) \/ (\E c \in Asks : StopsOne(c))
        \/ (\E t \in Threads : Records(t))
  /\ UNCHANGED load \/ (\E a \in Asks : Reloads(a) \/ Compares(a) \/ Announces(a)
        \/ Admits(a) \/ Decides(a) \/ Refuses(a) \/ Rereads(a))
        \/ (\E a \in Asks, c \in Asks : AnnouncesTo(a, c))
  /\ UNCHANGED todo \/ StopsAll \/ (\E a \in Asks : Announces(a) \/ Ticks(a))
        \/ (\E a \in Asks, c \in Asks : AnnouncesTo(a, c))
        \/ (\E a \in Asks, c \in Asks : TicksOn(a, c)) \/ (\E c \in Asks : StopsOne(c))
  /\ UNCHANGED sawStop \/ (\E a \in Asks : Opens(a))

(* No other action writes it.                                              *)
LEMMA Writers ==
  ASSUME [Next]_vars
  PROVE  Written
<1>1. ASSUME NEW a \in Asks, Arrives(a) PROVE Written
  <2>1. UNCHANGED <<policyVars, slotVars, stopping, version, <<age, silence,
     holding>>, wire, <<shut, peer>>, events, ending, conns, lock, load, todo, sawStop>>
    BY <1>1 DEF Arrives, At, Goes, policyVars, slotVars, grantVars, wireVars,
     threadVars, registryVars
  <2> QED  BY <1>1, <2>1 DEF Written, policyVars, slotVars
<1>2. ASSUME NEW a \in Asks, Reloads(a) PROVE Written
  <2>1. UNCHANGED <<slotVars, stopping, version, <<age, silence, holding>>, lag,
     wire, <<shut, peer>>, events, ending, conns, lock, todo, sawStop>>
    BY <1>2 DEF Reloads, At, Goes, Loads, policyVars, slotVars, grantVars, wireVars,
     threadVars, registryVars
  <2> QED  BY <1>2, <2>1 DEF Written, policyVars, slotVars
<1>3. ASSUME NEW a \in Asks, Compares(a) PROVE Written
  <2>1. UNCHANGED <<slotVars, stopping, version, <<age, silence, holding>>, lag,
     wire, <<shut, peer>>, events, ending, conns, lock, todo, sawStop>>
    BY <1>3 DEF Compares, At, Goes, Returned, policyVars, slotVars, grantVars,
     wireVars, threadVars, registryVars
  <2> QED  BY <1>3, <2>1 DEF Written, policyVars, slotVars
<1>4. ASSUME NEW a \in Asks, Announces(a) PROVE Written
  <2>1. UNCHANGED <<policyVars, slotVars, stopping, version, <<age, silence,
     holding>>, lag, wire, <<shut, peer>>, events, ending, conns, lock, sawStop>>
    BY <1>4 DEF Announces, At, Goes, Visits, Returned, policyVars, slotVars,
     grantVars, wireVars, threadVars, registryVars
  <2> QED  BY <1>4, <2>1 DEF Written, policyVars, slotVars
<1>5. ASSUME NEW a \in Asks, Ticks(a) PROVE Written
  <2>1. UNCHANGED <<policyVars, slotVars, stopping, version, <<age, silence,
     holding>>, wire, <<shut, peer>>, events, ending, conns, lock, load, sawStop>>
    BY <1>5 DEF Ticks, At, Goes, Visits, SweptAt, AfterSweep, policyVars, slotVars,
     grantVars, wireVars, threadVars, registryVars
  <2> QED  BY <1>5, <2>1 DEF Written, policyVars, slotVars
<1>6. ASSUME NEW a \in Asks, NEW c \in Asks, AnnouncesTo(a, c) PROVE Written
  <2>1. UNCHANGED <<policyVars, slotVars, stopping, version, <<age, silence,
     holding>>, lag, <<shut, peer>>, events, sawStop>>
    BY <1>6 DEF AnnouncesTo, At, Goes, End, Visits, Returned, policyVars, slotVars,
     grantVars, wireVars, threadVars, registryVars
  <2> QED  BY <1>6, <2>1 DEF Written, policyVars, slotVars
<1>7. ASSUME NEW a \in Asks, NEW c \in Asks, TicksOn(a, c) PROVE Written
  <2>1. UNCHANGED <<policyVars, slotVars, stopping, version, <<shut, peer>>, events,
     load, sawStop>>
    BY <1>7 DEF TicksOn, At, Goes, End, Beats, Lose, Visits, SweptAt, AfterSweep,
     policyVars, slotVars, grantVars, wireVars, threadVars, registryVars
  <2> QED  BY <1>7, <2>1 DEF Written, policyVars, slotVars
<1>8. ASSUME NEW a \in Asks, Admits(a) PROVE Written
  <2>1. UNCHANGED <<slotVars, stopping, version, <<age, silence, holding>>, lag,
     wire, <<shut, peer>>, events, ending, conns, lock, todo, sawStop>>
    BY <1>8 DEF Admits, At, Goes, Loads, policyVars, slotVars, grantVars, wireVars,
     threadVars, registryVars
  <2> QED  BY <1>8, <2>1 DEF Written, policyVars, slotVars
<1>9. ASSUME NEW a \in Asks, Decides(a) PROVE Written
  <2>1. UNCHANGED <<policyVars, stopping, wire, <<shut, peer>>, events, ending,
     conns, lock, todo, sawStop>>
    BY <1>9 DEF Decides, At, Goes, Answered, policyVars, slotVars, grantVars,
     wireVars, threadVars, registryVars
  <2> QED  BY <1>9, <2>1 DEF Written, policyVars, slotVars
<1>10. ASSUME NEW a \in Asks, Appends(a) PROVE Written
  <2>1. UNCHANGED <<policyVars, slotVars, stopping, version, <<age, silence,
     holding>>, lag, wire, <<shut, peer>>, events, ending, conns, lock, load, todo,
     sawStop>>
    BY <1>10 DEF Appends, At, Goes, policyVars, slotVars, grantVars, wireVars,
     threadVars, registryVars
  <2> QED  BY <1>10, <2>1 DEF Written, policyVars, slotVars
<1>11. ASSUME NEW a \in Asks, Delivers(a) PROVE Written
  <2>1. UNCHANGED <<policyVars, stopping, version, <<age, silence, holding>>, lag,
     <<shut, peer>>, events, ending, conns, lock, load, todo, sawStop>>
    BY <1>11 DEF Delivers, At, Goes, Cancels, Releases, policyVars, slotVars,
     grantVars, wireVars, threadVars, registryVars
  <2> QED  BY <1>11, <2>1 DEF Written, policyVars, slotVars
<1>12. ASSUME NEW a \in Asks, Opens(a) PROVE Written
  <2>1. UNCHANGED <<policyVars, stopping, version, lag, wire, <<shut, peer>>, events,
     ending, lock, load, todo>>
    BY <1>12 DEF Opens, At, Goes, Releases, policyVars, slotVars, grantVars,
     wireVars, threadVars, registryVars
  <2> QED  BY <1>12, <2>1 DEF Written, policyVars, slotVars
<1>13. ASSUME NEW a \in Asks, Issues(a) PROVE Written
  <2>1. UNCHANGED <<policyVars, slotVars, stopping, version, <<age, silence,
     holding>>, lag, wire, <<shut, peer>>, ending, conns, lock, load, todo, sawStop>>
    BY <1>13 DEF Issues, At, Goes, policyVars, slotVars, grantVars, wireVars,
     threadVars, registryVars
  <2> QED  BY <1>13, <2>1 DEF Written, policyVars, slotVars
<1>14. ASSUME NEW a \in Asks, Arrested(a) PROVE Written
  <2>1. UNCHANGED <<policyVars, slotVars, stopping, version, <<age, silence,
     holding>>, lag, <<shut, peer>>, events, load, todo, sawStop>>
    BY <1>14 DEF Arrested, At, Goes, End, policyVars, slotVars, grantVars, wireVars,
     threadVars, registryVars
  <2> QED  BY <1>14, <2>1 DEF Written, policyVars, slotVars
<1>15. ASSUME NEW a \in Asks, Rechecks(a) PROVE Written
  <2>1. UNCHANGED <<policyVars, slotVars, stopping, version, <<age, silence,
     holding>>, lag, wire, <<shut, peer>>, events, ending, conns, lock, load, todo,
     sawStop>>
    BY <1>15 DEF Rechecks, At, Goes, policyVars, slotVars, grantVars, wireVars,
     threadVars, registryVars
  <2> QED  BY <1>15, <2>1 DEF Written, policyVars, slotVars
<1>16. ASSUME NEW a \in Asks, Rereads(a) PROVE Written
  <2>1. UNCHANGED <<policyVars, slotVars, stopping, version, <<age, silence,
     holding>>, lag, wire, <<shut, peer>>, events, ending, conns, lock, todo, sawStop>>
    BY <1>16 DEF Rereads, At, Goes, policyVars, slotVars, grantVars, wireVars,
     threadVars, registryVars
  <2> QED  BY <1>16, <2>1 DEF Written, policyVars, slotVars
<1>17. ASSUME NEW a \in Asks, BeginsToHold(a) PROVE Written
  <2>1. UNCHANGED <<policyVars, slotVars, stopping, version, lag, wire, <<shut,
     peer>>, events, ending, conns, lock, load, todo, sawStop>>
    BY <1>17 DEF BeginsToHold, At, Goes, policyVars, slotVars, grantVars, wireVars,
     threadVars, registryVars
  <2> QED  BY <1>17, <2>1 DEF Written, policyVars, slotVars
<1>18. ASSUME NEW a \in Asks, Holds(a) PROVE Written
  <2>1. UNCHANGED <<policyVars, slotVars, stopping, version, <<age, silence,
     holding>>, <<shut, peer>>, events, load, todo, sawStop>>
    BY <1>18 DEF Holds, At, Goes, LetsGo, RunsOut, Readable, Wakes, End, Lose,
     policyVars, slotVars, grantVars, wireVars, threadVars, registryVars
  <2> QED  BY <1>18, <2>1 DEF Written, policyVars, slotVars
<1>19. ASSUME NEW a \in Asks, Finishes(a) PROVE Written
  <2>1. UNCHANGED <<policyVars, slotVars, stopping, version, <<age, silence,
     holding>>, lag, wire, <<shut, peer>>, events, lock, load, todo, sawStop>>
    BY <1>19 DEF Finishes, At, Goes, Lose, policyVars, slotVars, grantVars, wireVars,
     threadVars, registryVars
  <2> QED  BY <1>19, <2>1 DEF Written, policyVars, slotVars
<1>20. ASSUME NEW a \in Asks, Closes(a) PROVE Written
  <2>1. UNCHANGED <<policyVars, slotVars, stopping, version, <<age, silence,
     holding>>, lag, wire, events, ending, conns, lock, load, todo, sawStop>>
    BY <1>20 DEF Closes, At, policyVars, slotVars, grantVars, wireVars, threadVars,
     registryVars
  <2> QED  BY <1>20, <2>1 DEF Written, policyVars, slotVars
<1>21. ASSUME NEW t \in Threads, Records(t) PROVE Written
  <2>1. UNCHANGED <<policyVars, slotVars, stopping, version, <<age, silence,
     holding>>, lag, wire, conns, load, todo, sawStop>>
    BY <1>21 DEF Records, policyVars, slotVars, grantVars, wireVars, threadVars,
     registryVars
  <2> QED  BY <1>21, <2>1 DEF Written, policyVars, slotVars
<1>22. ASSUME StopsAll PROVE Written
  <2>1. UNCHANGED <<policyVars, slotVars, stopping, version, <<age, silence,
     holding>>, lag, wire, <<shut, peer>>, events, ending, conns, lock, load, sawStop>>
    BY <1>22 DEF StopsAll, At, Goes, Visits, policyVars, slotVars, grantVars,
     wireVars, threadVars, registryVars
  <2> QED  BY <1>22, <2>1 DEF Written, policyVars, slotVars
<1>23. ASSUME NEW c \in Asks, StopsOne(c) PROVE Written
  <2>1. UNCHANGED <<policyVars, slotVars, stopping, version, <<age, silence,
     holding>>, lag, <<shut, peer>>, events, load, sawStop>>
    BY <1>23 DEF StopsOne, At, Goes, End, Visits, policyVars, slotVars, grantVars,
     wireVars, threadVars, registryVars
  <2> QED  BY <1>23, <2>1 DEF Written, policyVars, slotVars
<1>24. ASSUME TimePasses PROVE Written
  <2>1. UNCHANGED <<slotVars, stopping, version, wire, <<shut, peer>>, events,
     ending, conns, lock, load, todo, sawStop>>
    BY <1>24 DEF TimePasses, policyVars, slotVars, grantVars, wireVars, threadVars,
     registryVars
  <2> QED  BY <1>24, <2>1 DEF Written, policyVars, slotVars
<1>25. ASSUME Edits PROVE Written
  <2>1. UNCHANGED <<slotVars, stopping, version, <<age, silence, holding>>, lag,
     wire, <<shut, peer>>, events, ending, conns, lock, load, todo, sawStop>>
    BY <1>25 DEF Edits, policyVars, slotVars, grantVars, wireVars, threadVars,
     registryVars
  <2> QED  BY <1>25, <2>1 DEF Written, policyVars, slotVars
<1>26. ASSUME Stops PROVE Written
  <2>1. UNCHANGED <<policyVars, slotVars, version, <<age, silence, holding>>, lag,
     wire, <<shut, peer>>, events, ending, conns, lock, load, todo, sawStop>>
    BY <1>26 DEF Stops, At, Goes, policyVars, slotVars, grantVars, wireVars,
     threadVars, registryVars
  <2> QED  BY <1>26, <2>1 DEF Written, policyVars, slotVars
<1>27. ASSUME NEW a \in Asks, Refuses(a) PROVE Written
  <2>1. UNCHANGED <<policyVars, slotVars, stopping, version, <<age, silence,
     holding>>, wire, <<shut, peer>>, events, ending, conns, lock, todo, sawStop>>
    BY <1>27 DEF Refuses, At, Goes, Answered, policyVars, slotVars, grantVars,
     wireVars, threadVars, registryVars
  <2> QED  BY <1>27, <2>1 DEF Written, policyVars, slotVars
<1>28. ASSUME NEW a \in Asks, AppendFails(a) PROVE Written
  <2>1. UNCHANGED <<policyVars, stopping, version, <<age, silence, holding>>, lag,
     wire, <<shut, peer>>, events, ending, conns, lock, load, todo, sawStop>>
    BY <1>28 DEF AppendFails, At, Goes, Cancels, Releases, policyVars, slotVars,
     grantVars, wireVars, threadVars, registryVars
  <2> QED  BY <1>28, <2>1 DEF Written, policyVars, slotVars
<1>29. ASSUME NEW a \in Asks, PeerActs(a) PROVE Written
  <2>1. UNCHANGED <<policyVars, slotVars, stopping, version, <<age, silence,
     holding>>, lag, wire, events, ending, conns, lock, load, todo, sawStop>>
    BY <1>29 DEF PeerActs, policyVars, slotVars, grantVars, wireVars, threadVars,
     registryVars
  <2> QED  BY <1>29, <2>1 DEF Written, policyVars, slotVars
<1>30. CASE UNCHANGED vars
  BY <1>30 DEF Written, vars, policyVars, slotVars, grantVars, wireVars, threadVars, registryVars
<1> QED
  BY <1>1, <1>2, <1>3, <1>4, <1>5, <1>6, <1>7, <1>8, <1>9, <1>10, <1>11, <1>12,
     <1>13, <1>14, <1>15, <1>16, <1>17, <1>18, <1>19, <1>20, <1>21, <1>22, <1>23,
     <1>24, <1>25, <1>26, <1>27, <1>28, <1>29, <1>30, StepCases

-----------------------------------------------------------------------------
(* Types, a group of variables at a time.                                  *)

Loading == [version: Versions \cup {Unavailable}, next: {"tick", "decide", "watch"}]
Endings == [grant: Asks \cup {Nobody}, reason: Reasons \cup {"none"}, told: BOOLEAN]

SettingTypes == per_principal \in Limits /\ incidents \in 0..MaxIncidents
PolicyTypes ==
  /\ file \in Versions \cup {Unavailable}
  /\ current \in Versions /\ checked \in 0..ReloadSeconds
PlaceTypes == pc \in [Threads -> Places] /\ sawStop \in [Asks -> BOOLEAN]
LoadTypes == load \in [Threads -> Loading]
TodoTypes == todo \in [Threads -> SUBSET Asks]
AgeTypes ==
  /\ age \in [Asks -> Ages] /\ silence \in [Asks -> Ages]
  /\ holding \in [Asks -> Ages] /\ lag \in [Asks -> Ages]
VersionTypes == version \in [Asks -> Versions \cup {Unavailable}]
WireTypes == wire \in [Asks -> Seq(Frames)]
PeerTypes == shut \in [Asks -> BOOLEAN] /\ peer \in [Asks -> {"reading", "closed", "wrote"}]
EventTypes == events \in [Asks -> Seq(Reasons \cup {"issued"})]
EndingTypes == ending \in [Threads -> Endings] /\ EndingShape
RegistryTypes == conns \subseteq Asks /\ lock \in Threads \cup {Nobody} /\ stopping \in BOOLEAN
SlotTypes == reserved \in Nat /\ reservedBy \in [Principals -> Nat]

(* Together they are the types of the registry.                            *)
LEMMA Groups ==
  TypeOK /\ EndingShape <=>
    /\ SettingTypes /\ PolicyTypes /\ PlaceTypes /\ LoadTypes /\ TodoTypes /\ AgeTypes
    /\ VersionTypes /\ WireTypes /\ PeerTypes /\ EventTypes /\ EndingTypes
    /\ RegistryTypes /\ SlotTypes
BY DEF TypeOK, SettingTypes, PolicyTypes, PlaceTypes, LoadTypes, TodoTypes, AgeTypes, VersionTypes,
   WireTypes, PeerTypes, EventTypes, EndingTypes, RegistryTypes, SlotTypes, Loading, Endings

(* The settings stay, and incidents stay within their bound.               *)
LEMMA SettingStep ==
  ASSUME SettingTypes, [Next]_vars
  PROVE  SettingTypes'
BY GrantsAssumption DEF SettingTypes, Next, vars

(* The policy kept and the file are versions; the check has an age.        *)
LEMMA PolicyStep ==
  ASSUME PolicyTypes, LoadTypes,
         [Next]_vars
  PROVE  PolicyTypes'
<1>1. ASSUME NEW a \in Asks, Reloads(a) PROVE PolicyTypes'
  BY <1>1, GrantsAssumption DEF Reloads, At, Goes, Loads, policyVars, slotVars,
     grantVars, wireVars, threadVars, registryVars, PolicyTypes, LoadTypes, Loading,
     Threads
<1>2. ASSUME NEW a \in Asks, Compares(a) PROVE PolicyTypes'
  BY <1>2, GrantsAssumption DEF Compares, At, Goes, Returned, policyVars, slotVars,
     grantVars, wireVars, threadVars, registryVars, PolicyTypes, LoadTypes, Loading,
     Threads
<1>3. ASSUME NEW a \in Asks, Admits(a) PROVE PolicyTypes'
  BY <1>3, GrantsAssumption DEF Admits, At, Goes, Loads, policyVars, slotVars,
     grantVars, wireVars, threadVars, registryVars, PolicyTypes, LoadTypes, Loading,
     Threads
<1>4. ASSUME TimePasses PROVE PolicyTypes'
  BY <1>4, GrantsAssumption DEF TimePasses, policyVars, slotVars, grantVars,
     wireVars, threadVars, registryVars, Older, PolicyTypes, LoadTypes, Loading, Threads
<1>5. ASSUME Edits PROVE PolicyTypes'
  BY <1>5, GrantsAssumption DEF Edits, policyVars, slotVars, grantVars, wireVars,
     threadVars, registryVars, PolicyTypes, LoadTypes, Loading, Threads
<1>6. CASE UNCHANGED <<policyVars>>
  BY <1>6, GrantsAssumption DEF PolicyTypes, LoadTypes, Loading, Threads, policyVars,
     slotVars
<1> QED
  BY <1>1, <1>2, <1>3, <1>4, <1>5, <1>6, Writers DEF Written

(* Every thread is somewhere.                                              *)
LEMMA PlaceStep ==
  ASSUME PlaceTypes, LoadTypes, RegistryTypes,
         [Next]_vars
  PROVE  PlaceTypes'
<1>1. ASSUME NEW a \in Asks, Arrives(a) PROVE PlaceTypes'
  BY <1>1 DEF Arrives, At, Goes, policyVars, slotVars, grantVars, wireVars,
     threadVars, registryVars, PlaceTypes, LoadTypes, RegistryTypes, Loading, Places,
     Threads
<1>2. ASSUME NEW a \in Asks, Reloads(a) PROVE PlaceTypes'
  BY <1>2 DEF Reloads, At, Goes, Loads, policyVars, slotVars, grantVars, wireVars,
     threadVars, registryVars, PlaceTypes, LoadTypes, RegistryTypes, Loading, Places,
     Threads
<1>3. ASSUME NEW a \in Asks, Compares(a) PROVE PlaceTypes'
  BY <1>3 DEF Compares, At, Goes, Returned, policyVars, slotVars, grantVars,
     wireVars, threadVars, registryVars, PlaceTypes, LoadTypes, RegistryTypes,
     Loading, Places, Threads
<1>4. ASSUME NEW a \in Asks, Announces(a) PROVE PlaceTypes'
  BY <1>4 DEF Announces, At, Goes, Visits, Returned, policyVars, slotVars, grantVars,
     wireVars, threadVars, registryVars, PlaceTypes, LoadTypes, RegistryTypes,
     Loading, Places, Threads
<1>5. ASSUME NEW a \in Asks, Ticks(a) PROVE PlaceTypes'
  BY <1>5 DEF Ticks, At, Goes, Visits, SweptAt, AfterSweep, policyVars, slotVars,
     grantVars, wireVars, threadVars, registryVars, PlaceTypes, LoadTypes,
     RegistryTypes, Loading, Places, Threads
<1>6. ASSUME NEW a \in Asks, NEW c \in Asks, AnnouncesTo(a, c) PROVE PlaceTypes'
  BY <1>6 DEF AnnouncesTo, At, Goes, End, Visits, Returned, policyVars, slotVars,
     grantVars, wireVars, threadVars, registryVars, PlaceTypes, LoadTypes,
     RegistryTypes, Loading, Places, Threads
<1>7. ASSUME NEW a \in Asks, NEW c \in Asks, TicksOn(a, c) PROVE PlaceTypes'
  BY <1>7 DEF TicksOn, At, Goes, End, Beats, Lose, Visits, SweptAt, AfterSweep,
     policyVars, slotVars, grantVars, wireVars, threadVars, registryVars, PlaceTypes,
     LoadTypes, RegistryTypes, Loading, Places, Threads
<1>8. ASSUME NEW a \in Asks, Admits(a) PROVE PlaceTypes'
  BY <1>8 DEF Admits, At, Goes, Loads, policyVars, slotVars, grantVars, wireVars,
     threadVars, registryVars, PlaceTypes, LoadTypes, RegistryTypes, Loading, Places,
     Threads
<1>9. ASSUME NEW a \in Asks, Decides(a) PROVE PlaceTypes'
  BY <1>9 DEF Decides, At, Goes, Answered, policyVars, slotVars, grantVars, wireVars,
     threadVars, registryVars, PlaceTypes, LoadTypes, RegistryTypes, Loading, Places,
     Threads
<1>10. ASSUME NEW a \in Asks, Appends(a) PROVE PlaceTypes'
  BY <1>10 DEF Appends, At, Goes, policyVars, slotVars, grantVars, wireVars,
     threadVars, registryVars, PlaceTypes, LoadTypes, RegistryTypes, Loading, Places,
     Threads
<1>11. ASSUME NEW a \in Asks, Delivers(a) PROVE PlaceTypes'
  BY <1>11 DEF Delivers, At, Goes, Cancels, Releases, policyVars, slotVars,
     grantVars, wireVars, threadVars, registryVars, PlaceTypes, LoadTypes,
     RegistryTypes, Loading, Places, Threads
<1>12. ASSUME NEW a \in Asks, Opens(a) PROVE PlaceTypes'
  BY <1>12 DEF Opens, At, Goes, Releases, policyVars, slotVars, grantVars, wireVars,
     threadVars, registryVars, PlaceTypes, LoadTypes, RegistryTypes, Loading, Places,
     Threads
<1>13. ASSUME NEW a \in Asks, Issues(a) PROVE PlaceTypes'
  BY <1>13 DEF Issues, At, Goes, policyVars, slotVars, grantVars, wireVars,
     threadVars, registryVars, PlaceTypes, LoadTypes, RegistryTypes, Loading, Places,
     Threads
<1>14. ASSUME NEW a \in Asks, Arrested(a) PROVE PlaceTypes'
  BY <1>14 DEF Arrested, At, Goes, End, policyVars, slotVars, grantVars, wireVars,
     threadVars, registryVars, PlaceTypes, LoadTypes, RegistryTypes, Loading, Places,
     Threads
<1>15. ASSUME NEW a \in Asks, Rechecks(a) PROVE PlaceTypes'
  BY <1>15 DEF Rechecks, At, Goes, policyVars, slotVars, grantVars, wireVars,
     threadVars, registryVars, PlaceTypes, LoadTypes, RegistryTypes, Loading, Places,
     Threads
<1>16. ASSUME NEW a \in Asks, Rereads(a) PROVE PlaceTypes'
  BY <1>16 DEF Rereads, At, Goes, policyVars, slotVars, grantVars, wireVars,
     threadVars, registryVars, PlaceTypes, LoadTypes, RegistryTypes, Loading, Places,
     Threads
<1>17. ASSUME NEW a \in Asks, BeginsToHold(a) PROVE PlaceTypes'
  BY <1>17 DEF BeginsToHold, At, Goes, policyVars, slotVars, grantVars, wireVars,
     threadVars, registryVars, PlaceTypes, LoadTypes, RegistryTypes, Loading, Places,
     Threads
<1>18. ASSUME NEW a \in Asks, Holds(a) PROVE PlaceTypes'
  BY <1>18 DEF Holds, At, Goes, LetsGo, RunsOut, Readable, Wakes, End, Lose,
     policyVars, slotVars, grantVars, wireVars, threadVars, registryVars, PlaceTypes,
     LoadTypes, RegistryTypes, Loading, Places, Threads
<1>19. ASSUME NEW a \in Asks, Finishes(a) PROVE PlaceTypes'
  BY <1>19 DEF Finishes, At, Goes, Lose, policyVars, slotVars, grantVars, wireVars,
     threadVars, registryVars, PlaceTypes, LoadTypes, RegistryTypes, Loading, Places,
     Threads
<1>20. ASSUME NEW a \in Asks, Closes(a) PROVE PlaceTypes'
  BY <1>20 DEF Closes, At, policyVars, slotVars, grantVars, wireVars, threadVars,
     registryVars, PlaceTypes, LoadTypes, RegistryTypes, Loading, Places, Threads
<1>21. ASSUME NEW t \in Threads, Records(t) PROVE PlaceTypes'
  BY <1>21 DEF Records, policyVars, slotVars, grantVars, wireVars, threadVars,
     registryVars, PlaceTypes, LoadTypes, RegistryTypes, Loading, Places, Threads
<1>22. ASSUME StopsAll PROVE PlaceTypes'
  BY <1>22 DEF StopsAll, At, Goes, Visits, policyVars, slotVars, grantVars, wireVars,
     threadVars, registryVars, PlaceTypes, LoadTypes, RegistryTypes, Loading, Places,
     Threads
<1>23. ASSUME NEW c \in Asks, StopsOne(c) PROVE PlaceTypes'
  BY <1>23 DEF StopsOne, At, Goes, End, Visits, policyVars, slotVars, grantVars,
     wireVars, threadVars, registryVars, PlaceTypes, LoadTypes, RegistryTypes,
     Loading, Places, Threads
<1>24. ASSUME TimePasses PROVE PlaceTypes'
  BY <1>24 DEF TimePasses, policyVars, slotVars, grantVars, wireVars, threadVars,
     registryVars, PlaceTypes, LoadTypes, RegistryTypes, Loading, Places, Threads
<1>25. ASSUME Edits PROVE PlaceTypes'
  BY <1>25 DEF Edits, policyVars, slotVars, grantVars, wireVars, threadVars,
     registryVars, PlaceTypes, LoadTypes, RegistryTypes, Loading, Places, Threads
<1>26. ASSUME Stops PROVE PlaceTypes'
  BY <1>26 DEF Stops, At, Goes, policyVars, slotVars, grantVars, wireVars,
     threadVars, registryVars, PlaceTypes, LoadTypes, RegistryTypes, Loading, Places,
     Threads
<1>27. ASSUME NEW a \in Asks, Refuses(a) PROVE PlaceTypes'
  BY <1>27 DEF Refuses, At, Goes, Answered, policyVars, slotVars, grantVars,
     wireVars, threadVars, registryVars, PlaceTypes, LoadTypes, RegistryTypes,
     Loading, Places, Threads
<1>28. ASSUME NEW a \in Asks, AppendFails(a) PROVE PlaceTypes'
  BY <1>28 DEF AppendFails, At, Goes, Cancels, Releases, policyVars, slotVars,
     grantVars, wireVars, threadVars, registryVars, PlaceTypes, LoadTypes,
     RegistryTypes, Loading, Places, Threads
<1>29. ASSUME NEW a \in Asks, PeerActs(a) PROVE PlaceTypes'
  BY <1>29 DEF PeerActs, policyVars, slotVars, grantVars, wireVars, threadVars,
     registryVars, PlaceTypes, LoadTypes, RegistryTypes, Loading, Places, Threads
<1>30. CASE UNCHANGED vars
  BY <1>30 DEF vars, policyVars, slotVars, grantVars, wireVars, threadVars,
     registryVars, PlaceTypes, LoadTypes, RegistryTypes, Loading, Places, Threads
<1> QED
  BY <1>1, <1>2, <1>3, <1>4, <1>5, <1>6, <1>7, <1>8, <1>9, <1>10, <1>11, <1>12,
     <1>13, <1>14, <1>15, <1>16, <1>17, <1>18, <1>19, <1>20, <1>21, <1>22, <1>23,
     <1>24, <1>25, <1>26, <1>27, <1>28, <1>29, <1>30, StepCases

(* What a thread loaded is a version, or nothing.                          *)
LEMMA LoadStep ==
  ASSUME LoadTypes, PolicyTypes,
         [Next]_vars
  PROVE  LoadTypes'
<1>1. ASSUME NEW a \in Asks, Reloads(a) PROVE LoadTypes'
  BY <1>1 DEF Reloads, At, Goes, Loads, policyVars, slotVars, grantVars, wireVars,
     threadVars, registryVars, LoadTypes, PolicyTypes, Loading, NoLoad, Threads
<1>2. ASSUME NEW a \in Asks, Compares(a) PROVE LoadTypes'
  BY <1>2 DEF Compares, At, Goes, Returned, policyVars, slotVars, grantVars,
     wireVars, threadVars, registryVars, LoadTypes, PolicyTypes, Loading, NoLoad,
     Threads
<1>3. ASSUME NEW a \in Asks, Announces(a) PROVE LoadTypes'
  BY <1>3 DEF Announces, At, Goes, Visits, Returned, policyVars, slotVars, grantVars,
     wireVars, threadVars, registryVars, LoadTypes, PolicyTypes, Loading, NoLoad,
     Threads
<1>4. ASSUME NEW a \in Asks, NEW c \in Asks, AnnouncesTo(a, c) PROVE LoadTypes'
  BY <1>4 DEF AnnouncesTo, At, Goes, End, Visits, Returned, policyVars, slotVars,
     grantVars, wireVars, threadVars, registryVars, LoadTypes, PolicyTypes, Loading,
     NoLoad, Threads
<1>5. ASSUME NEW a \in Asks, Admits(a) PROVE LoadTypes'
  BY <1>5 DEF Admits, At, Goes, Loads, policyVars, slotVars, grantVars, wireVars,
     threadVars, registryVars, LoadTypes, PolicyTypes, Loading, NoLoad, Threads
<1>6. ASSUME NEW a \in Asks, Decides(a) PROVE LoadTypes'
  BY <1>6 DEF Decides, At, Goes, Answered, policyVars, slotVars, grantVars, wireVars,
     threadVars, registryVars, LoadTypes, PolicyTypes, Loading, NoLoad, Threads
<1>7. ASSUME NEW a \in Asks, Rereads(a) PROVE LoadTypes'
  BY <1>7 DEF Rereads, At, Goes, policyVars, slotVars, grantVars, wireVars,
     threadVars, registryVars, LoadTypes, PolicyTypes, Loading, NoLoad, Threads
<1>8. ASSUME NEW a \in Asks, Refuses(a) PROVE LoadTypes'
  BY <1>8 DEF Refuses, At, Goes, Answered, policyVars, slotVars, grantVars, wireVars,
     threadVars, registryVars, LoadTypes, PolicyTypes, Loading, NoLoad, Threads
<1>9. CASE UNCHANGED <<load>>
  BY <1>9 DEF LoadTypes, PolicyTypes, Loading, NoLoad, Threads, policyVars, slotVars
<1> QED
  BY <1>1, <1>2, <1>3, <1>4, <1>5, <1>6, <1>7, <1>8, <1>9, Writers DEF Written

(* A snapshot is one of grants.                                            *)
LEMMA TodoStep ==
  ASSUME TodoTypes, RegistryTypes,
         [Next]_vars
  PROVE  TodoTypes'
<1>1. ASSUME NEW a \in Asks, Announces(a) PROVE TodoTypes'
  BY <1>1 DEF Announces, At, Goes, Visits, Returned, policyVars, slotVars, grantVars,
     wireVars, threadVars, registryVars, TodoTypes, RegistryTypes, Threads
<1>2. ASSUME NEW a \in Asks, Ticks(a) PROVE TodoTypes'
  BY <1>2 DEF Ticks, At, Goes, Visits, SweptAt, AfterSweep, policyVars, slotVars,
     grantVars, wireVars, threadVars, registryVars, TodoTypes, RegistryTypes, Threads
<1>3. ASSUME NEW a \in Asks, NEW c \in Asks, AnnouncesTo(a, c) PROVE TodoTypes'
  BY <1>3 DEF AnnouncesTo, At, Goes, End, Visits, Returned, policyVars, slotVars,
     grantVars, wireVars, threadVars, registryVars, TodoTypes, RegistryTypes, Threads
<1>4. ASSUME NEW a \in Asks, NEW c \in Asks, TicksOn(a, c) PROVE TodoTypes'
  BY <1>4 DEF TicksOn, At, Goes, End, Beats, Lose, Visits, SweptAt, AfterSweep,
     policyVars, slotVars, grantVars, wireVars, threadVars, registryVars, TodoTypes,
     RegistryTypes, Threads
<1>5. ASSUME StopsAll PROVE TodoTypes'
  BY <1>5 DEF StopsAll, At, Goes, Visits, policyVars, slotVars, grantVars, wireVars,
     threadVars, registryVars, TodoTypes, RegistryTypes, Threads
<1>6. ASSUME NEW c \in Asks, StopsOne(c) PROVE TodoTypes'
  BY <1>6 DEF StopsOne, At, Goes, End, Visits, policyVars, slotVars, grantVars,
     wireVars, threadVars, registryVars, TodoTypes, RegistryTypes, Threads
<1>7. CASE UNCHANGED <<todo>>
  BY <1>7 DEF TodoTypes, RegistryTypes, Threads, policyVars, slotVars
<1> QED
  BY <1>1, <1>2, <1>3, <1>4, <1>5, <1>6, <1>7, Writers DEF Written

(* Ages stay within the horizon.                                           *)
LEMMA AgeStep ==
  ASSUME AgeTypes, RegistryTypes,
         [Next]_vars
  PROVE  AgeTypes'
<1>1. ASSUME NEW a \in Asks, Arrives(a) PROVE AgeTypes'
  BY <1>1, GrantsAssumption DEF Arrives, At, Goes, policyVars, slotVars, grantVars,
     wireVars, threadVars, registryVars, AgeTypes, Ages
<1>2. ASSUME NEW a \in Asks, Ticks(a) PROVE AgeTypes'
  BY <1>2, GrantsAssumption DEF Ticks, At, Goes, Visits, SweptAt, AfterSweep,
     policyVars, slotVars, grantVars, wireVars, threadVars, registryVars, AgeTypes, Ages
<1>3. ASSUME NEW a \in Asks, NEW c \in Asks, TicksOn(a, c) PROVE AgeTypes'
  <2>1. age' = age /\ holding' = holding /\ lag' = SweptAt(a)  BY <1>3, GrantsAssumption DEF TicksOn
  <2>2. lag' \in [Asks -> Ages]  BY <2>1, GrantsAssumption DEF AgeTypes, Ages, SweptAt
  <2>3. silence' = silence \/ silence' = [silence EXCEPT ![c] = lag[a]]
    BY <1>3, GrantsAssumption DEF TicksOn, Beats
  <2>4. silence' \in [Asks -> Ages]  BY <2>3 DEF AgeTypes
  <2> QED  BY <2>1, <2>2, <2>4 DEF AgeTypes
<1>4. ASSUME NEW a \in Asks, Decides(a) PROVE AgeTypes'
  BY <1>4, GrantsAssumption DEF Decides, At, Goes, Answered, policyVars, slotVars,
     grantVars, wireVars, threadVars, registryVars, AgeTypes, Ages
<1>5. ASSUME NEW a \in Asks, Opens(a) PROVE AgeTypes'
  BY <1>5, GrantsAssumption DEF Opens, At, Goes, Releases, policyVars, slotVars,
     grantVars, wireVars, threadVars, registryVars, AgeTypes, Ages
<1>6. ASSUME NEW a \in Asks, BeginsToHold(a) PROVE AgeTypes'
  BY <1>6, GrantsAssumption DEF BeginsToHold, At, Goes, policyVars, slotVars,
     grantVars, wireVars, threadVars, registryVars, AgeTypes, Ages
<1>7. ASSUME NEW a \in Asks, Holds(a) PROVE AgeTypes'
  <2>1. UNCHANGED <<age, silence, holding>>  BY <1>7, GrantsAssumption DEF Holds, grantVars
  <2>2. lag' = lag \/ lag' = [lag EXCEPT ![a] = 0]
    BY <1>7, GrantsAssumption DEF Holds, LetsGo, RunsOut, Readable, Wakes
  <2> QED  BY <2>1, <2>2, GrantsAssumption DEF AgeTypes, Ages
<1>8. ASSUME TimePasses PROVE AgeTypes'
  BY <1>8, GrantsAssumption DEF TimePasses, policyVars, slotVars, grantVars,
     wireVars, threadVars, registryVars, Older, AgeTypes, Ages
<1>9. ASSUME NEW a \in Asks, Refuses(a) PROVE AgeTypes'
  BY <1>9, GrantsAssumption DEF Refuses, At, Goes, Answered, policyVars, slotVars,
     grantVars, wireVars, threadVars, registryVars, AgeTypes, Ages
<1>10. CASE UNCHANGED <<<<age, silence, holding>>, lag>>
  BY <1>10, GrantsAssumption DEF AgeTypes, Ages, policyVars, slotVars
<1> QED
  BY <1>1, <1>2, <1>3, <1>4, <1>5, <1>6, <1>7, <1>8, <1>9, <1>10, Writers DEF Written

(* A grant has a version or none.                                          *)
LEMMA VersionStep ==
  ASSUME VersionTypes, LoadTypes,
         [Next]_vars
  PROVE  VersionTypes'
<1>1. ASSUME NEW a \in Asks, Decides(a) PROVE VersionTypes'
  BY <1>1 DEF Decides, At, Goes, Answered, policyVars, slotVars, grantVars, wireVars,
     threadVars, registryVars, VersionTypes, LoadTypes, Loading, Threads
<1>2. CASE UNCHANGED <<version>>
  BY <1>2 DEF VersionTypes, LoadTypes, Loading, Threads, policyVars, slotVars
<1> QED
  BY <1>1, <1>2, Writers DEF Written

(* A signal is a frame.                                                    *)
LEMMA EndWire ==
  ASSUME WireTypes, NEW t, NEW c \in Asks, NEW r \in Signals, End(t, c, r)
  PROVE  WireTypes'
<1>1. wire' = wire \/ wire' = [wire EXCEPT ![c] = Append(@, r)]  BY DEF End
<1>2. wire[c] \in Seq(Frames) /\ Append(wire[c], r) \in Seq(Frames)
  BY DEF WireTypes, Frames
<1> QED  BY <1>1, <1>2 DEF WireTypes

(* What is written is frames.                                              *)
LEMMA WireStep ==
  ASSUME WireTypes,
         [Next]_vars
  PROVE  WireTypes'
<1>1. ASSUME NEW a \in Asks, NEW c \in Asks, AnnouncesTo(a, c) PROVE WireTypes'
  <2>1. End(a, c, "policy_version_changed")  BY <1>1 DEF AnnouncesTo
  <2> QED  BY <2>1, EndWire DEF Signals
<1>2. ASSUME NEW a \in Asks, NEW c \in Asks, TicksOn(a, c) PROVE WireTypes'
  <2>1. wire' = wire \/ End(a, c, "expired") \/ wire' = [wire EXCEPT ![c] = Beaten(@)]
    BY <1>2 DEF TicksOn, Beats, Lose, registryVars, wireVars
  <2>2. wire[c] \in Seq(Frames) /\ Beaten(wire[c]) \in Seq(Frames)
    BY DEF WireTypes, Beaten, Frames
  <2> QED  BY <2>1, <2>2, EndWire DEF Signals, WireTypes
<1>3. ASSUME NEW a \in Asks, Delivers(a) PROVE WireTypes'
  <2>1. wire' = wire \/ wire' = [wire EXCEPT ![a] = Append(@, "decision")]
    BY <1>3 DEF Delivers
  <2>2. wire[a] \in Seq(Frames) /\ Append(wire[a], "decision") \in Seq(Frames)
    BY DEF WireTypes, Frames
  <2> QED  BY <2>1, <2>2 DEF WireTypes
<1>4. ASSUME NEW a \in Asks, Arrested(a) PROVE WireTypes'
  <2>1. End(a, a, "daemon_stopping")  BY <1>4 DEF Arrested
  <2> QED  BY <2>1, EndWire DEF Signals
<1>5. ASSUME NEW a \in Asks, Holds(a) PROVE WireTypes'
  <2>1. wire' = wire \/ End(a, a, "expired")
    BY <1>5 DEF Holds, LetsGo, RunsOut, Readable, Wakes, Lose, registryVars, wireVars
  <2> QED  BY <2>1, EndWire DEF Signals, WireTypes
<1>6. ASSUME NEW c \in Asks, StopsOne(c) PROVE WireTypes'
  <2>1. End(Stop, c, "daemon_stopping")  BY <1>6 DEF StopsOne
  <2> QED  BY <2>1, EndWire DEF Signals
<1>7. CASE UNCHANGED <<wire>>
  BY <1>7 DEF WireTypes, policyVars, slotVars
<1> QED
  BY <1>1, <1>2, <1>3, <1>4, <1>5, <1>6, <1>7, Writers DEF Written

(* The two ends of a connection.                                           *)
LEMMA PeerStep ==
  ASSUME PeerTypes,
         [Next]_vars
  PROVE  PeerTypes'
<1>1. ASSUME NEW a \in Asks, Closes(a) PROVE PeerTypes'
  BY <1>1 DEF Closes, At, policyVars, slotVars, grantVars, wireVars, threadVars,
     registryVars, PeerTypes
<1>2. ASSUME NEW t \in Threads, Records(t) PROVE PeerTypes'
  BY <1>2 DEF Records, policyVars, slotVars, grantVars, wireVars, threadVars,
     registryVars, PeerTypes
<1>3. ASSUME NEW a \in Asks, PeerActs(a) PROVE PeerTypes'
  BY <1>3 DEF PeerActs, policyVars, slotVars, grantVars, wireVars, threadVars,
     registryVars, PeerTypes
<1>4. CASE UNCHANGED <<<<shut, peer>>>>
  BY <1>4 DEF PeerTypes, policyVars, slotVars
<1> QED
  BY <1>1, <1>2, <1>3, <1>4, Writers DEF Written

(* What is recorded is an issue or the reason of an ending.                *)
LEMMA EventStep ==
  ASSUME EventTypes, EndingTypes,
         [Next]_vars
  PROVE  EventTypes'
<1>1. ASSUME NEW a \in Asks, Issues(a) PROVE EventTypes'
  BY <1>1, GrantsAssumption DEF Issues, At, Goes, policyVars, slotVars, grantVars,
     wireVars, threadVars, registryVars, EventTypes, EndingTypes, Endings, EndingShape
<1>2. ASSUME NEW t \in Threads, Records(t) PROVE EventTypes'
  BY <1>2, GrantsAssumption DEF Records, policyVars, slotVars, grantVars, wireVars,
     threadVars, registryVars, EventTypes, EndingTypes, Endings, EndingShape
<1>3. CASE UNCHANGED <<events>>
  BY <1>3, GrantsAssumption DEF EventTypes, EndingTypes, Endings, EndingShape,
     policyVars, slotVars
<1> QED
  BY <1>1, <1>2, <1>3, Writers DEF Written

(* A thread that pops a grant knows which, and why.                        *)
LEMMA Popping ==
  ASSUME EndingTypes, NEW t \in Threads, NEW c \in Asks, NEW r \in Reasons, NEW b \in BOOLEAN,
         ending' = [ending EXCEPT ![t] = [grant |-> c, reason |-> r, told |-> b]]
  PROVE  EndingTypes'
<1>1. ending \in [Threads -> Endings]  BY DEF EndingTypes
<1>2. [grant |-> c, reason |-> r, told |-> b] \in Endings  BY DEF Endings
<1>3. ending' \in [Threads -> Endings]  BY <1>1, <1>2
<1>4. ASSUME NEW u \in Threads
      PROVE  ending'[u] = NoOne \/ (ending'[u].grant \in Asks /\ ending'[u].reason \in Reasons)
  <2>1. CASE u = t  BY <1>1, <2>1
  <2>2. CASE u # t  BY <1>1, <2>2 DEF EndingTypes, EndingShape
  <2> QED  BY <2>1, <2>2
<1> QED  BY <1>3, <1>4 DEF EndingTypes, EndingShape

(* So does a thread that ends a grant, or loses it.                        *)
LEMMA EndEnding ==
  ASSUME EndingTypes, PeerTypes, NEW t \in Threads, NEW c \in Asks, NEW r \in Reasons,
         End(t, c, r) \/ Lose(t, c, r)
  PROVE  EndingTypes'
<1>1. CASE End(t, c, r)
  <2>1. CASE c \in conns
    <3>1. PICK sent \in Carries(c) :
            ending' = [ending EXCEPT ![t] = [grant |-> c, reason |-> r, told |-> sent]]
      BY <1>1, <2>1 DEF End
    <3>2. sent \in BOOLEAN  BY <3>1 DEF Carries
    <3> QED  BY <3>1, <3>2, Popping
  <2>2. CASE c \notin conns
    BY <1>1, <2>2 DEF End, EndingTypes, EndingShape
  <2> QED  BY <2>1, <2>2
<1>2. CASE Lose(t, c, r)
  <2>1. CASE c \in conns
    <3>1. ending' = [ending EXCEPT ![t] = [grant |-> c, reason |-> r, told |-> FALSE]]
      BY <1>2, <2>1 DEF Lose
    <3> QED  BY <3>1, Popping
  <2>2. CASE c \notin conns
    BY <1>2, <2>2 DEF Lose, EndingTypes, EndingShape
  <2> QED  BY <2>1, <2>2
<1> QED  BY <1>1, <1>2

(* A thread that has popped a grant knows which, and why.                  *)
LEMMA EndingStep ==
  ASSUME EndingTypes, PeerTypes,
         [Next]_vars
  PROVE  EndingTypes'
<1>1. ASSUME NEW a \in Asks, NEW c \in Asks, AnnouncesTo(a, c) PROVE EndingTypes'
  <2>1. End(a, c, "policy_version_changed") /\ a \in Threads  BY <1>1 DEF AnnouncesTo, Threads
  <2> QED  BY <2>1, EndEnding DEF Reasons, Signals
<1>2. ASSUME NEW a \in Asks, NEW c \in Asks, TicksOn(a, c) PROVE EndingTypes'
  <2>1. a \in Threads /\ (ending' = ending \/ End(a, c, "expired") \/ Lose(a, c, "connection_lost"))
    BY <1>2 DEF TicksOn, Beats, registryVars, Threads
  <2> QED  BY <2>1, EndEnding DEF Reasons, Signals, EndingTypes, EndingShape
<1>3. ASSUME NEW a \in Asks, Arrested(a) PROVE EndingTypes'
  <2>1. End(a, a, "daemon_stopping") /\ a \in Threads  BY <1>3 DEF Arrested, Threads
  <2> QED  BY <2>1, EndEnding DEF Reasons, Signals
<1>4. ASSUME NEW a \in Asks, Holds(a) PROVE EndingTypes'
  <2>1. /\ a \in Threads
        /\ \/ ending' = ending
           \/ End(a, a, "expired") \/ Lose(a, a, "peer_wrote_on_the_stream")
    BY <1>4 DEF Holds, LetsGo, RunsOut, Readable, Wakes, registryVars, Threads
  <2> QED  BY <2>1, EndEnding DEF Reasons, Signals, EndingTypes, EndingShape
<1>5. ASSUME NEW a \in Asks, Finishes(a) PROVE EndingTypes'
  <2>1. Lose(a, a, "connection_lost") /\ a \in Threads  BY <1>5 DEF Finishes, Threads
  <2> QED  BY <2>1, EndEnding DEF Reasons
<1>6. ASSUME NEW t \in Threads, Records(t) PROVE EndingTypes'
  BY <1>6 DEF Records, policyVars, slotVars, grantVars, wireVars, threadVars,
     registryVars, EndingTypes, Endings, EndingShape, NoOne
<1>7. ASSUME NEW c \in Asks, StopsOne(c) PROVE EndingTypes'
  <2>1. End(Stop, c, "daemon_stopping") /\ Stop \in Threads  BY <1>7 DEF StopsOne, Threads
  <2> QED  BY <2>1, EndEnding DEF Reasons, Signals
<1>8. CASE UNCHANGED <<ending>>
  BY <1>8 DEF EndingTypes, Endings, EndingShape, NoOne, policyVars, slotVars
<1> QED
  BY <1>1, <1>2, <1>3, <1>4, <1>5, <1>6, <1>7, <1>8, Writers DEF Written

(* The registry holds grants of requests, its lock a thread.               *)
LEMMA RegistryStep ==
  ASSUME RegistryTypes,
         [Next]_vars
  PROVE  RegistryTypes'
<1>1. ASSUME NEW a \in Asks, NEW c \in Asks, AnnouncesTo(a, c) PROVE RegistryTypes'
  BY <1>1 DEF AnnouncesTo, At, Goes, End, Visits, Returned, policyVars, slotVars,
     grantVars, wireVars, threadVars, registryVars, RegistryTypes, Threads
<1>2. ASSUME NEW a \in Asks, NEW c \in Asks, TicksOn(a, c) PROVE RegistryTypes'
  BY <1>2 DEF TicksOn, At, Goes, End, Beats, Lose, Visits, SweptAt, AfterSweep,
     policyVars, slotVars, grantVars, wireVars, threadVars, registryVars,
     RegistryTypes, Threads
<1>3. ASSUME NEW a \in Asks, Opens(a) PROVE RegistryTypes'
  BY <1>3 DEF Opens, At, Goes, Releases, policyVars, slotVars, grantVars, wireVars,
     threadVars, registryVars, RegistryTypes, Threads
<1>4. ASSUME NEW a \in Asks, Arrested(a) PROVE RegistryTypes'
  BY <1>4 DEF Arrested, At, Goes, End, policyVars, slotVars, grantVars, wireVars,
     threadVars, registryVars, RegistryTypes, Threads
<1>5. ASSUME NEW a \in Asks, Holds(a) PROVE RegistryTypes'
  BY <1>5 DEF Holds, At, Goes, LetsGo, RunsOut, Readable, Wakes, End, Lose,
     policyVars, slotVars, grantVars, wireVars, threadVars, registryVars,
     RegistryTypes, Threads
<1>6. ASSUME NEW a \in Asks, Finishes(a) PROVE RegistryTypes'
  BY <1>6 DEF Finishes, At, Goes, Lose, policyVars, slotVars, grantVars, wireVars,
     threadVars, registryVars, RegistryTypes, Threads
<1>7. ASSUME NEW t \in Threads, Records(t) PROVE RegistryTypes'
  BY <1>7 DEF Records, policyVars, slotVars, grantVars, wireVars, threadVars,
     registryVars, RegistryTypes, Threads
<1>8. ASSUME NEW c \in Asks, StopsOne(c) PROVE RegistryTypes'
  BY <1>8 DEF StopsOne, At, Goes, End, Visits, policyVars, slotVars, grantVars,
     wireVars, threadVars, registryVars, RegistryTypes, Threads
<1>9. ASSUME Stops PROVE RegistryTypes'
  BY <1>9 DEF Stops, At, Goes, policyVars, slotVars, grantVars, wireVars, threadVars,
     registryVars, RegistryTypes, Threads
<1>10. CASE UNCHANGED <<conns, lock, stopping>>
  BY <1>10 DEF RegistryTypes, Threads, policyVars, slotVars
<1> QED
  BY <1>1, <1>2, <1>3, <1>4, <1>5, <1>6, <1>7, <1>8, <1>9, <1>10, Writers DEF Written

-----------------------------------------------------------------------------
(* A grant is minted by its request and registered after it.               *)
LEMMA GrantStep ==
  ASSUME GrantShape, PlaceTypes, LoadTypes, VersionTypes, RegistryTypes,
         [Next]_vars
  PROVE  GrantShape'
<1>1. ASSUME NEW a \in Asks, Arrives(a) PROVE GrantShape'
  BY <1>1, GrantsAssumption DEF Arrives, At, Goes, policyVars, slotVars, grantVars,
     wireVars, threadVars, registryVars, GrantShape, Minted, PlaceTypes, LoadTypes,
     VersionTypes, RegistryTypes, Loading, NoLoad, Threads
<1>2. ASSUME NEW a \in Asks, Reloads(a) PROVE GrantShape'
  BY <1>2, GrantsAssumption DEF Reloads, At, Goes, Loads, policyVars, slotVars,
     grantVars, wireVars, threadVars, registryVars, GrantShape, Minted, PlaceTypes,
     LoadTypes, VersionTypes, RegistryTypes, Loading, NoLoad, Threads
<1>3. ASSUME NEW a \in Asks, Compares(a) PROVE GrantShape'
  BY <1>3, GrantsAssumption DEF Compares, At, Goes, Returned, policyVars, slotVars,
     grantVars, wireVars, threadVars, registryVars, GrantShape, Minted, PlaceTypes,
     LoadTypes, VersionTypes, RegistryTypes, Loading, NoLoad, Threads
<1>4. ASSUME NEW a \in Asks, Announces(a) PROVE GrantShape'
  BY <1>4, GrantsAssumption DEF Announces, At, Goes, Visits, Returned, policyVars,
     slotVars, grantVars, wireVars, threadVars, registryVars, GrantShape, Minted,
     PlaceTypes, LoadTypes, VersionTypes, RegistryTypes, Loading, NoLoad, Threads
<1>5. ASSUME NEW a \in Asks, Ticks(a) PROVE GrantShape'
  BY <1>5, GrantsAssumption DEF Ticks, At, Goes, Visits, SweptAt, AfterSweep,
     policyVars, slotVars, grantVars, wireVars, threadVars, registryVars, GrantShape,
     Minted, PlaceTypes, LoadTypes, VersionTypes, RegistryTypes, Loading, NoLoad,
     Threads
<1>6. ASSUME NEW a \in Asks, NEW c \in Asks, AnnouncesTo(a, c) PROVE GrantShape'
  BY <1>6, GrantsAssumption DEF AnnouncesTo, At, Goes, End, Visits, Returned,
     policyVars, slotVars, grantVars, wireVars, threadVars, registryVars, GrantShape,
     Minted, PlaceTypes, LoadTypes, VersionTypes, RegistryTypes, Loading, NoLoad,
     Threads
<1>7. ASSUME NEW a \in Asks, NEW c \in Asks, TicksOn(a, c) PROVE GrantShape'
  BY <1>7, GrantsAssumption DEF TicksOn, At, Goes, End, Beats, Lose, Visits, SweptAt,
     AfterSweep, policyVars, slotVars, grantVars, wireVars, threadVars, registryVars,
     GrantShape, Minted, PlaceTypes, LoadTypes, VersionTypes, RegistryTypes, Loading,
     NoLoad, Threads
<1>8. ASSUME NEW a \in Asks, Admits(a) PROVE GrantShape'
  BY <1>8, GrantsAssumption DEF Admits, At, Goes, Loads, policyVars, slotVars,
     grantVars, wireVars, threadVars, registryVars, GrantShape, Minted, PlaceTypes,
     LoadTypes, VersionTypes, RegistryTypes, Loading, NoLoad, Threads
<1>9. ASSUME NEW a \in Asks, Decides(a) PROVE GrantShape'
  BY <1>9, GrantsAssumption DEF Decides, At, Goes, Answered, policyVars, slotVars,
     grantVars, wireVars, threadVars, registryVars, GrantShape, Minted, PlaceTypes,
     LoadTypes, VersionTypes, RegistryTypes, Loading, NoLoad, Threads
<1>10. ASSUME NEW a \in Asks, Appends(a) PROVE GrantShape'
  BY <1>10, GrantsAssumption DEF Appends, At, Goes, policyVars, slotVars, grantVars,
     wireVars, threadVars, registryVars, GrantShape, Minted, PlaceTypes, LoadTypes,
     VersionTypes, RegistryTypes, Loading, NoLoad, Threads
<1>11. ASSUME NEW a \in Asks, Delivers(a) PROVE GrantShape'
  BY <1>11, GrantsAssumption DEF Delivers, At, Goes, Cancels, Releases, policyVars,
     slotVars, grantVars, wireVars, threadVars, registryVars, GrantShape, Minted,
     PlaceTypes, LoadTypes, VersionTypes, RegistryTypes, Loading, NoLoad, Threads
<1>12. ASSUME NEW a \in Asks, Opens(a) PROVE GrantShape'
  BY <1>12, GrantsAssumption DEF Opens, At, Goes, Releases, policyVars, slotVars,
     grantVars, wireVars, threadVars, registryVars, GrantShape, Minted, PlaceTypes,
     LoadTypes, VersionTypes, RegistryTypes, Loading, NoLoad, Threads
<1>13. ASSUME NEW a \in Asks, Issues(a) PROVE GrantShape'
  BY <1>13, GrantsAssumption DEF Issues, At, Goes, policyVars, slotVars, grantVars,
     wireVars, threadVars, registryVars, GrantShape, Minted, PlaceTypes, LoadTypes,
     VersionTypes, RegistryTypes, Loading, NoLoad, Threads
<1>14. ASSUME NEW a \in Asks, Arrested(a) PROVE GrantShape'
  BY <1>14, GrantsAssumption DEF Arrested, At, Goes, End, policyVars, slotVars,
     grantVars, wireVars, threadVars, registryVars, GrantShape, Minted, PlaceTypes,
     LoadTypes, VersionTypes, RegistryTypes, Loading, NoLoad, Threads
<1>15. ASSUME NEW a \in Asks, Rechecks(a) PROVE GrantShape'
  BY <1>15, GrantsAssumption DEF Rechecks, At, Goes, policyVars, slotVars, grantVars,
     wireVars, threadVars, registryVars, GrantShape, Minted, PlaceTypes, LoadTypes,
     VersionTypes, RegistryTypes, Loading, NoLoad, Threads
<1>16. ASSUME NEW a \in Asks, Rereads(a) PROVE GrantShape'
  BY <1>16, GrantsAssumption DEF Rereads, At, Goes, policyVars, slotVars, grantVars,
     wireVars, threadVars, registryVars, GrantShape, Minted, PlaceTypes, LoadTypes,
     VersionTypes, RegistryTypes, Loading, NoLoad, Threads
<1>17. ASSUME NEW a \in Asks, BeginsToHold(a) PROVE GrantShape'
  BY <1>17, GrantsAssumption DEF BeginsToHold, At, Goes, policyVars, slotVars,
     grantVars, wireVars, threadVars, registryVars, GrantShape, Minted, PlaceTypes,
     LoadTypes, VersionTypes, RegistryTypes, Loading, NoLoad, Threads
<1>18. ASSUME NEW a \in Asks, Holds(a) PROVE GrantShape'
  BY <1>18, GrantsAssumption DEF Holds, At, Goes, LetsGo, RunsOut, Readable, Wakes,
     End, Lose, policyVars, slotVars, grantVars, wireVars, threadVars, registryVars,
     GrantShape, Minted, PlaceTypes, LoadTypes, VersionTypes, RegistryTypes, Loading,
     NoLoad, Threads
<1>19. ASSUME NEW a \in Asks, Finishes(a) PROVE GrantShape'
  BY <1>19, GrantsAssumption DEF Finishes, At, Goes, Lose, policyVars, slotVars,
     grantVars, wireVars, threadVars, registryVars, GrantShape, Minted, PlaceTypes,
     LoadTypes, VersionTypes, RegistryTypes, Loading, NoLoad, Threads
<1>20. ASSUME NEW a \in Asks, Closes(a) PROVE GrantShape'
  BY <1>20, GrantsAssumption DEF Closes, At, policyVars, slotVars, grantVars,
     wireVars, threadVars, registryVars, GrantShape, Minted, PlaceTypes, LoadTypes,
     VersionTypes, RegistryTypes, Loading, NoLoad, Threads
<1>21. ASSUME NEW t \in Threads, Records(t) PROVE GrantShape'
  BY <1>21, GrantsAssumption DEF Records, policyVars, slotVars, grantVars, wireVars,
     threadVars, registryVars, GrantShape, Minted, PlaceTypes, LoadTypes,
     VersionTypes, RegistryTypes, Loading, NoLoad, Threads
<1>22. ASSUME StopsAll PROVE GrantShape'
  BY <1>22, GrantsAssumption DEF StopsAll, At, Goes, Visits, policyVars, slotVars,
     grantVars, wireVars, threadVars, registryVars, GrantShape, Minted, PlaceTypes,
     LoadTypes, VersionTypes, RegistryTypes, Loading, NoLoad, Threads
<1>23. ASSUME NEW c \in Asks, StopsOne(c) PROVE GrantShape'
  BY <1>23, GrantsAssumption DEF StopsOne, At, Goes, End, Visits, policyVars,
     slotVars, grantVars, wireVars, threadVars, registryVars, GrantShape, Minted,
     PlaceTypes, LoadTypes, VersionTypes, RegistryTypes, Loading, NoLoad, Threads
<1>24. ASSUME TimePasses PROVE GrantShape'
  BY <1>24, GrantsAssumption DEF TimePasses, policyVars, slotVars, grantVars,
     wireVars, threadVars, registryVars, GrantShape, Minted, PlaceTypes, LoadTypes,
     VersionTypes, RegistryTypes, Loading, NoLoad, Threads
<1>25. ASSUME Edits PROVE GrantShape'
  BY <1>25, GrantsAssumption DEF Edits, policyVars, slotVars, grantVars, wireVars,
     threadVars, registryVars, GrantShape, Minted, PlaceTypes, LoadTypes,
     VersionTypes, RegistryTypes, Loading, NoLoad, Threads
<1>26. ASSUME Stops PROVE GrantShape'
  BY <1>26, GrantsAssumption DEF Stops, At, Goes, policyVars, slotVars, grantVars,
     wireVars, threadVars, registryVars, GrantShape, Minted, PlaceTypes, LoadTypes,
     VersionTypes, RegistryTypes, Loading, NoLoad, Threads
<1>27. ASSUME NEW a \in Asks, Refuses(a) PROVE GrantShape'
  BY <1>27, GrantsAssumption DEF Refuses, At, Goes, Answered, policyVars, slotVars,
     grantVars, wireVars, threadVars, registryVars, GrantShape, Minted, PlaceTypes,
     LoadTypes, VersionTypes, RegistryTypes, Loading, NoLoad, Threads
<1>28. ASSUME NEW a \in Asks, AppendFails(a) PROVE GrantShape'
  BY <1>28, GrantsAssumption DEF AppendFails, At, Goes, Cancels, Releases,
     policyVars, slotVars, grantVars, wireVars, threadVars, registryVars, GrantShape,
     Minted, PlaceTypes, LoadTypes, VersionTypes, RegistryTypes, Loading, NoLoad,
     Threads
<1>29. ASSUME NEW a \in Asks, PeerActs(a) PROVE GrantShape'
  BY <1>29, GrantsAssumption DEF PeerActs, policyVars, slotVars, grantVars, wireVars,
     threadVars, registryVars, GrantShape, Minted, PlaceTypes, LoadTypes,
     VersionTypes, RegistryTypes, Loading, NoLoad, Threads
<1>30. CASE UNCHANGED vars
  BY <1>30, GrantsAssumption DEF vars, policyVars, slotVars, grantVars, wireVars,
     threadVars, registryVars, GrantShape, Minted, PlaceTypes, LoadTypes,
     VersionTypes, RegistryTypes, Loading, NoLoad, Threads
<1> QED
  BY <1>1, <1>2, <1>3, <1>4, <1>5, <1>6, <1>7, <1>8, <1>9, <1>10, <1>11, <1>12,
     <1>13, <1>14, <1>15, <1>16, <1>17, <1>18, <1>19, <1>20, <1>21, <1>22, <1>23,
     <1>24, <1>25, <1>26, <1>27, <1>28, <1>29, <1>30, StepCases

-----------------------------------------------------------------------------
(* The stop visits every grant, or the grant's own request ends it.        *)
LEMMA StopStep ==
  ASSUME StopShape, PlaceTypes, TodoTypes, RegistryTypes,
         [Next]_vars
  PROVE  StopShape'
<1>1. ASSUME NEW a \in Asks, Arrives(a) PROVE StopShape'
  BY <1>1, GrantsAssumption DEF Arrives, At, Goes, policyVars, slotVars, grantVars,
     wireVars, threadVars, registryVars, StopShape, PlaceTypes, TodoTypes,
     RegistryTypes, Threads
<1>2. ASSUME NEW a \in Asks, Reloads(a) PROVE StopShape'
  BY <1>2, GrantsAssumption DEF Reloads, At, Goes, Loads, policyVars, slotVars,
     grantVars, wireVars, threadVars, registryVars, StopShape, PlaceTypes, TodoTypes,
     RegistryTypes, Threads
<1>3. ASSUME NEW a \in Asks, Compares(a) PROVE StopShape'
  BY <1>3, GrantsAssumption DEF Compares, At, Goes, Returned, policyVars, slotVars,
     grantVars, wireVars, threadVars, registryVars, StopShape, PlaceTypes, TodoTypes,
     RegistryTypes, Threads
<1>4. ASSUME NEW a \in Asks, Announces(a) PROVE StopShape'
  BY <1>4, GrantsAssumption DEF Announces, At, Goes, Visits, Returned, policyVars,
     slotVars, grantVars, wireVars, threadVars, registryVars, StopShape, PlaceTypes,
     TodoTypes, RegistryTypes, Threads
<1>5. ASSUME NEW a \in Asks, Ticks(a) PROVE StopShape'
  BY <1>5, GrantsAssumption DEF Ticks, At, Goes, Visits, SweptAt, AfterSweep,
     policyVars, slotVars, grantVars, wireVars, threadVars, registryVars, StopShape,
     PlaceTypes, TodoTypes, RegistryTypes, Threads
<1>6. ASSUME NEW a \in Asks, NEW c \in Asks, AnnouncesTo(a, c) PROVE StopShape'
  BY <1>6, GrantsAssumption DEF AnnouncesTo, At, Goes, End, Visits, Returned,
     policyVars, slotVars, grantVars, wireVars, threadVars, registryVars, StopShape,
     PlaceTypes, TodoTypes, RegistryTypes, Threads
<1>7. ASSUME NEW a \in Asks, NEW c \in Asks, TicksOn(a, c) PROVE StopShape'
  BY <1>7, GrantsAssumption DEF TicksOn, At, Goes, End, Beats, Lose, Visits, SweptAt,
     AfterSweep, policyVars, slotVars, grantVars, wireVars, threadVars, registryVars,
     StopShape, PlaceTypes, TodoTypes, RegistryTypes, Threads
<1>8. ASSUME NEW a \in Asks, Admits(a) PROVE StopShape'
  BY <1>8, GrantsAssumption DEF Admits, At, Goes, Loads, policyVars, slotVars,
     grantVars, wireVars, threadVars, registryVars, StopShape, PlaceTypes, TodoTypes,
     RegistryTypes, Threads
<1>9. ASSUME NEW a \in Asks, Decides(a) PROVE StopShape'
  BY <1>9, GrantsAssumption DEF Decides, At, Goes, Answered, policyVars, slotVars,
     grantVars, wireVars, threadVars, registryVars, StopShape, PlaceTypes, TodoTypes,
     RegistryTypes, Threads
<1>10. ASSUME NEW a \in Asks, Appends(a) PROVE StopShape'
  BY <1>10, GrantsAssumption DEF Appends, At, Goes, policyVars, slotVars, grantVars,
     wireVars, threadVars, registryVars, StopShape, PlaceTypes, TodoTypes,
     RegistryTypes, Threads
<1>11. ASSUME NEW a \in Asks, Delivers(a) PROVE StopShape'
  BY <1>11, GrantsAssumption DEF Delivers, At, Goes, Cancels, Releases, policyVars,
     slotVars, grantVars, wireVars, threadVars, registryVars, StopShape, PlaceTypes,
     TodoTypes, RegistryTypes, Threads
<1>12. ASSUME NEW a \in Asks, Opens(a) PROVE StopShape'
  BY <1>12, GrantsAssumption DEF Opens, At, Goes, Releases, policyVars, slotVars,
     grantVars, wireVars, threadVars, registryVars, StopShape, PlaceTypes, TodoTypes,
     RegistryTypes, Threads
<1>13. ASSUME NEW a \in Asks, Issues(a) PROVE StopShape'
  BY <1>13, GrantsAssumption DEF Issues, At, Goes, policyVars, slotVars, grantVars,
     wireVars, threadVars, registryVars, StopShape, PlaceTypes, TodoTypes,
     RegistryTypes, Threads
<1>14. ASSUME NEW a \in Asks, Arrested(a) PROVE StopShape'
  BY <1>14, GrantsAssumption DEF Arrested, At, Goes, End, policyVars, slotVars,
     grantVars, wireVars, threadVars, registryVars, StopShape, PlaceTypes, TodoTypes,
     RegistryTypes, Threads
<1>15. ASSUME NEW a \in Asks, Rechecks(a) PROVE StopShape'
  BY <1>15, GrantsAssumption DEF Rechecks, At, Goes, policyVars, slotVars, grantVars,
     wireVars, threadVars, registryVars, StopShape, PlaceTypes, TodoTypes,
     RegistryTypes, Threads
<1>16. ASSUME NEW a \in Asks, Rereads(a) PROVE StopShape'
  BY <1>16, GrantsAssumption DEF Rereads, At, Goes, policyVars, slotVars, grantVars,
     wireVars, threadVars, registryVars, StopShape, PlaceTypes, TodoTypes,
     RegistryTypes, Threads
<1>17. ASSUME NEW a \in Asks, BeginsToHold(a) PROVE StopShape'
  BY <1>17, GrantsAssumption DEF BeginsToHold, At, Goes, policyVars, slotVars,
     grantVars, wireVars, threadVars, registryVars, StopShape, PlaceTypes, TodoTypes,
     RegistryTypes, Threads
<1>18. ASSUME NEW a \in Asks, Holds(a) PROVE StopShape'
  BY <1>18, GrantsAssumption DEF Holds, At, Goes, LetsGo, RunsOut, Readable, Wakes,
     End, Lose, policyVars, slotVars, grantVars, wireVars, threadVars, registryVars,
     StopShape, PlaceTypes, TodoTypes, RegistryTypes, Threads
<1>19. ASSUME NEW a \in Asks, Finishes(a) PROVE StopShape'
  BY <1>19, GrantsAssumption DEF Finishes, At, Goes, Lose, policyVars, slotVars,
     grantVars, wireVars, threadVars, registryVars, StopShape, PlaceTypes, TodoTypes,
     RegistryTypes, Threads
<1>20. ASSUME NEW a \in Asks, Closes(a) PROVE StopShape'
  BY <1>20, GrantsAssumption DEF Closes, At, policyVars, slotVars, grantVars,
     wireVars, threadVars, registryVars, StopShape, PlaceTypes, TodoTypes,
     RegistryTypes, Threads
<1>21. ASSUME NEW t \in Threads, Records(t) PROVE StopShape'
  BY <1>21, GrantsAssumption DEF Records, policyVars, slotVars, grantVars, wireVars,
     threadVars, registryVars, StopShape, PlaceTypes, TodoTypes, RegistryTypes, Threads
<1>22. ASSUME StopsAll PROVE StopShape'
  BY <1>22, GrantsAssumption DEF StopsAll, At, Goes, Visits, policyVars, slotVars,
     grantVars, wireVars, threadVars, registryVars, StopShape, PlaceTypes, TodoTypes,
     RegistryTypes, Threads
<1>23. ASSUME NEW c \in Asks, StopsOne(c) PROVE StopShape'
  BY <1>23, GrantsAssumption DEF StopsOne, At, Goes, End, Visits, policyVars,
     slotVars, grantVars, wireVars, threadVars, registryVars, StopShape, PlaceTypes,
     TodoTypes, RegistryTypes, Threads
<1>24. ASSUME TimePasses PROVE StopShape'
  BY <1>24, GrantsAssumption DEF TimePasses, policyVars, slotVars, grantVars,
     wireVars, threadVars, registryVars, StopShape, PlaceTypes, TodoTypes,
     RegistryTypes, Threads
<1>25. ASSUME Edits PROVE StopShape'
  BY <1>25, GrantsAssumption DEF Edits, policyVars, slotVars, grantVars, wireVars,
     threadVars, registryVars, StopShape, PlaceTypes, TodoTypes, RegistryTypes, Threads
<1>26. ASSUME Stops PROVE StopShape'
  BY <1>26, GrantsAssumption DEF Stops, At, Goes, policyVars, slotVars, grantVars,
     wireVars, threadVars, registryVars, StopShape, PlaceTypes, TodoTypes,
     RegistryTypes, Threads
<1>27. ASSUME NEW a \in Asks, Refuses(a) PROVE StopShape'
  BY <1>27, GrantsAssumption DEF Refuses, At, Goes, Answered, policyVars, slotVars,
     grantVars, wireVars, threadVars, registryVars, StopShape, PlaceTypes, TodoTypes,
     RegistryTypes, Threads
<1>28. ASSUME NEW a \in Asks, AppendFails(a) PROVE StopShape'
  BY <1>28, GrantsAssumption DEF AppendFails, At, Goes, Cancels, Releases,
     policyVars, slotVars, grantVars, wireVars, threadVars, registryVars, StopShape,
     PlaceTypes, TodoTypes, RegistryTypes, Threads
<1>29. ASSUME NEW a \in Asks, PeerActs(a) PROVE StopShape'
  BY <1>29, GrantsAssumption DEF PeerActs, policyVars, slotVars, grantVars, wireVars,
     threadVars, registryVars, StopShape, PlaceTypes, TodoTypes, RegistryTypes, Threads
<1>30. CASE UNCHANGED vars
  BY <1>30, GrantsAssumption DEF vars, policyVars, slotVars, grantVars, wireVars,
     threadVars, registryVars, StopShape, PlaceTypes, TodoTypes, RegistryTypes, Threads
<1> QED
  BY <1>1, <1>2, <1>3, <1>4, <1>5, <1>6, <1>7, <1>8, <1>9, <1>10, <1>11, <1>12,
     <1>13, <1>14, <1>15, <1>16, <1>17, <1>18, <1>19, <1>20, <1>21, <1>22, <1>23,
     <1>24, <1>25, <1>26, <1>27, <1>28, <1>29, <1>30, StepCases

(* A grant of a version that is not current has somebody about to end it.  *)
LEMMA OldVersionStep ==
  ASSUME OldVersionsAreAnnounced, GrantShape, PlaceTypes, LoadTypes, VersionTypes, TodoTypes,
         RegistryTypes, PolicyTypes,
         [Next]_vars
  PROVE  OldVersionsAreAnnounced'
<1>1. ASSUME NEW a \in Asks, Arrives(a) PROVE OldVersionsAreAnnounced'
  BY <1>1, GrantsAssumption DEF Arrives, At, Goes, policyVars, slotVars, grantVars,
     wireVars, threadVars, registryVars, OldVersionsAreAnnounced, PlaceTypes,
     LoadTypes, VersionTypes, TodoTypes, RegistryTypes, PolicyTypes, Threads
<1>2. ASSUME NEW a \in Asks, Reloads(a) PROVE OldVersionsAreAnnounced'
  BY <1>2, GrantsAssumption DEF Reloads, At, Goes, Loads, policyVars, slotVars,
     grantVars, wireVars, threadVars, registryVars, OldVersionsAreAnnounced,
     PlaceTypes, LoadTypes, VersionTypes, TodoTypes, RegistryTypes, PolicyTypes, Threads
<1>3. ASSUME NEW a \in Asks, Compares(a) PROVE OldVersionsAreAnnounced'
  BY <1>3, GrantsAssumption DEF Compares, At, Goes, Returned, policyVars, slotVars,
     grantVars, wireVars, threadVars, registryVars, OldVersionsAreAnnounced,
     PlaceTypes, LoadTypes, VersionTypes, TodoTypes, RegistryTypes, PolicyTypes, Threads
<1>4. ASSUME NEW a \in Asks, Announces(a) PROVE OldVersionsAreAnnounced'
  BY <1>4, GrantsAssumption DEF Announces, At, Goes, Visits, Returned, policyVars,
     slotVars, grantVars, wireVars, threadVars, registryVars,
     OldVersionsAreAnnounced, PlaceTypes, LoadTypes, VersionTypes, TodoTypes,
     RegistryTypes, PolicyTypes, Threads
<1>5. ASSUME NEW a \in Asks, Ticks(a) PROVE OldVersionsAreAnnounced'
  BY <1>5, GrantsAssumption DEF Ticks, At, Goes, Visits, SweptAt, AfterSweep,
     policyVars, slotVars, grantVars, wireVars, threadVars, registryVars,
     OldVersionsAreAnnounced, PlaceTypes, LoadTypes, VersionTypes, TodoTypes,
     RegistryTypes, PolicyTypes, Threads
<1>6. ASSUME NEW a \in Asks, NEW c \in Asks, AnnouncesTo(a, c) PROVE
     OldVersionsAreAnnounced'
  BY <1>6, GrantsAssumption DEF AnnouncesTo, At, Goes, End, Visits, Returned,
     policyVars, slotVars, grantVars, wireVars, threadVars, registryVars,
     OldVersionsAreAnnounced, PlaceTypes, LoadTypes, VersionTypes, TodoTypes,
     RegistryTypes, PolicyTypes, Threads
<1>7. ASSUME NEW a \in Asks, NEW c \in Asks, TicksOn(a, c) PROVE
     OldVersionsAreAnnounced'
  <2>1. conns' \subseteq conns /\ UNCHANGED <<version, current, load>> /\ pc[a] =
     "ticking"
    BY <1>7, GrantsAssumption DEF TicksOn, At, End, Beats, Lose, registryVars,
     policyVars
  <2>2. \A t \in Threads : t # a => pc'[t] = pc[t] /\ todo'[t] = todo[t]
    BY <1>7, GrantsAssumption DEF TicksOn, Visits, Goes, PlaceTypes, TodoTypes
  <2> QED  BY <2>1, <2>2 DEF OldVersionsAreAnnounced, Threads, RegistryTypes
<1>8. ASSUME NEW a \in Asks, Admits(a) PROVE OldVersionsAreAnnounced'
  BY <1>8, GrantsAssumption DEF Admits, At, Goes, Loads, policyVars, slotVars,
     grantVars, wireVars, threadVars, registryVars, OldVersionsAreAnnounced,
     PlaceTypes, LoadTypes, VersionTypes, TodoTypes, RegistryTypes, PolicyTypes, Threads
<1>9. ASSUME NEW a \in Asks, Decides(a) PROVE OldVersionsAreAnnounced'
  <2>1. a \notin conns /\ UNCHANGED <<conns, current, todo>> /\ pc[a] = "decide"
    BY <1>9, GrantsAssumption DEF Decides, At, GrantShape, registryVars, policyVars,
     Answered
  <2>2. \A t \in Threads : t # a => pc'[t] = pc[t] /\ load'[t] = load[t]
    BY <1>9, GrantsAssumption DEF Decides, Answered, Goes, PlaceTypes, LoadTypes
  <2>3. \A c \in Asks : c # a => version'[c] = version[c]
    BY <1>9, GrantsAssumption DEF Decides, Answered, VersionTypes
  <2> QED  BY <2>1, <2>2, <2>3 DEF OldVersionsAreAnnounced, Threads, RegistryTypes
<1>10. ASSUME NEW a \in Asks, Appends(a) PROVE OldVersionsAreAnnounced'
  BY <1>10, GrantsAssumption DEF Appends, At, Goes, policyVars, slotVars, grantVars,
     wireVars, threadVars, registryVars, OldVersionsAreAnnounced, PlaceTypes,
     LoadTypes, VersionTypes, TodoTypes, RegistryTypes, PolicyTypes, Threads
<1>11. ASSUME NEW a \in Asks, Delivers(a) PROVE OldVersionsAreAnnounced'
  BY <1>11, GrantsAssumption DEF Delivers, At, Goes, Cancels, Releases, policyVars,
     slotVars, grantVars, wireVars, threadVars, registryVars,
     OldVersionsAreAnnounced, PlaceTypes, LoadTypes, VersionTypes, TodoTypes,
     RegistryTypes, PolicyTypes, Threads
<1>12. ASSUME NEW a \in Asks, Opens(a) PROVE OldVersionsAreAnnounced'
  BY <1>12, GrantsAssumption DEF Opens, At, Goes, Releases, policyVars, slotVars,
     grantVars, wireVars, threadVars, registryVars, OldVersionsAreAnnounced,
     PlaceTypes, LoadTypes, VersionTypes, TodoTypes, RegistryTypes, PolicyTypes, Threads
<1>13. ASSUME NEW a \in Asks, Issues(a) PROVE OldVersionsAreAnnounced'
  BY <1>13, GrantsAssumption DEF Issues, At, Goes, policyVars, slotVars, grantVars,
     wireVars, threadVars, registryVars, OldVersionsAreAnnounced, PlaceTypes,
     LoadTypes, VersionTypes, TodoTypes, RegistryTypes, PolicyTypes, Threads
<1>14. ASSUME NEW a \in Asks, Arrested(a) PROVE OldVersionsAreAnnounced'
  BY <1>14, GrantsAssumption DEF Arrested, At, Goes, End, policyVars, slotVars,
     grantVars, wireVars, threadVars, registryVars, OldVersionsAreAnnounced,
     PlaceTypes, LoadTypes, VersionTypes, TodoTypes, RegistryTypes, PolicyTypes, Threads
<1>15. ASSUME NEW a \in Asks, Rechecks(a) PROVE OldVersionsAreAnnounced'
  BY <1>15, GrantsAssumption DEF Rechecks, At, Goes, policyVars, slotVars, grantVars,
     wireVars, threadVars, registryVars, OldVersionsAreAnnounced, PlaceTypes,
     LoadTypes, VersionTypes, TodoTypes, RegistryTypes, PolicyTypes, Threads
<1>16. ASSUME NEW a \in Asks, Rereads(a) PROVE OldVersionsAreAnnounced'
  BY <1>16, GrantsAssumption DEF Rereads, At, Goes, policyVars, slotVars, grantVars,
     wireVars, threadVars, registryVars, OldVersionsAreAnnounced, PlaceTypes,
     LoadTypes, VersionTypes, TodoTypes, RegistryTypes, PolicyTypes, Threads
<1>17. ASSUME NEW a \in Asks, BeginsToHold(a) PROVE OldVersionsAreAnnounced'
  BY <1>17, GrantsAssumption DEF BeginsToHold, At, Goes, policyVars, slotVars,
     grantVars, wireVars, threadVars, registryVars, OldVersionsAreAnnounced,
     PlaceTypes, LoadTypes, VersionTypes, TodoTypes, RegistryTypes, PolicyTypes, Threads
<1>18. ASSUME NEW a \in Asks, Holds(a) PROVE OldVersionsAreAnnounced'
  BY <1>18, GrantsAssumption DEF Holds, At, Goes, LetsGo, RunsOut, Readable, Wakes,
     End, Lose, policyVars, slotVars, grantVars, wireVars, threadVars, registryVars,
     OldVersionsAreAnnounced, PlaceTypes, LoadTypes, VersionTypes, TodoTypes,
     RegistryTypes, PolicyTypes, Threads
<1>19. ASSUME NEW a \in Asks, Finishes(a) PROVE OldVersionsAreAnnounced'
  BY <1>19, GrantsAssumption DEF Finishes, At, Goes, Lose, policyVars, slotVars,
     grantVars, wireVars, threadVars, registryVars, OldVersionsAreAnnounced,
     PlaceTypes, LoadTypes, VersionTypes, TodoTypes, RegistryTypes, PolicyTypes, Threads
<1>20. ASSUME NEW a \in Asks, Closes(a) PROVE OldVersionsAreAnnounced'
  BY <1>20, GrantsAssumption DEF Closes, At, policyVars, slotVars, grantVars,
     wireVars, threadVars, registryVars, OldVersionsAreAnnounced, PlaceTypes,
     LoadTypes, VersionTypes, TodoTypes, RegistryTypes, PolicyTypes, Threads
<1>21. ASSUME NEW t \in Threads, Records(t) PROVE OldVersionsAreAnnounced'
  BY <1>21, GrantsAssumption DEF Records, policyVars, slotVars, grantVars, wireVars,
     threadVars, registryVars, OldVersionsAreAnnounced, PlaceTypes, LoadTypes,
     VersionTypes, TodoTypes, RegistryTypes, PolicyTypes, Threads
<1>22. ASSUME StopsAll PROVE OldVersionsAreAnnounced'
  BY <1>22, GrantsAssumption DEF StopsAll, At, Goes, Visits, policyVars, slotVars,
     grantVars, wireVars, threadVars, registryVars, OldVersionsAreAnnounced,
     PlaceTypes, LoadTypes, VersionTypes, TodoTypes, RegistryTypes, PolicyTypes, Threads
<1>23. ASSUME NEW c \in Asks, StopsOne(c) PROVE OldVersionsAreAnnounced'
  BY <1>23, GrantsAssumption DEF StopsOne, At, Goes, End, Visits, policyVars,
     slotVars, grantVars, wireVars, threadVars, registryVars,
     OldVersionsAreAnnounced, PlaceTypes, LoadTypes, VersionTypes, TodoTypes,
     RegistryTypes, PolicyTypes, Threads
<1>24. ASSUME TimePasses PROVE OldVersionsAreAnnounced'
  BY <1>24, GrantsAssumption DEF TimePasses, policyVars, slotVars, grantVars,
     wireVars, threadVars, registryVars, OldVersionsAreAnnounced, PlaceTypes,
     LoadTypes, VersionTypes, TodoTypes, RegistryTypes, PolicyTypes, Threads
<1>25. ASSUME Edits PROVE OldVersionsAreAnnounced'
  BY <1>25, GrantsAssumption DEF Edits, policyVars, slotVars, grantVars, wireVars,
     threadVars, registryVars, OldVersionsAreAnnounced, PlaceTypes, LoadTypes,
     VersionTypes, TodoTypes, RegistryTypes, PolicyTypes, Threads
<1>26. ASSUME Stops PROVE OldVersionsAreAnnounced'
  BY <1>26, GrantsAssumption DEF Stops, At, Goes, policyVars, slotVars, grantVars,
     wireVars, threadVars, registryVars, OldVersionsAreAnnounced, PlaceTypes,
     LoadTypes, VersionTypes, TodoTypes, RegistryTypes, PolicyTypes, Threads
<1>27. ASSUME NEW a \in Asks, Refuses(a) PROVE OldVersionsAreAnnounced'
  BY <1>27, GrantsAssumption DEF Refuses, At, Goes, Answered, policyVars, slotVars,
     grantVars, wireVars, threadVars, registryVars, OldVersionsAreAnnounced,
     PlaceTypes, LoadTypes, VersionTypes, TodoTypes, RegistryTypes, PolicyTypes, Threads
<1>28. ASSUME NEW a \in Asks, AppendFails(a) PROVE OldVersionsAreAnnounced'
  BY <1>28, GrantsAssumption DEF AppendFails, At, Goes, Cancels, Releases,
     policyVars, slotVars, grantVars, wireVars, threadVars, registryVars,
     OldVersionsAreAnnounced, PlaceTypes, LoadTypes, VersionTypes, TodoTypes,
     RegistryTypes, PolicyTypes, Threads
<1>29. ASSUME NEW a \in Asks, PeerActs(a) PROVE OldVersionsAreAnnounced'
  BY <1>29, GrantsAssumption DEF PeerActs, policyVars, slotVars, grantVars, wireVars,
     threadVars, registryVars, OldVersionsAreAnnounced, PlaceTypes, LoadTypes,
     VersionTypes, TodoTypes, RegistryTypes, PolicyTypes, Threads
<1>30. CASE UNCHANGED vars
  BY <1>30, GrantsAssumption DEF vars, policyVars, slotVars, grantVars, wireVars,
     threadVars, registryVars, OldVersionsAreAnnounced, PlaceTypes, LoadTypes,
     VersionTypes, TodoTypes, RegistryTypes, PolicyTypes, Threads
<1> QED
  BY <1>1, <1>2, <1>3, <1>4, <1>5, <1>6, <1>7, <1>8, <1>9, <1>10, <1>11, <1>12,
     <1>13, <1>14, <1>15, <1>16, <1>17, <1>18, <1>19, <1>20, <1>21, <1>22, <1>23,
     <1>24, <1>25, <1>26, <1>27, <1>28, <1>29, <1>30, StepCases

-----------------------------------------------------------------------------
(* The slots.                                                              *)

Waiting == {a \in Asks : Minted(a)}
Of(S, p) == {a \in S : PrincipalOf[a] = p}

(* What the registry counts, with the finiteness it needs to count.        *)
SlotCounts ==
  /\ IsFiniteSet(conns) /\ IsFiniteSet(Waiting)
  /\ reserved = Cardinality(Waiting)
  /\ Cardinality(conns) + reserved <= MaxConnections
  /\ reservedBy \in [Principals -> Nat]
  /\ \A p \in Principals :
       /\ reservedBy[p] = Cardinality(Of(Waiting, p))
       /\ Cardinality(Of(conns, p)) + reservedBy[p] <= per_principal

(* With the types, that is the shape of the slots.                         *)
LEMMA SlotsCounted == SlotShape <=> TypeOK /\ SlotCounts
BY DEF SlotShape, SlotsAccounted, SlotCounts, Waiting, Of, Minted, TypeOK

(* What is counted is a number.                                            *)
LEMMA Numbers ==
  ASSUME NEW S, IsFiniteSet(S)
  PROVE  Cardinality(S) \in Nat /\ \A p : Cardinality(Of(S, p)) \in Nat
BY FS_CardinalityType, FS_Subset DEF Of

(* One more of a finite set.                                               *)
LEMMA OneMore ==
  ASSUME NEW S, IsFiniteSet(S), NEW x, x \notin S
  PROVE  /\ IsFiniteSet(S \cup {x}) /\ Cardinality(S \cup {x}) = Cardinality(S) + 1
         /\ \A p : Cardinality(Of(S \cup {x}, p))
                     = Cardinality(Of(S, p)) + (IF PrincipalOf[x] = p THEN 1 ELSE 0)
<1>1. IsFiniteSet(S \cup {x}) /\ Cardinality(S \cup {x}) = Cardinality(S) + 1
  BY FS_AddElement
<1>2. ASSUME NEW p
      PROVE  Cardinality(Of(S \cup {x}, p))
               = Cardinality(Of(S, p)) + (IF PrincipalOf[x] = p THEN 1 ELSE 0)
  <2>1. IsFiniteSet(Of(S, p)) /\ x \notin Of(S, p)  BY FS_Subset DEF Of
  <2>2. Cardinality(Of(S, p)) \in Nat  BY <2>1, FS_CardinalityType
  <2>3. CASE PrincipalOf[x] = p
    <3>1. Of(S \cup {x}, p) = Of(S, p) \cup {x}  BY <2>3 DEF Of
    <3>2. Cardinality(Of(S, p) \cup {x}) = Cardinality(Of(S, p)) + 1  BY <2>1, FS_AddElement
    <3> QED  BY <3>1, <3>2, <2>3
  <2>4. CASE PrincipalOf[x] # p
    <3>1. Of(S \cup {x}, p) = Of(S, p)  BY <2>4 DEF Of
    <3> QED  BY <3>1, <2>2, <2>4
  <2> QED  BY <2>3, <2>4
<1> QED  BY <1>1, <1>2

(* One less.                                                               *)
LEMMA OneLess ==
  ASSUME NEW S, IsFiniteSet(S), NEW x \in S
  PROVE  /\ IsFiniteSet(S \ {x}) /\ Cardinality(S \ {x}) = Cardinality(S) - 1
         /\ \A p : Cardinality(Of(S \ {x}, p))
                     = Cardinality(Of(S, p)) - (IF PrincipalOf[x] = p THEN 1 ELSE 0)
<1>1. IsFiniteSet(S \ {x}) /\ x \notin S \ {x} /\ (S \ {x}) \cup {x} = S
  BY FS_Subset
<1>2. /\ Cardinality(S \ {x}) = Cardinality(S) - 1
      /\ \A p : Cardinality(Of(S \ {x}, p))
                  = Cardinality(Of(S, p)) - (IF PrincipalOf[x] = p THEN 1 ELSE 0)
  <2> DEFINE T == S \ {x}
  <2>1. IsFiniteSet(T) /\ x \notin T /\ T \cup {x} = S  BY <1>1
  <2> HIDE DEF T
  <2>2. /\ Cardinality(S) = Cardinality(T) + 1
        /\ \A p : Cardinality(Of(S, p))
                    = Cardinality(Of(T, p)) + (IF PrincipalOf[x] = p THEN 1 ELSE 0)
    BY <2>1, OneMore
  <2>3. Cardinality(T) \in Nat /\ \A p : Cardinality(Of(T, p)) \in Nat
    BY <2>1, Numbers
  <2>4. /\ Cardinality(T) = Cardinality(S) - 1
        /\ \A p : Cardinality(Of(T, p))
                    = Cardinality(Of(S, p)) - (IF PrincipalOf[x] = p THEN 1 ELSE 0)
    BY <2>2, <2>3
  <2> QED  BY <2>4 DEF T
<1> QED  BY <1>1, <1>2

(* A part of a finite set.                                                 *)
LEMMA Fewer ==
  ASSUME NEW S, IsFiniteSet(S), NEW T, T \subseteq S
  PROVE  /\ IsFiniteSet(T) /\ Cardinality(T) <= Cardinality(S)
         /\ \A p : Cardinality(Of(T, p)) <= Cardinality(Of(S, p))
<1>1. IsFiniteSet(T) /\ Cardinality(T) <= Cardinality(S)  BY FS_Subset
<1>2. ASSUME NEW p PROVE Cardinality(Of(T, p)) <= Cardinality(Of(S, p))
  <2>1. IsFiniteSet(Of(S, p))  BY FS_Subset DEF Of
  <2>2. Of(T, p) \subseteq Of(S, p)  BY DEF Of
  <2> QED  BY <2>1, <2>2, FS_Subset
<1> QED  BY <1>1, <1>2

(* What a step does to the slots: nothing, but that grants may end; a slot *)
(* reserved, cancelled, or become a grant.                                 *)
SlotsMove ==
  \/ Waiting' = Waiting /\ UNCHANGED slotVars /\ conns' \subseteq conns
  \/ \E a \in Asks :
       \/ /\ ~ Minted(a) /\ Waiting' = Waiting \cup {a} /\ conns' = conns
          /\ HasCapacity(PrincipalOf[a])
          /\ reserved' = reserved + 1
          /\ reservedBy' = [reservedBy EXCEPT ![PrincipalOf[a]] = @ + 1]
       \/ /\ Minted(a) /\ Waiting' = Waiting \ {a} /\ Releases(a)
          /\ conns' = conns \/ (a \notin conns /\ conns' = conns \cup {a})

(* Every step does one of these.                                           *)
LEMMA SlotMove ==
  ASSUME GrantShape, PlaceTypes, LoadTypes, RegistryTypes,
         [Next]_vars
  PROVE  SlotsMove
<1>1. ASSUME NEW a \in Asks, Arrives(a) PROVE SlotsMove
  BY <1>1, GrantsAssumption DEF Arrives, At, Goes, policyVars, slotVars, grantVars,
     wireVars, threadVars, registryVars, SlotsMove, Waiting, Minted, PlaceTypes,
     LoadTypes, Loading, Threads
<1>2. ASSUME NEW a \in Asks, Reloads(a) PROVE SlotsMove
  BY <1>2, GrantsAssumption DEF Reloads, At, Goes, Loads, policyVars, slotVars,
     grantVars, wireVars, threadVars, registryVars, SlotsMove, Waiting, Minted,
     PlaceTypes, LoadTypes, Loading, Threads
<1>3. ASSUME NEW a \in Asks, Compares(a) PROVE SlotsMove
  BY <1>3, GrantsAssumption DEF Compares, At, Goes, Returned, policyVars, slotVars,
     grantVars, wireVars, threadVars, registryVars, SlotsMove, Waiting, Minted,
     PlaceTypes, LoadTypes, Loading, Threads
<1>4. ASSUME NEW a \in Asks, Announces(a) PROVE SlotsMove
  BY <1>4, GrantsAssumption DEF Announces, At, Goes, Visits, Returned, policyVars,
     slotVars, grantVars, wireVars, threadVars, registryVars, SlotsMove, Waiting,
     Minted, PlaceTypes, LoadTypes, Loading, Threads
<1>5. ASSUME NEW a \in Asks, Ticks(a) PROVE SlotsMove
  BY <1>5, GrantsAssumption DEF Ticks, At, Goes, Visits, SweptAt, AfterSweep,
     policyVars, slotVars, grantVars, wireVars, threadVars, registryVars, SlotsMove,
     Waiting, Minted, PlaceTypes, LoadTypes, Loading, Threads
<1>6. ASSUME NEW a \in Asks, NEW c \in Asks, AnnouncesTo(a, c) PROVE SlotsMove
  BY <1>6, GrantsAssumption DEF AnnouncesTo, At, Goes, End, Visits, Returned,
     policyVars, slotVars, grantVars, wireVars, threadVars, registryVars, SlotsMove,
     Waiting, Minted, PlaceTypes, LoadTypes, Loading, Threads
<1>7. ASSUME NEW a \in Asks, NEW c \in Asks, TicksOn(a, c) PROVE SlotsMove
  BY <1>7, GrantsAssumption DEF TicksOn, At, Goes, End, Beats, Lose, Visits, SweptAt,
     AfterSweep, policyVars, slotVars, grantVars, wireVars, threadVars, registryVars,
     SlotsMove, Waiting, Minted, PlaceTypes, LoadTypes, Loading, Threads
<1>8. ASSUME NEW a \in Asks, Admits(a) PROVE SlotsMove
  BY <1>8, GrantsAssumption DEF Admits, At, Goes, Loads, policyVars, slotVars,
     grantVars, wireVars, threadVars, registryVars, SlotsMove, Waiting, Minted,
     PlaceTypes, LoadTypes, Loading, Threads
<1>9. ASSUME NEW a \in Asks, Decides(a) PROVE SlotsMove
  BY <1>9, GrantsAssumption DEF Decides, At, Goes, Answered, policyVars, slotVars,
     grantVars, wireVars, threadVars, registryVars, SlotsMove, Waiting, Minted,
     PlaceTypes, LoadTypes, Loading, Threads
<1>10. ASSUME NEW a \in Asks, Appends(a) PROVE SlotsMove
  BY <1>10, GrantsAssumption DEF Appends, At, Goes, policyVars, slotVars, grantVars,
     wireVars, threadVars, registryVars, SlotsMove, Waiting, Minted, PlaceTypes,
     LoadTypes, Loading, Threads
<1>11. ASSUME NEW a \in Asks, Delivers(a) PROVE SlotsMove
  BY <1>11, GrantsAssumption DEF Delivers, At, Goes, Cancels, policyVars, slotVars,
     grantVars, wireVars, threadVars, registryVars, SlotsMove, Waiting, Minted,
     PlaceTypes, LoadTypes, Loading, Threads
<1>12. ASSUME NEW a \in Asks, Opens(a) PROVE SlotsMove
  <2>1. a \notin conns /\ Minted(a)  BY <1>12, GrantsAssumption DEF Opens, At,
     GrantShape, Minted
  <2>2. Waiting' = Waiting \ {a}
    BY <1>12, GrantsAssumption DEF Opens, At, Goes, Waiting, Minted, PlaceTypes, Threads
  <2> QED  BY <2>1, <2>2, <1>12, GrantsAssumption DEF Opens, SlotsMove
<1>13. ASSUME NEW a \in Asks, Issues(a) PROVE SlotsMove
  BY <1>13, GrantsAssumption DEF Issues, At, Goes, policyVars, slotVars, grantVars,
     wireVars, threadVars, registryVars, SlotsMove, Waiting, Minted, PlaceTypes,
     LoadTypes, Loading, Threads
<1>14. ASSUME NEW a \in Asks, Arrested(a) PROVE SlotsMove
  BY <1>14, GrantsAssumption DEF Arrested, At, Goes, End, policyVars, slotVars,
     grantVars, wireVars, threadVars, registryVars, SlotsMove, Waiting, Minted,
     PlaceTypes, LoadTypes, Loading, Threads
<1>15. ASSUME NEW a \in Asks, Rechecks(a) PROVE SlotsMove
  BY <1>15, GrantsAssumption DEF Rechecks, At, Goes, policyVars, slotVars, grantVars,
     wireVars, threadVars, registryVars, SlotsMove, Waiting, Minted, PlaceTypes,
     LoadTypes, Loading, Threads
<1>16. ASSUME NEW a \in Asks, Rereads(a) PROVE SlotsMove
  BY <1>16, GrantsAssumption DEF Rereads, At, Goes, policyVars, slotVars, grantVars,
     wireVars, threadVars, registryVars, SlotsMove, Waiting, Minted, PlaceTypes,
     LoadTypes, Loading, Threads
<1>17. ASSUME NEW a \in Asks, BeginsToHold(a) PROVE SlotsMove
  BY <1>17, GrantsAssumption DEF BeginsToHold, At, Goes, policyVars, slotVars,
     grantVars, wireVars, threadVars, registryVars, SlotsMove, Waiting, Minted,
     PlaceTypes, LoadTypes, Loading, Threads
<1>18. ASSUME NEW a \in Asks, Holds(a) PROVE SlotsMove
  BY <1>18, GrantsAssumption DEF Holds, At, Goes, LetsGo, RunsOut, Readable, Wakes,
     End, Lose, policyVars, slotVars, grantVars, wireVars, threadVars, registryVars,
     SlotsMove, Waiting, Minted, PlaceTypes, LoadTypes, Loading, Threads
<1>19. ASSUME NEW a \in Asks, Finishes(a) PROVE SlotsMove
  BY <1>19, GrantsAssumption DEF Finishes, At, Goes, Lose, policyVars, slotVars,
     grantVars, wireVars, threadVars, registryVars, SlotsMove, Waiting, Minted,
     PlaceTypes, LoadTypes, Loading, Threads
<1>20. ASSUME NEW a \in Asks, Closes(a) PROVE SlotsMove
  BY <1>20, GrantsAssumption DEF Closes, At, policyVars, slotVars, grantVars,
     wireVars, threadVars, registryVars, SlotsMove, Waiting, Minted, PlaceTypes,
     LoadTypes, Loading, Threads
<1>21. ASSUME NEW t \in Threads, Records(t) PROVE SlotsMove
  BY <1>21, GrantsAssumption DEF Records, policyVars, slotVars, grantVars, wireVars,
     threadVars, registryVars, SlotsMove, Waiting, Minted, PlaceTypes, LoadTypes,
     Loading, Threads
<1>22. ASSUME StopsAll PROVE SlotsMove
  BY <1>22, GrantsAssumption DEF StopsAll, At, Goes, Visits, policyVars, slotVars,
     grantVars, wireVars, threadVars, registryVars, SlotsMove, Waiting, Minted,
     PlaceTypes, LoadTypes, Loading, Threads
<1>23. ASSUME NEW c \in Asks, StopsOne(c) PROVE SlotsMove
  BY <1>23, GrantsAssumption DEF StopsOne, At, Goes, End, Visits, policyVars,
     slotVars, grantVars, wireVars, threadVars, registryVars, SlotsMove, Waiting,
     Minted, PlaceTypes, LoadTypes, Loading, Threads
<1>24. ASSUME TimePasses PROVE SlotsMove
  BY <1>24, GrantsAssumption DEF TimePasses, policyVars, slotVars, grantVars,
     wireVars, threadVars, registryVars, SlotsMove, Waiting, Minted, PlaceTypes,
     LoadTypes, Loading, Threads
<1>25. ASSUME Edits PROVE SlotsMove
  BY <1>25, GrantsAssumption DEF Edits, policyVars, slotVars, grantVars, wireVars,
     threadVars, registryVars, SlotsMove, Waiting, Minted, PlaceTypes, LoadTypes,
     Loading, Threads
<1>26. ASSUME Stops PROVE SlotsMove
  BY <1>26, GrantsAssumption DEF Stops, At, Goes, policyVars, slotVars, grantVars,
     wireVars, threadVars, registryVars, SlotsMove, Waiting, Minted, PlaceTypes,
     LoadTypes, Loading, Threads
<1>27. ASSUME NEW a \in Asks, Refuses(a) PROVE SlotsMove
  BY <1>27, GrantsAssumption DEF Refuses, At, Goes, Answered, policyVars, slotVars,
     grantVars, wireVars, threadVars, registryVars, SlotsMove, Waiting, Minted,
     PlaceTypes, LoadTypes, Loading, Threads
<1>28. ASSUME NEW a \in Asks, AppendFails(a) PROVE SlotsMove
  BY <1>28, GrantsAssumption DEF AppendFails, At, Goes, Cancels, policyVars,
     slotVars, grantVars, wireVars, threadVars, registryVars, SlotsMove, Waiting,
     Minted, PlaceTypes, LoadTypes, Loading, Threads
<1>29. ASSUME NEW a \in Asks, PeerActs(a) PROVE SlotsMove
  BY <1>29, GrantsAssumption DEF PeerActs, policyVars, slotVars, grantVars, wireVars,
     threadVars, registryVars, SlotsMove, Waiting, Minted, PlaceTypes, LoadTypes,
     Loading, Threads
<1>30. CASE UNCHANGED vars
  BY <1>30, GrantsAssumption DEF vars, policyVars, slotVars, grantVars, wireVars,
     threadVars, registryVars, SlotsMove, Waiting, Minted, PlaceTypes, LoadTypes,
     Loading, Threads
<1> QED
  BY <1>1, <1>2, <1>3, <1>4, <1>5, <1>6, <1>7, <1>8, <1>9, <1>10, <1>11, <1>12,
     <1>13, <1>14, <1>15, <1>16, <1>17, <1>18, <1>19, <1>20, <1>21, <1>22, <1>23,
     <1>24, <1>25, <1>26, <1>27, <1>28, <1>29, <1>30, StepCases

(* So the counts stay right.                                               *)
LEMMA SlotStep ==
  ASSUME SlotCounts, GrantShape, PlaceTypes, LoadTypes, RegistryTypes, SettingTypes,
         [Next]_vars
  PROVE  SlotCounts'
<1> DEFINE one(a, p) == IF PrincipalOf[a] = p THEN 1 ELSE 0
<1>1. per_principal' = per_principal /\ per_principal \in Nat /\ MaxConnections \in Nat
  BY GrantsAssumption DEF SettingTypes, Next, vars
<1>2. /\ Cardinality(conns) \in Nat /\ Cardinality(Waiting) \in Nat
      /\ \A p : Cardinality(Of(conns, p)) \in Nat /\ Cardinality(Of(Waiting, p)) \in Nat
  BY Numbers DEF SlotCounts
<1>3. CASE Waiting' = Waiting /\ UNCHANGED slotVars /\ conns' \subseteq conns
  <2>1. /\ IsFiniteSet(conns') /\ Cardinality(conns') <= Cardinality(conns)
        /\ \A p : Cardinality(Of(conns', p)) <= Cardinality(Of(conns, p))
    BY <1>3, Fewer DEF SlotCounts
  <2>2. Cardinality(conns') \in Nat /\ \A p : Cardinality(Of(conns', p)) \in Nat
    BY <2>1, Numbers
  <2> QED  BY <1>1, <1>2, <1>3, <2>1, <2>2 DEF SlotCounts, slotVars
<1>4. ASSUME NEW a \in Asks, ~ Minted(a), Waiting' = Waiting \cup {a}, conns' = conns,
             HasCapacity(PrincipalOf[a]), reserved' = reserved + 1,
             reservedBy' = [reservedBy EXCEPT ![PrincipalOf[a]] = @ + 1]
      PROVE  SlotCounts'
  <2>1. /\ IsFiniteSet(Waiting') /\ Cardinality(Waiting') = Cardinality(Waiting) + 1
        /\ \A p : Cardinality(Of(Waiting', p)) = Cardinality(Of(Waiting, p)) + one(a, p)
    <3>1. a \notin Waiting  BY <1>4 DEF Waiting
    <3> QED  BY <3>1, <1>4, OneMore DEF SlotCounts
  <2>2. /\ Cardinality(conns) + reserved < MaxConnections
        /\ Cardinality(Of(conns, PrincipalOf[a])) + reservedBy[PrincipalOf[a]] < per_principal
    BY <1>4 DEF HasCapacity, HeldBy, Of
  <2>3. \A p \in Principals : reservedBy'[p] = reservedBy[p] + one(a, p)
    BY <1>4 DEF SlotCounts
  <2>4. reservedBy' \in [Principals -> Nat]
    <3>1. PrincipalOf[a] \in Principals  BY DEF Principals
    <3>2. reservedBy \in [Principals -> Nat] /\ reservedBy[PrincipalOf[a]] + 1 \in Nat
      BY <3>1 DEF SlotCounts
    <3> QED  BY <1>4, <3>2
  <2>5. ASSUME NEW p \in Principals
        PROVE  /\ reservedBy'[p] = Cardinality(Of(Waiting', p))
               /\ Cardinality(Of(conns', p)) + reservedBy'[p] <= per_principal'
    <3>1. Cardinality(Of(conns, p)) \in Nat /\ Cardinality(Of(Waiting, p)) \in Nat  BY <1>2
    <3>2. /\ reservedBy[p] = Cardinality(Of(Waiting, p))
          /\ Cardinality(Of(conns, p)) + reservedBy[p] <= per_principal
      BY DEF SlotCounts
    <3>3. /\ reservedBy'[p] = reservedBy[p] + one(a, p)
          /\ Cardinality(Of(Waiting', p)) = Cardinality(Of(Waiting, p)) + one(a, p)
      BY <2>1, <2>3
    <3>4. CASE p = PrincipalOf[a]  BY <1>1, <1>4, <2>2, <3>1, <3>2, <3>3, <3>4
    <3>5. CASE p # PrincipalOf[a]  BY <1>1, <1>4, <3>1, <3>2, <3>3, <3>5
    <3> QED  BY <3>4, <3>5
  <2>6. /\ reserved' = Cardinality(Waiting')
        /\ Cardinality(conns') + reserved' <= MaxConnections
    BY <1>1, <1>2, <1>4, <2>1, <2>2 DEF SlotCounts
  <2> QED  BY <1>4, <2>1, <2>4, <2>5, <2>6 DEF SlotCounts
<1>5. ASSUME NEW a \in Asks, Minted(a), Waiting' = Waiting \ {a}, Releases(a),
             conns' = conns \/ (a \notin conns /\ conns' = conns \cup {a})
      PROVE  SlotCounts'
  <2>1. /\ IsFiniteSet(Waiting') /\ Cardinality(Waiting') = Cardinality(Waiting) - 1
        /\ \A p : Cardinality(Of(Waiting', p)) = Cardinality(Of(Waiting, p)) - one(a, p)
    <3>1. a \in Waiting  BY <1>5 DEF Waiting
    <3> QED  BY <3>1, <1>5, OneLess DEF SlotCounts
  <2>2. Cardinality(Waiting') \in Nat /\ \A p : Cardinality(Of(Waiting', p)) \in Nat
    BY <2>1, Numbers
  <2>3. /\ IsFiniteSet(conns') /\ Cardinality(conns') <= Cardinality(conns) + 1
        /\ \A p : Cardinality(Of(conns', p)) <= Cardinality(Of(conns, p)) + one(a, p)
    <3>1. CASE conns' = conns  BY <1>2, <3>1 DEF SlotCounts
    <3>2. CASE a \notin conns /\ conns' = conns \cup {a}
      <4>1. IsFiniteSet(conns)  BY DEF SlotCounts
      <4>2. /\ IsFiniteSet(conns')
            /\ Cardinality(conns') = Cardinality(conns) + 1
            /\ \A p : Cardinality(Of(conns', p)) = Cardinality(Of(conns, p)) + one(a, p)
        BY <3>2, <4>1, OneMore
      <4>3. Cardinality(conns') <= Cardinality(conns) + 1  BY <1>2, <4>2
      <4>4. ASSUME NEW p
            PROVE  Cardinality(Of(conns', p)) <= Cardinality(Of(conns, p)) + one(a, p)
        <5>1. Cardinality(Of(conns, p)) \in Nat  BY <1>2
        <5>2. Cardinality(Of(conns', p)) = Cardinality(Of(conns, p)) + one(a, p)  BY <4>2
        <5> QED  BY <5>1, <5>2
      <4> QED  BY <4>2, <4>3, <4>4
    <3> QED  BY <1>5, <3>1, <3>2
  <2>4. Cardinality(conns') \in Nat /\ \A p : Cardinality(Of(conns', p)) \in Nat
    BY <2>3, Numbers
  <2>5. PrincipalOf[a] \in Principals  BY DEF Principals
  <2>6. \A p \in Principals : reservedBy'[p] = reservedBy[p] - one(a, p)
    BY <1>5 DEF SlotCounts, Releases
  <2>7. \A p \in Principals : reservedBy'[p] = Cardinality(Of(Waiting', p))
    BY <1>2, <2>1, <2>6 DEF SlotCounts
  <2>8. reservedBy' \in [Principals -> Nat]
    BY <1>5, <2>2, <2>5, <2>7 DEF SlotCounts, Releases
  <2>9. ASSUME NEW p \in Principals
        PROVE  Cardinality(Of(conns', p)) + reservedBy'[p] <= per_principal'
    BY <1>1, <1>2, <2>2, <2>3, <2>4, <2>6, <2>7 DEF SlotCounts
  <2>10. /\ reserved' = Cardinality(Waiting')
         /\ Cardinality(conns') + reserved' <= MaxConnections
    BY <1>1, <1>2, <1>5, <2>1, <2>3, <2>4 DEF SlotCounts, Releases
  <2> QED  BY <2>1, <2>3, <2>7, <2>8, <2>9, <2>10 DEF SlotCounts
<1> QED  BY <1>3, <1>4, <1>5, SlotMove DEF SlotsMove

-----------------------------------------------------------------------------
(* How a step changes where threads are and what they still visit, as far  *)
(* as the records and the wire are concerned.                              *)
PlacesMove ==
  /\ \A b \in Asks :
       /\ version'[b] = Unavailable \/ Minted(b)' => version[b] = Unavailable \/ Minted(b)
       /\ pc'[b] = "issue" => pc[b] = "issue" \/ b \in conns' \ conns
       /\ version'[b] # Unavailable /\ ~ Minted(b)' /\ pc'[b] \notin {"issue", "done"} =>
            /\ version[b] # Unavailable /\ ~ Minted(b) /\ pc[b] # "done"
            /\ pc[b] = "issue" => Issues(b)
       /\ pc[b] = "issue" => pc'[b] = "issue" \/ Issues(b)
       /\ version'[b] = Unavailable \/ pc'[b] \in {"append", "deliver"} =>
            version[b] = Unavailable \/ pc[b] \in {"append", "deliver"}
       /\ pc'[b] = "open" =>
            pc[b] = "open" \/ (pc[b] = "deliver" /\ wire'[b] = Append(wire[b], "decision"))
  /\ \A t \in Threads : todo'[t] \subseteq todo[t] \cup conns

(* So does every step.                                                     *)
LEMMA PlaceMove ==
  ASSUME GrantShape, PlaceTypes, LoadTypes, VersionTypes, TodoTypes, RegistryTypes, WireTypes,
         [Next]_vars
  PROVE  PlacesMove
<1>1. ASSUME NEW a \in Asks, Arrives(a) PROVE PlacesMove
  BY <1>1, GrantsAssumption DEF Arrives, At, Goes, policyVars, slotVars, grantVars,
     wireVars, threadVars, registryVars, PlacesMove, Minted, PlaceTypes, LoadTypes,
     VersionTypes, TodoTypes, RegistryTypes, Loading, NoLoad, Threads, GrantShape
<1>2. ASSUME NEW a \in Asks, Reloads(a) PROVE PlacesMove
  BY <1>2, GrantsAssumption DEF Reloads, At, Goes, Loads, policyVars, slotVars,
     grantVars, wireVars, threadVars, registryVars, PlacesMove, Minted, PlaceTypes,
     LoadTypes, VersionTypes, TodoTypes, RegistryTypes, Loading, NoLoad, Threads,
     GrantShape
<1>3. ASSUME NEW a \in Asks, Compares(a) PROVE PlacesMove
  BY <1>3, GrantsAssumption DEF Compares, At, Goes, Returned, policyVars, slotVars,
     grantVars, wireVars, threadVars, registryVars, PlacesMove, Minted, PlaceTypes,
     LoadTypes, VersionTypes, TodoTypes, RegistryTypes, Loading, NoLoad, Threads,
     GrantShape
<1>4. ASSUME NEW a \in Asks, Announces(a) PROVE PlacesMove
  BY <1>4, GrantsAssumption DEF Announces, At, Goes, Visits, Returned, policyVars,
     slotVars, grantVars, wireVars, threadVars, registryVars, PlacesMove, Minted,
     PlaceTypes, LoadTypes, VersionTypes, TodoTypes, RegistryTypes, Loading, NoLoad,
     Threads, GrantShape
<1>5. ASSUME NEW a \in Asks, Ticks(a) PROVE PlacesMove
  BY <1>5, GrantsAssumption DEF Ticks, At, Goes, Visits, SweptAt, AfterSweep,
     policyVars, slotVars, grantVars, wireVars, threadVars, registryVars, PlacesMove,
     Minted, PlaceTypes, LoadTypes, VersionTypes, TodoTypes, RegistryTypes, Loading,
     NoLoad, Threads, GrantShape
<1>6. ASSUME NEW a \in Asks, NEW c \in Asks, AnnouncesTo(a, c) PROVE PlacesMove
  BY <1>6, GrantsAssumption DEF AnnouncesTo, At, Goes, End, Visits, Returned,
     policyVars, slotVars, grantVars, wireVars, threadVars, registryVars, PlacesMove,
     Minted, PlaceTypes, LoadTypes, VersionTypes, TodoTypes, RegistryTypes, Loading,
     NoLoad, Threads, GrantShape
<1>7. ASSUME NEW a \in Asks, NEW c \in Asks, TicksOn(a, c) PROVE PlacesMove
  BY <1>7, GrantsAssumption DEF TicksOn, At, Goes, End, Beats, Lose, Visits, SweptAt,
     AfterSweep, policyVars, slotVars, grantVars, wireVars, threadVars, registryVars,
     PlacesMove, Minted, PlaceTypes, LoadTypes, VersionTypes, TodoTypes,
     RegistryTypes, Loading, NoLoad, Threads, GrantShape
<1>8. ASSUME NEW a \in Asks, Admits(a) PROVE PlacesMove
  BY <1>8, GrantsAssumption DEF Admits, At, Goes, Loads, policyVars, slotVars,
     grantVars, wireVars, threadVars, registryVars, PlacesMove, Minted, PlaceTypes,
     LoadTypes, VersionTypes, TodoTypes, RegistryTypes, Loading, NoLoad, Threads,
     GrantShape
<1>9. ASSUME NEW a \in Asks, Decides(a) PROVE PlacesMove
  BY <1>9, GrantsAssumption DEF Decides, At, Goes, Answered, policyVars, slotVars,
     grantVars, wireVars, threadVars, registryVars, PlacesMove, Minted, PlaceTypes,
     LoadTypes, VersionTypes, TodoTypes, RegistryTypes, Loading, NoLoad, Threads,
     GrantShape
<1>10. ASSUME NEW a \in Asks, Appends(a) PROVE PlacesMove
  BY <1>10, GrantsAssumption DEF Appends, At, Goes, policyVars, slotVars, grantVars,
     wireVars, threadVars, registryVars, PlacesMove, Minted, PlaceTypes, LoadTypes,
     VersionTypes, TodoTypes, RegistryTypes, Loading, NoLoad, Threads, GrantShape
<1>11. ASSUME NEW a \in Asks, Delivers(a) PROVE PlacesMove
  <2>1. pc[a] = "deliver" /\ UNCHANGED <<version, conns, todo>>
    BY <1>11, GrantsAssumption DEF Delivers, At, grantVars
  <2>2. \/ /\ pc' = [pc EXCEPT ![a] = "open"]
           /\ wire' = [wire EXCEPT ![a] = Append(@, "decision")]
        \/ pc' = [pc EXCEPT ![a] = "done"]
    BY <1>11, GrantsAssumption DEF Delivers, Goes, Cancels
  <2>3. a \in Threads /\ a \in DOMAIN pc /\ a \in DOMAIN wire
    BY DEF Threads, PlaceTypes, WireTypes
  <2>4. CASE /\ pc' = [pc EXCEPT ![a] = "open"]
             /\ wire' = [wire EXCEPT ![a] = Append(@, "decision")]
    BY <2>1, <2>3, <2>4, GrantsAssumption DEF PlacesMove, Minted, GrantShape,
     Threads, PlaceTypes
  <2>5. CASE pc' = [pc EXCEPT ![a] = "done"]
    BY <2>1, <2>3, <2>5, GrantsAssumption DEF PlacesMove, Minted, GrantShape,
     Threads, PlaceTypes
  <2> QED  BY <2>2, <2>4, <2>5
<1>12. ASSUME NEW a \in Asks, Opens(a) PROVE PlacesMove
  BY <1>12, GrantsAssumption DEF Opens, At, Goes, Releases, policyVars, slotVars,
     grantVars, wireVars, threadVars, registryVars, PlacesMove, Minted, PlaceTypes,
     LoadTypes, VersionTypes, TodoTypes, RegistryTypes, Loading, NoLoad, Threads,
     GrantShape
<1>13. ASSUME NEW a \in Asks, Issues(a) PROVE PlacesMove
  BY <1>13, GrantsAssumption DEF Issues, At, Goes, policyVars, slotVars, grantVars,
     wireVars, threadVars, registryVars, PlacesMove, Minted, PlaceTypes, LoadTypes,
     VersionTypes, TodoTypes, RegistryTypes, Loading, NoLoad, Threads, GrantShape
<1>14. ASSUME NEW a \in Asks, Arrested(a) PROVE PlacesMove
  BY <1>14, GrantsAssumption DEF Arrested, At, Goes, End, policyVars, slotVars,
     grantVars, wireVars, threadVars, registryVars, PlacesMove, Minted, PlaceTypes,
     LoadTypes, VersionTypes, TodoTypes, RegistryTypes, Loading, NoLoad, Threads,
     GrantShape
<1>15. ASSUME NEW a \in Asks, Rechecks(a) PROVE PlacesMove
  BY <1>15, GrantsAssumption DEF Rechecks, At, Goes, policyVars, slotVars, grantVars,
     wireVars, threadVars, registryVars, PlacesMove, Minted, PlaceTypes, LoadTypes,
     VersionTypes, TodoTypes, RegistryTypes, Loading, NoLoad, Threads, GrantShape
<1>16. ASSUME NEW a \in Asks, Rereads(a) PROVE PlacesMove
  BY <1>16, GrantsAssumption DEF Rereads, At, Goes, policyVars, slotVars, grantVars,
     wireVars, threadVars, registryVars, PlacesMove, Minted, PlaceTypes, LoadTypes,
     VersionTypes, TodoTypes, RegistryTypes, Loading, NoLoad, Threads, GrantShape
<1>17. ASSUME NEW a \in Asks, BeginsToHold(a) PROVE PlacesMove
  BY <1>17, GrantsAssumption DEF BeginsToHold, At, Goes, policyVars, slotVars,
     grantVars, wireVars, threadVars, registryVars, PlacesMove, Minted, PlaceTypes,
     LoadTypes, VersionTypes, TodoTypes, RegistryTypes, Loading, NoLoad, Threads,
     GrantShape
<1>18. ASSUME NEW a \in Asks, Holds(a) PROVE PlacesMove
  BY <1>18, GrantsAssumption DEF Holds, At, Goes, LetsGo, RunsOut, Readable, Wakes,
     End, Lose, policyVars, slotVars, grantVars, wireVars, threadVars, registryVars,
     PlacesMove, Minted, PlaceTypes, LoadTypes, VersionTypes, TodoTypes,
     RegistryTypes, Loading, NoLoad, Threads, GrantShape
<1>19. ASSUME NEW a \in Asks, Finishes(a) PROVE PlacesMove
  BY <1>19, GrantsAssumption DEF Finishes, At, Goes, Lose, policyVars, slotVars,
     grantVars, wireVars, threadVars, registryVars, PlacesMove, Minted, PlaceTypes,
     LoadTypes, VersionTypes, TodoTypes, RegistryTypes, Loading, NoLoad, Threads,
     GrantShape
<1>20. ASSUME NEW a \in Asks, Closes(a) PROVE PlacesMove
  BY <1>20, GrantsAssumption DEF Closes, At, policyVars, slotVars, grantVars,
     wireVars, threadVars, registryVars, PlacesMove, Minted, PlaceTypes, LoadTypes,
     VersionTypes, TodoTypes, RegistryTypes, Loading, NoLoad, Threads, GrantShape
<1>21. ASSUME NEW t \in Threads, Records(t) PROVE PlacesMove
  BY <1>21, GrantsAssumption DEF Records, policyVars, slotVars, grantVars, wireVars,
     threadVars, registryVars, PlacesMove, Minted, PlaceTypes, LoadTypes,
     VersionTypes, TodoTypes, RegistryTypes, Loading, NoLoad, Threads, GrantShape
<1>22. ASSUME StopsAll PROVE PlacesMove
  BY <1>22, GrantsAssumption DEF StopsAll, At, Goes, Visits, policyVars, slotVars,
     grantVars, wireVars, threadVars, registryVars, PlacesMove, Minted, PlaceTypes,
     LoadTypes, VersionTypes, TodoTypes, RegistryTypes, Loading, NoLoad, Threads,
     GrantShape
<1>23. ASSUME NEW c \in Asks, StopsOne(c) PROVE PlacesMove
  BY <1>23, GrantsAssumption DEF StopsOne, At, Goes, End, Visits, policyVars,
     slotVars, grantVars, wireVars, threadVars, registryVars, PlacesMove, Minted,
     PlaceTypes, LoadTypes, VersionTypes, TodoTypes, RegistryTypes, Loading, NoLoad,
     Threads, GrantShape
<1>24. ASSUME TimePasses PROVE PlacesMove
  BY <1>24, GrantsAssumption DEF TimePasses, policyVars, slotVars, grantVars,
     wireVars, threadVars, registryVars, PlacesMove, Minted, PlaceTypes, LoadTypes,
     VersionTypes, TodoTypes, RegistryTypes, Loading, NoLoad, Threads, GrantShape
<1>25. ASSUME Edits PROVE PlacesMove
  BY <1>25, GrantsAssumption DEF Edits, policyVars, slotVars, grantVars, wireVars,
     threadVars, registryVars, PlacesMove, Minted, PlaceTypes, LoadTypes,
     VersionTypes, TodoTypes, RegistryTypes, Loading, NoLoad, Threads, GrantShape
<1>26. ASSUME Stops PROVE PlacesMove
  BY <1>26, GrantsAssumption DEF Stops, At, Goes, policyVars, slotVars, grantVars,
     wireVars, threadVars, registryVars, PlacesMove, Minted, PlaceTypes, LoadTypes,
     VersionTypes, TodoTypes, RegistryTypes, Loading, NoLoad, Threads, GrantShape
<1>27. ASSUME NEW a \in Asks, Refuses(a) PROVE PlacesMove
  BY <1>27, GrantsAssumption DEF Refuses, At, Goes, Answered, policyVars, slotVars,
     grantVars, wireVars, threadVars, registryVars, PlacesMove, Minted, PlaceTypes,
     LoadTypes, VersionTypes, TodoTypes, RegistryTypes, Loading, NoLoad, Threads,
     GrantShape
<1>28. ASSUME NEW a \in Asks, AppendFails(a) PROVE PlacesMove
  BY <1>28, GrantsAssumption DEF AppendFails, At, Goes, Cancels, Releases,
     policyVars, slotVars, grantVars, wireVars, threadVars, registryVars, PlacesMove,
     Minted, PlaceTypes, LoadTypes, VersionTypes, TodoTypes, RegistryTypes, Loading,
     NoLoad, Threads, GrantShape
<1>29. ASSUME NEW a \in Asks, PeerActs(a) PROVE PlacesMove
  BY <1>29, GrantsAssumption DEF PeerActs, policyVars, slotVars, grantVars, wireVars,
     threadVars, registryVars, PlacesMove, Minted, PlaceTypes, LoadTypes,
     VersionTypes, TodoTypes, RegistryTypes, Loading, NoLoad, Threads, GrantShape
<1>30. CASE UNCHANGED vars
  BY <1>30, GrantsAssumption DEF vars, policyVars, slotVars, grantVars, wireVars,
     threadVars, registryVars, PlacesMove, Minted, PlaceTypes, LoadTypes,
     VersionTypes, TodoTypes, RegistryTypes, Loading, NoLoad, Threads, GrantShape
<1> QED
  BY <1>1, <1>2, <1>3, <1>4, <1>5, <1>6, <1>7, <1>8, <1>9, <1>10, <1>11, <1>12,
     <1>13, <1>14, <1>15, <1>16, <1>17, <1>18, <1>19, <1>20, <1>21, <1>22, <1>23,
     <1>24, <1>25, <1>26, <1>27, <1>28, <1>29, <1>30, StepCases

-----------------------------------------------------------------------------
(* How a step changes the live grants, their records and their wires: not  *)
(* at all, or a grant is popped, a heartbeat or a decision written, an     *)
(* ending or an issue recorded, a grant registered.                        *)
Pops(t, c, r, told) ==
  /\ c \in conns /\ ending[t] = NoOne
  /\ conns' = conns \ {c}
  /\ ending' = [ending EXCEPT ![t] = [grant |-> c, reason |-> r, told |-> told]]
  /\ wire' = IF told THEN [wire EXCEPT ![c] = Append(@, r)] ELSE wire
  /\ UNCHANGED events

Writes(c, frames) ==
  /\ wire' = [wire EXCEPT ![c] = frames]
  /\ UNCHANGED <<conns, ending, events>>

EndsMove ==
  \/ UNCHANGED <<conns, ending, events, wire>>
  \/ \E t \in Threads, c \in Asks, r \in Reasons, told \in BOOLEAN :
       (told => r \in Signals) /\ Pops(t, c, r, told)
  \/ \E c \in Asks : (\E t \in Threads : c \in todo[t]) /\ Writes(c, Beaten(wire[c]))
  \/ \E c \in Asks : pc[c] = "deliver" /\ pc'[c] = "open" /\ Writes(c, Append(wire[c], "decision"))
  \/ \E t \in Threads : Records(t)
  \/ \E a \in Asks : Issues(a) \/ Opens(a)

(* Ending a grant, or losing it, pops it or does nothing.                  *)
LEMMA EndPops ==
  ASSUME NEW t \in Threads, NEW c \in Asks, ending[t] = NoOne,
         (\E r \in Signals : End(t, c, r)) \/ (\E r \in Reasons : Lose(t, c, r))
  PROVE  EndsMove
<1>1. ASSUME NEW r \in Signals, End(t, c, r) PROVE EndsMove
  <2>1. CASE c \in conns
    <3>1. PICK sent \in Carries(c) :
            /\ conns' = conns \ {c}
            /\ wire' = IF sent THEN [wire EXCEPT ![c] = Append(@, r)] ELSE wire
            /\ ending' = [ending EXCEPT ![t] = [grant |-> c, reason |-> r, told |-> sent]]
      BY <1>1, <2>1 DEF End
    <3>2. sent \in BOOLEAN /\ r \in Reasons  BY <3>1 DEF Carries, Reasons
    <3>3. events' = events  BY <1>1 DEF End
    <3>4. Pops(t, c, r, sent)  BY <2>1, <3>1, <3>3 DEF Pops
    <3> QED  BY <3>2, <3>4 DEF EndsMove
  <2>2. CASE c \notin conns
    BY <1>1, <2>2 DEF End, EndsMove
  <2> QED  BY <2>1, <2>2
<1>2. ASSUME NEW r \in Reasons, Lose(t, c, r) PROVE EndsMove
  <2>1. CASE c \in conns
    <3>1. Pops(t, c, r, FALSE)  BY <1>2, <2>1 DEF Lose, Pops
    <3> QED  BY <3>1 DEF EndsMove
  <2>2. CASE c \notin conns
    BY <1>2, <2>2 DEF Lose, EndsMove
  <2> QED  BY <2>1, <2>2
<1> QED  BY <1>1, <1>2

(* So does every step.                                                     *)
LEMMA EndMove ==
  ASSUME PlaceTypes,
         [Next]_vars
  PROVE  EndsMove
<1>1. ASSUME NEW a \in Asks, NEW c \in Asks, AnnouncesTo(a, c) PROVE EndsMove
  <2>1. End(a, c, "policy_version_changed") /\ a \in Threads /\ ending[a] = NoOne
    BY <1>1 DEF AnnouncesTo, At, Threads
  <2> QED  BY <2>1, EndPops DEF Signals
<1>2. ASSUME NEW a \in Asks, NEW c \in Asks, TicksOn(a, c) PROVE EndsMove
  <2>1. a \in Threads /\ ending[a] = NoOne /\ c \in todo[a]
    BY <1>2 DEF TicksOn, At, Threads
  <2>2. \/ UNCHANGED registryVars \/ Writes(c, Beaten(wire[c]))
        \/ End(a, c, "expired") \/ Lose(a, c, "connection_lost")
    BY <1>2 DEF TicksOn, Beats, Writes
  <2>3. CASE UNCHANGED registryVars  BY <2>3 DEF EndsMove, registryVars, wireVars
  <2>4. CASE Writes(c, Beaten(wire[c]))  BY <2>1, <2>4 DEF EndsMove
  <2> QED  BY <2>1, <2>2, <2>3, <2>4, EndPops DEF Reasons, Signals
<1>3. ASSUME NEW a \in Asks, Delivers(a) PROVE EndsMove
  <2>1. a \in Threads /\ pc[a] = "deliver" /\ UNCHANGED <<conns, ending, events>>
    BY <1>3 DEF Delivers, At, Threads
  <2>2. \/ wire' = wire
        \/ wire' = [wire EXCEPT ![a] = Append(@, "decision")] /\ pc'[a] = "open"
    BY <1>3, <2>1 DEF Delivers, Goes, PlaceTypes
  <2> QED  BY <2>1, <2>2 DEF EndsMove, Writes
<1>4. ASSUME NEW a \in Asks, Opens(a) PROVE EndsMove
  BY <1>4 DEF EndsMove
<1>5. ASSUME NEW a \in Asks, Issues(a) PROVE EndsMove
  BY <1>5 DEF EndsMove
<1>6. ASSUME NEW a \in Asks, Arrested(a) PROVE EndsMove
  <2>1. End(a, a, "daemon_stopping") /\ a \in Threads /\ ending[a] = NoOne
    BY <1>6 DEF Arrested, At, Threads
  <2> QED  BY <2>1, EndPops DEF Signals
<1>7. ASSUME NEW a \in Asks, Holds(a) PROVE EndsMove
  <2>1. a \in Threads /\ ending[a] = NoOne
    BY <1>7 DEF Holds, LetsGo, RunsOut, Readable, Wakes, At, Threads
  <2>2. \/ UNCHANGED registryVars
        \/ End(a, a, "expired") \/ Lose(a, a, "peer_wrote_on_the_stream")
    BY <1>7 DEF Holds, LetsGo, RunsOut, Readable, Wakes
  <2>3. CASE UNCHANGED registryVars  BY <2>3 DEF EndsMove, registryVars, wireVars
  <2> QED  BY <2>1, <2>2, <2>3, EndPops DEF Reasons, Signals
<1>8. ASSUME NEW a \in Asks, Finishes(a) PROVE EndsMove
  <2>1. Lose(a, a, "connection_lost") /\ a \in Threads /\ ending[a] = NoOne
    BY <1>8 DEF Finishes, At, Threads
  <2> QED  BY <2>1, EndPops DEF Reasons
<1>9. ASSUME NEW t \in Threads, Records(t) PROVE EndsMove
  BY <1>9 DEF EndsMove
<1>10. ASSUME NEW c \in Asks, StopsOne(c) PROVE EndsMove
  <2>1. End(Stop, c, "daemon_stopping") /\ Stop \in Threads /\ ending[Stop] = NoOne
    BY <1>10 DEF StopsOne, At, Threads
  <2> QED  BY <2>1, EndPops DEF Signals
<1>11. CASE UNCHANGED <<conns, ending, events, wire>>
  BY <1>11 DEF EndsMove, policyVars, slotVars
<1> QED
  BY <1>1, <1>2, <1>3, <1>4, <1>5, <1>6, <1>7, <1>8, <1>9, <1>10, <1>11, Writers DEF
     Written

-----------------------------------------------------------------------------
(* A record that gains an issue, or an ending.                             *)
LEMMA IssueRecorded ==
  ASSUME EventTypes, NEW a \in Asks, events' = [events EXCEPT ![a] = Append(@, "issued")]
  PROVE  /\ events'[a] # <<>> /\ \A b \in Asks : EndsOf(b)' = EndsOf(b)
         /\ \A b \in Asks : \A i \in EndsOf(b) : events'[b][i] = events[b][i]
         /\ \A b \in Asks : b # a => events'[b] = events[b]
<1>1. events[a] \in Seq(Reasons \cup {"issued"})  BY DEF EventTypes
<1>2. events'[a] = Append(events[a], "issued") /\ \A b \in Asks : b # a => events'[b] = events[b]
  BY DEF EventTypes
<1>3. /\ Len(events'[a]) = Len(events[a]) + 1 /\ events'[a][Len(events[a]) + 1] = "issued"
      /\ DOMAIN events[a] = 1..Len(events[a]) /\ DOMAIN events'[a] = 1..(Len(events[a]) + 1)
      /\ \A i \in 1..Len(events[a]) : events'[a][i] = events[a][i]
      /\ Len(events[a]) \in Nat
  BY <1>1, <1>2
<1>4. EndsOf(a)' = EndsOf(a) /\ \A i \in EndsOf(a) : events'[a][i] = events[a][i]
  BY <1>3 DEF EndsOf
<1>5. events'[a] # <<>>  BY <1>1, <1>2
<1> QED  BY <1>2, <1>4, <1>5 DEF EndsOf

(* The ending recorded is the one the thread popped.                       *)
LEMMA EndRecorded ==
  ASSUME EventTypes, EndingTypes, NEW t \in Threads, Records(t),
         NEW g \in Asks, ending[t].grant = g
  PROVE  /\ events'[g] # <<>>
         /\ EndsOf(g)' = EndsOf(g) \cup {Len(events[g]) + 1}
         /\ events'[g][Len(events[g]) + 1] = ending[t].reason
         /\ \A i \in EndsOf(g) : events'[g][i] = events[g][i]
         /\ \A b \in Asks : b # g => events'[b] = events[b]
         /\ ending' = [ending EXCEPT ![t] = NoOne]
<1> DEFINE r == ending[t].reason
           n == Len(events[g]) + 1
<1>1. r \in Reasons /\ r # "issued"
  BY GrantsAssumption DEF EndingTypes, EndingShape, Reasons, Signals, NoOne, Threads
<1>2. /\ events' = [events EXCEPT ![g] = Append(@, r)]
      /\ ending' = [ending EXCEPT ![t] = NoOne]
  BY DEF Records
<1> HIDE DEF r
<1>3. events[g] \in Seq(Reasons \cup {"issued"})  BY DEF EventTypes
<1>4. events'[g] = Append(events[g], r) /\ \A b \in Asks : b # g => events'[b] = events[b]
  BY <1>2 DEF EventTypes
<1>5. /\ Len(events'[g]) = n /\ events'[g][n] = r /\ n \in Nat
      /\ DOMAIN events[g] = 1..(n - 1) /\ DOMAIN events'[g] = 1..n
      /\ \A i \in 1..(n - 1) : events'[g][i] = events[g][i]
  BY <1>1, <1>3, <1>4
<1>6. EndsOf(g)' = EndsOf(g) \cup {n} /\ \A i \in EndsOf(g) : events'[g][i] = events[g][i]
  BY <1>1, <1>5 DEF EndsOf
<1>7. events'[g] # <<>>  BY <1>1, <1>3, <1>4
<1> QED  BY <1>2, <1>4, <1>5, <1>6, <1>7 DEF r

-----------------------------------------------------------------------------
(* Who ends what after a pop.                                              *)
LEMMA Popped ==
  ASSUME EndingTypes, NEW t \in Threads, NEW c \in Asks, NEW r \in Reasons, NEW told \in BOOLEAN,
         Pops(t, c, r, told)
  PROVE  \A u \in Threads, b \in Asks :
           /\ Ends(u, b)' <=> Ends(u, b) \/ (u = t /\ b = c)
           /\ Ends(u, b) => ending'[u] = ending[u]
           /\ ending'[t].reason = r
<1>1. ending' = [ending EXCEPT ![t] = [grant |-> c, reason |-> r, told |-> told]]
      /\ ending[t].grant = Nobody
  BY DEF Pops, NoOne
<1>2. \A u \in Threads : ending'[u] = IF u = t THEN [grant |-> c, reason |-> r, told |-> told]
                                              ELSE ending[u]
  BY <1>1 DEF EndingTypes
<1> QED  BY <1>1, <1>2, GrantsAssumption DEF Ends, Threads

(* Records stay right.                                                     *)
LEMMA RecordStep ==
  ASSUME EndShape, GrantShape, PlaceTypes, VersionTypes, EventTypes, EndingTypes, RegistryTypes,
         PlacesMove, EndsMove, GrantShape'
  PROVE  EndShape'
<1> SUFFICES ASSUME NEW b \in Asks PROVE RecordShape(b)'
  BY DEF EndShape
<1>s. RecordShape(b)  BY DEF EndShape
<1>p. /\ version'[b] = Unavailable \/ Minted(b)' => version[b] = Unavailable \/ Minted(b)
      /\ pc'[b] = "issue" => pc[b] = "issue" \/ b \in conns' \ conns
      /\ version'[b] # Unavailable /\ ~ Minted(b)' /\ pc'[b] \notin {"issue", "done"} =>
           /\ version[b] # Unavailable /\ ~ Minted(b) /\ pc[b] # "done"
           /\ pc[b] = "issue" => Issues(b)
      /\ pc[b] = "issue" => pc'[b] = "issue" \/ Issues(b)
  BY DEF PlacesMove
<1>i. ASSUME events' = events PROVE ~ Issues(b)
  <2>1. ASSUME Issues(b) PROVE FALSE
    <3>1. events'[b] = Append(events[b], "issued") /\ events[b] \in Seq(Reasons \cup {"issued"})
      BY <2>1 DEF Issues, EventTypes
    <3>2. Len(events'[b]) = Len(events[b]) + 1 /\ Len(events[b]) \in Nat  BY <3>1
    <3> QED  BY <1>i, <3>2
  <2> QED  BY <2>1
<1>v. ASSUME pc'[b] \in {"arrested", "recheck", "again", "watch", "hold"}
      PROVE  version'[b] # Unavailable /\ ~ Minted(b)'
  BY <1>v DEF GrantShape, Minted
<1>w. ASSUME pc[b] \in {"arrested", "recheck", "again", "watch", "hold"}
      PROVE  events[b] # <<>>
  BY <1>s, <1>w DEF GrantShape, Minted, RecordShape
<1>1. CASE UNCHANGED <<conns, ending, events>>
  <2>1. /\ Ended(b)' = Ended(b) /\ EndsOf(b)' = EndsOf(b)
        /\ \A t \in Threads : Ends(t, b)' = Ends(t, b)
    BY <1>1 DEF Ended, EndsOf, Ends
  <2> QED  BY <1>s, <1>p, <1>i, <1>v, <1>w, <1>1, <2>1 DEF RecordShape, Registered
<1>2. ASSUME NEW t \in Threads, NEW c \in Asks, NEW r \in Reasons, NEW told \in BOOLEAN,
             Pops(t, c, r, told)
      PROVE  RecordShape(b)'
  <2>1. /\ Ended(b)' = Ended(b) /\ EndsOf(b)' = EndsOf(b) /\ events' = events
        /\ c \in conns /\ conns' = conns \ {c}
    BY <1>2 DEF Pops, Ended, EndsOf
  <2>2. \A u \in Threads : Ends(u, b)' <=> Ends(u, b) \/ (u = t /\ b = c)
    BY <1>2, Popped
  <2>3. CASE b = c
    BY <1>s, <1>p, <1>i, <1>v, <1>w, <2>1, <2>2, <2>3 DEF RecordShape, Registered
  <2>4. CASE b # c
    BY <1>s, <1>p, <1>i, <1>v, <1>w, <2>1, <2>2, <2>4 DEF RecordShape, Registered
  <2> QED  BY <2>3, <2>4
<1>3. ASSUME NEW t \in Threads, Records(t) PROVE RecordShape(b)'
  <2>1. PICK g \in Asks : g = ending[t].grant
    BY <1>3 DEF Records, EndingTypes, EndingShape
  <2>2. /\ events'[g] # <<>>
        /\ EndsOf(g)' = EndsOf(g) \cup {Len(events[g]) + 1}
        /\ \A d \in Asks : d # g => events'[d] = events[d]
        /\ ending' = [ending EXCEPT ![t] = NoOne]
    BY <1>3, <2>1, EndRecorded
  <2>3. UNCHANGED <<conns, pc, version>>  BY <1>3 DEF Records, grantVars, threadVars
  <2>4. \A u \in Threads : ending'[u] = IF u = t THEN NoOne ELSE ending[u]
    BY <2>2 DEF EndingTypes
  <2>5. \A u \in Threads, d \in Asks : Ends(u, d)' <=> Ends(u, d) /\ u # t
    BY <2>4, GrantsAssumption DEF Ends, NoOne, Threads
  <2>6. CASE b = g
    <3>1. Ends(t, b) /\ ~ Ended(b) /\ Ended(b)'
      BY <1>s, <2>1, <2>2, <2>6 DEF Ends, Ended, RecordShape
    <3>2. \A i, j \in EndsOf(b)' : i = j  BY <2>2, <2>6, <3>1 DEF Ended
    <3>3. version[b] # Unavailable /\ ~ Minted(b)
      BY <1>s, <3>1 DEF RecordShape, Registered, GrantShape, Minted
    <3>4. b \notin conns /\ \A u \in Threads : ~ Ends(u, b)'
      BY <1>s, <2>5, <3>1 DEF RecordShape
    <3> QED  BY <2>2, <2>3, <2>6, <3>1, <3>2, <3>3, <3>4 DEF RecordShape, Minted, Registered
  <2>7. CASE b # g
    <3>1. Ended(b)' = Ended(b) /\ EndsOf(b)' = EndsOf(b) /\ events'[b] = events[b]
      BY <2>2, <2>7 DEF EndsOf, Ended
    <3>2. \A u \in Threads : Ends(u, b)' <=> Ends(u, b)
      BY <2>1, <2>5, <2>7 DEF Ends
    <3> QED  BY <1>s, <2>3, <3>1, <3>2 DEF RecordShape, Minted, Registered
  <2> QED  BY <2>6, <2>7
<1>4. ASSUME NEW a \in Asks, Issues(a) PROVE RecordShape(b)'
  <2>1. /\ events' = [events EXCEPT ![a] = Append(@, "issued")] /\ pc[a] = "issue"
        /\ pc' = [pc EXCEPT ![a] = IF sawStop[a] THEN "arrested" ELSE "recheck"]
        /\ UNCHANGED <<conns, ending, version>>
    BY <1>4 DEF Issues, At, Goes, grantVars
  <2>2. /\ EndsOf(b)' = EndsOf(b) /\ (b = a => events'[b] # <<>>)
        /\ b # a => events'[b] = events[b]
    BY <2>1, IssueRecorded
  <2>3. Ended(b)' = Ended(b) /\ \A t \in Threads : Ends(t, b)' = Ends(t, b)
    BY <2>1, <2>2 DEF Ended, Ends
  <2>4. pc'[b] = IF b = a THEN IF sawStop[a] THEN "arrested" ELSE "recheck" ELSE pc[b]
    BY <2>1 DEF PlaceTypes, Threads
  <2>5. CASE b = a
    <3>1. version[b] # Unavailable /\ Registered(b) /\ Registered(b)'
      BY <2>1, <2>2, <2>5 DEF Registered, GrantShape
    <3> QED  BY <1>s, <2>1, <2>2, <2>3, <2>4, <2>5, <3>1 DEF RecordShape, Minted
  <2>6. CASE b # a
    BY <1>s, <2>1, <2>2, <2>3, <2>4, <2>6 DEF RecordShape, Minted, Registered
  <2> QED  BY <2>5, <2>6
<1>5. ASSUME NEW a \in Asks, Opens(a) PROVE RecordShape(b)'
  <2>1. /\ pc[a] = "open" /\ pc' = [pc EXCEPT ![a] = "issue"] /\ conns' = conns \cup {a}
        /\ UNCHANGED <<events, ending, version>>
    BY <1>5 DEF Opens, At, Goes, wireVars
  <2>2. pc'[b] = IF b = a THEN "issue" ELSE pc[b]
    BY <2>1 DEF PlaceTypes, Threads
  <2>3. /\ Ended(b)' = Ended(b) /\ EndsOf(b)' = EndsOf(b)
        /\ \A t \in Threads : Ends(t, b)' = Ends(t, b)
    BY <2>1 DEF Ended, Ends, EndsOf
  <2>4. CASE b = a
    <3>1. Minted(b) /\ version[b] # Unavailable /\ events[b] = <<>> /\ ~ Registered(b)
      BY <1>s, <2>1, <2>4 DEF Minted, GrantShape, RecordShape, Registered
    <3>2. Registered(b)' /\ ~ Minted(b)'  BY <2>2, <2>4 DEF Registered, Minted
    <3> QED  BY <1>s, <2>1, <2>2, <2>3, <2>4, <3>1, <3>2 DEF RecordShape
  <2>5. CASE b # a
    BY <1>s, <2>1, <2>2, <2>3, <2>5 DEF RecordShape, Minted, Registered
  <2> QED  BY <2>4, <2>5
<1> QED  BY <1>1, <1>2, <1>3, <1>4, <1>5 DEF EndsMove, Writes

-----------------------------------------------------------------------------
(* A frame written goes last on its wire and leaves the others as they are.*)
LEMMA FrameWritten ==
  ASSUME WireTypes, NEW c \in Asks, NEW f \in Frames, wire' = [wire EXCEPT ![c] = Append(@, f)]
  PROVE  /\ Len(wire[c]) \in Nat /\ Len(wire'[c]) = Len(wire[c]) + 1 /\ wire'[c] # <<>>
         /\ wire'[c][Len(wire[c]) + 1] = f
         /\ \A i \in 1..Len(wire[c]) : wire'[c][i] = wire[c][i]
         /\ wire[c] # <<>> => wire'[c][1] = wire[c][1]
         /\ f \in Signals => ToldOf(c)' = ToldOf(c) \cup {Len(wire[c]) + 1}
         /\ f \notin Signals => ToldOf(c)' = ToldOf(c)
         /\ \A b \in Asks : b # c => wire'[b] = wire[b]
<1>1. /\ wire[c] \in Seq(Frames) /\ wire'[c] = Append(wire[c], f)
      /\ \A b \in Asks : b # c => wire'[b] = wire[b]
  BY DEF WireTypes
<1>2. /\ Len(wire[c]) \in Nat /\ Len(wire'[c]) = Len(wire[c]) + 1 /\ wire'[c] # <<>>
      /\ wire'[c][Len(wire[c]) + 1] = f
      /\ \A i \in 1..Len(wire[c]) : wire'[c][i] = wire[c][i]
      /\ DOMAIN wire[c] = 1..Len(wire[c]) /\ DOMAIN wire'[c] = 1..(Len(wire[c]) + 1)
  BY <1>1
<1>3. wire[c] # <<>> => wire'[c][1] = wire[c][1]
  <2>1. wire[c] # <<>> => Len(wire[c]) # 0  BY <1>1
  <2> QED  BY <1>2, <2>1
<1>4. /\ f \in Signals => ToldOf(c)' = ToldOf(c) \cup {Len(wire[c]) + 1}
      /\ f \notin Signals => ToldOf(c)' = ToldOf(c)
  BY <1>2 DEF ToldOf
<1> QED  BY <1>1, <1>2, <1>3, <1>4

(* A heartbeat adds no signal.                                             *)
LEMMA BeatWritten ==
  ASSUME WireTypes, NEW c \in Asks, wire[c] # <<>>, wire' = [wire EXCEPT ![c] = Beaten(@)]
  PROVE  /\ wire'[c] # <<>> /\ wire'[c][1] = wire[c][1] /\ ToldOf(c)' = ToldOf(c)
         /\ \A i \in 1..Len(wire[c]) : wire'[c][i] = wire[c][i]
         /\ \A i \in 1..Len(wire'[c]) : i \in 1..Len(wire[c]) \/ wire'[c][i] = "heartbeat"
         /\ \A b \in Asks : b # c => wire'[b] = wire[b]
<1>1. CASE wire' = [wire EXCEPT ![c] = Append(@, "heartbeat")]
  <2>1. PICK f \in Frames : f = "heartbeat" /\ f \notin Signals  BY DEF Frames, Signals
  <2>2. /\ Len(wire[c]) \in Nat /\ Len(wire'[c]) = Len(wire[c]) + 1 /\ wire'[c] # <<>>
        /\ wire'[c][Len(wire[c]) + 1] = f
        /\ \A i \in 1..Len(wire[c]) : wire'[c][i] = wire[c][i]
        /\ wire[c] # <<>> => wire'[c][1] = wire[c][1]
        /\ ToldOf(c)' = ToldOf(c)
        /\ \A b \in Asks : b # c => wire'[b] = wire[b]
    <3>1. wire' = [wire EXCEPT ![c] = Append(@, f)]  BY <1>1, <2>1
    <3>2. /\ Len(wire[c]) \in Nat /\ Len(wire'[c]) = Len(wire[c]) + 1 /\ wire'[c] # <<>>
          /\ wire'[c][Len(wire[c]) + 1] = f
          /\ \A i \in 1..Len(wire[c]) : wire'[c][i] = wire[c][i]
          /\ wire[c] # <<>> => wire'[c][1] = wire[c][1]
      BY <3>1, FrameWritten
    <3>3. f \notin Signals => ToldOf(c)' = ToldOf(c)  BY <3>1, FrameWritten
    <3>4. \A b \in Asks : b # c => wire'[b] = wire[b]  BY <3>1 DEF WireTypes
    <3> QED  BY <2>1, <3>2, <3>3, <3>4
  <2> QED  BY <2>1, <2>2
<1>2. CASE wire' = [wire EXCEPT ![c] = @]
  <2>1. wire' = wire  BY <1>2 DEF WireTypes
  <2> QED  BY <2>1 DEF ToldOf
<1> QED  BY <1>1, <1>2 DEF Beaten

(* Wires stay right.                                                       *)
LEMMA SignalStep ==
  ASSUME WireShape, EndShape, GrantShape, GrantShape', PlaceTypes, VersionTypes, WireTypes,
         EventTypes, EndingTypes, RegistryTypes, TodoTypes, PlacesMove, EndsMove
  PROVE  WireShape'
<1> SUFFICES ASSUME NEW b \in Asks PROVE SignalShape(b)'
  BY DEF WireShape
<1>s. SignalShape(b)  BY DEF WireShape
<1>e. RecordShape(b)  BY DEF EndShape
<1>p. /\ version'[b] = Unavailable \/ pc'[b] \in {"append", "deliver"} =>
           version[b] = Unavailable \/ pc[b] \in {"append", "deliver"}
      /\ pc'[b] = "open" =>
           pc[b] = "open" \/ (pc[b] = "deliver" /\ wire'[b] = Append(wire[b], "decision"))
      /\ (\E t \in Threads : b \in todo'[t]) => b \in conns \/ \E t \in Threads : b \in todo[t]
  BY DEF PlacesMove
<1>g. b \in conns => version[b] # Unavailable /\ pc[b] \notin {"append", "deliver", "open"}
  BY DEF GrantShape, Minted
<1>o. ASSUME wire'[b] = wire[b] PROVE pc'[b] = "open" => pc[b] = "open"
  <2>1. ASSUME wire'[b] = Append(wire[b], "decision") PROVE FALSE
    <3>1. wire[b] \in Seq(Frames) /\ "decision" \in Frames  BY DEF WireTypes, Frames
    <3>2. Len(wire'[b]) = Len(wire[b]) + 1 /\ Len(wire[b]) \in Nat  BY <2>1, <3>1
    <3> QED  BY <1>o, <3>2
  <2> QED  BY <1>p, <2>1
<1>k. ASSUME wire'[b] = wire[b], b \in conns' <=> b \in conns, events'[b] = events[b],
             \A t \in Threads : Ends(t, b)' => Ends(t, b) /\ ending'[t] = ending[t]
      PROVE  SignalShape(b)'
  <2>1. ToldOf(b)' = ToldOf(b) /\ EndsOf(b)' = EndsOf(b)  BY <1>k DEF ToldOf, EndsOf
  <2> QED  BY <1>s, <1>p, <1>o, <1>k, <2>1 DEF SignalShape
<1>1. CASE UNCHANGED <<conns, ending, events, wire>>
  BY <1>1, <1>k DEF Ends
<1>2. ASSUME NEW t \in Threads, NEW c \in Asks, NEW r \in Reasons, NEW told \in BOOLEAN,
             told => r \in Signals, Pops(t, c, r, told)
      PROVE  SignalShape(b)'
  <2>1. \A u \in Threads :
          /\ Ends(u, b)' <=> Ends(u, b) \/ (u = t /\ b = c)
          /\ Ends(u, b) => ending'[u] = ending[u]
          /\ ending'[t].reason = r
    BY <1>2, Popped
  <2>2. /\ c \in conns /\ conns' = conns \ {c} /\ events' = events
        /\ wire' = IF told THEN [wire EXCEPT ![c] = Append(@, r)] ELSE wire
    BY <1>2 DEF Pops
  <2>3. CASE b # c
    <3>1. wire'[b] = wire[b]  BY <2>2, <2>3 DEF WireTypes
    <3> QED  BY <1>k, <2>1, <2>2, <2>3, <3>1
  <2>4. CASE b = c
    <3>1. /\ wire[b] # <<>> /\ wire[b][1] = "decision" /\ ToldOf(b) = {} /\ EndsOf(b) = {}
          /\ \A u \in Threads : ~ Ends(u, b)
      BY <1>s, <1>e, <2>2, <2>4 DEF SignalShape, RecordShape, Ended
    <3>2. EndsOf(b)' = {} /\ b \notin conns'  BY <2>2, <2>4, <3>1 DEF EndsOf
    <3>3. /\ ~ (version'[b] = Unavailable \/ pc'[b] \in {"append", "deliver"})
          /\ pc'[b] # "open"
      BY <1>p, <1>g, <2>2, <2>4
    <3>4. CASE told
      <4>1. /\ Len(wire[b]) \in Nat /\ Len(wire'[b]) = Len(wire[b]) + 1 /\ wire'[b] # <<>>
            /\ wire'[b][Len(wire[b]) + 1] = r /\ wire'[b][1] = wire[b][1]
            /\ ToldOf(b)' = {Len(wire[b]) + 1}
        <5>1. r \in Frames /\ r \in Signals  BY <1>2, <3>4 DEF Frames
        <5>2. wire' = [wire EXCEPT ![b] = Append(@, r)]  BY <2>2, <2>4, <3>4
        <5> QED  BY <3>1, <5>1, <5>2, FrameWritten
      <4> QED  BY <2>1, <2>4, <3>1, <3>2, <3>3, <4>1 DEF SignalShape
    <3>5. CASE ~ told
      <4>1. wire' = wire /\ ToldOf(b)' = {}  BY <2>2, <3>1, <3>5 DEF ToldOf
      <4> QED  BY <3>1, <3>2, <3>3, <4>1 DEF SignalShape
    <3> QED  BY <3>4, <3>5
  <2> QED  BY <2>3, <2>4
<1>3. ASSUME NEW c \in Asks, \E t \in Threads : c \in todo[t], Writes(c, Beaten(wire[c]))
      PROVE  SignalShape(b)'
  <2>1. wire' = [wire EXCEPT ![c] = Beaten(@)] /\ UNCHANGED <<conns, ending, events>>
    BY <1>3 DEF Writes
  <2>2. wire[c] # <<>>  BY <1>3 DEF WireShape, SignalShape
  <2>3. /\ wire'[c] # <<>> /\ wire'[c][1] = wire[c][1] /\ ToldOf(c)' = ToldOf(c)
        /\ \A i \in 1..Len(wire[c]) : wire'[c][i] = wire[c][i]
        /\ \A i \in 1..Len(wire'[c]) : i \in 1..Len(wire[c]) \/ wire'[c][i] = "heartbeat"
        /\ \A d \in Asks : d # c => wire'[d] = wire[d]
    BY <2>1, <2>2, BeatWritten
  <2>4. CASE b # c
    <3>1. wire'[b] = wire[b]  BY <2>3, <2>4
    <3> QED  BY <1>k, <2>1, <3>1 DEF Ends
  <2>5. CASE b = c
    <3>1. /\ ~ (version'[b] = Unavailable \/ pc'[b] \in {"append", "deliver"})
          /\ pc'[b] = "open" => pc[b] = "open"
          /\ wire[b][1] = "decision"
      BY <1>s, <1>p, <2>2, <2>5 DEF SignalShape
    <3>2. /\ EndsOf(b)' = EndsOf(b) /\ \A t \in Threads : Ends(t, b)' = Ends(t, b)
      BY <2>1 DEF EndsOf, Ends
    <3>3. ASSUME NEW i \in ToldOf(b)'
          PROVE  /\ i \in ToldOf(b) /\ wire'[b][i] = wire[b][i]
                 /\ \A j \in (i + 1)..Len(wire'[b]) : wire'[b][j] = "heartbeat"
      <4>1. i \in ToldOf(b) /\ wire[b] \in Seq(Frames)  BY <2>3, <2>5 DEF WireTypes
      <4>2. i \in 1..Len(wire[b])  BY <4>1 DEF ToldOf
      <4>3. \A j \in (i + 1)..Len(wire[b]) : wire[b][j] = "heartbeat"
        BY <1>s, <4>1 DEF SignalShape
      <4>4. Len(wire'[b]) \in Nat
        <5>1. Beaten(wire[b]) \in Seq(Frames)  BY <4>1 DEF Beaten, Frames
        <5> QED  BY <2>1, <2>5, <5>1 DEF WireTypes
      <4>5. Len(wire[b]) \in Nat  BY <4>1
      <4>6. ASSUME NEW j \in (i + 1)..Len(wire'[b]) PROVE wire'[b][j] = "heartbeat"
        <5>1. j \in 1..Len(wire'[b])  BY <4>2, <4>4, <4>5
        <5>2. j \in 1..Len(wire[b]) \/ wire'[b][j] = "heartbeat"  BY <2>3, <2>5, <5>1
        <5>3. ASSUME j \in 1..Len(wire[b]) PROVE wire'[b][j] = "heartbeat"
          <6>1. j \in (i + 1)..Len(wire[b])  BY <4>2, <4>5, <5>3
          <6> QED  BY <2>3, <2>5, <4>3, <5>3, <6>1
        <5> QED  BY <5>2, <5>3
      <4> QED  BY <2>3, <2>5, <4>1, <4>2, <4>6
    <3> QED  BY <1>s, <2>1, <2>3, <2>5, <3>1, <3>2, <3>3 DEF SignalShape
  <2> QED  BY <2>4, <2>5
<1>4. ASSUME NEW c \in Asks, pc[c] = "deliver", pc'[c] = "open",
             Writes(c, Append(wire[c], "decision"))
      PROVE  SignalShape(b)'
  <2>1. wire' = [wire EXCEPT ![c] = Append(@, "decision")] /\ UNCHANGED <<conns, ending, events>>
    BY <1>4 DEF Writes
  <2>2. CASE b # c
    <3>1. wire'[b] = wire[b]  BY <2>1, <2>2 DEF WireTypes
    <3> QED  BY <1>k, <2>1, <3>1 DEF Ends
  <2>3. CASE b = c
    <3>1. wire[b] = <<>> /\ b \notin conns  BY <1>4, <1>s, <1>g, <2>3 DEF SignalShape
    <3>2. ToldOf(b) = {} /\ Len(wire[b]) = 0  BY <3>1 DEF ToldOf
    <3>3. /\ wire'[b] # <<>> /\ ToldOf(b)' = {} /\ wire'[b][1] = "decision"
      <4>1. PICK f \in Frames : f = "decision" /\ f \notin Signals  BY DEF Frames, Signals
      <4>2. wire' = [wire EXCEPT ![b] = Append(@, f)]  BY <2>1, <2>3, <4>1
      <4>3. /\ wire'[b] # <<>> /\ wire'[b][Len(wire[b]) + 1] = f
            /\ ToldOf(b)' = ToldOf(b)
        BY <4>1, <4>2, FrameWritten
      <4> QED  BY <3>2, <4>1, <4>3
    <3>4. version'[b] # Unavailable /\ pc'[b] = "open"
      BY <1>4, <2>3 DEF GrantShape, Minted
    <3> QED  BY <3>3, <3>4 DEF SignalShape
  <2> QED  BY <2>2, <2>3
<1>5. ASSUME NEW t \in Threads, Records(t) PROVE SignalShape(b)'
  <2>1. PICK g \in Asks : g = ending[t].grant
    BY <1>5 DEF Records, EndingTypes, EndingShape
  <2>2. /\ EndsOf(g)' = EndsOf(g) \cup {Len(events[g]) + 1}
        /\ events'[g][Len(events[g]) + 1] = ending[t].reason
        /\ \A i \in EndsOf(g) : events'[g][i] = events[g][i]
        /\ \A d \in Asks : d # g => events'[d] = events[d]
        /\ ending' = [ending EXCEPT ![t] = NoOne]
    BY <1>5, <2>1, EndRecorded
  <2>3. UNCHANGED <<conns, pc, version, wire, todo>>
    BY <1>5 DEF Records, grantVars, threadVars
  <2>4. \A u \in Threads : ending'[u] = IF u = t THEN NoOne ELSE ending[u]
    BY <2>2 DEF EndingTypes
  <2>5. \A u \in Threads : Ends(u, b)' => Ends(u, b) /\ ending'[u] = ending[u]
    BY <2>4, GrantsAssumption DEF Ends, NoOne, Threads
  <2>6. CASE b # g  BY <1>k, <2>2, <2>3, <2>5, <2>6
  <2>7. CASE b = g
    <3>1. Ends(t, b) /\ ToldOf(b)' = ToldOf(b)  BY <2>1, <2>3, <2>7 DEF Ends, ToldOf
    <3> QED  BY <1>s, <2>2, <2>3, <2>5, <2>7, <3>1 DEF SignalShape
  <2> QED  BY <2>6, <2>7
<1>6. ASSUME NEW a \in Asks, Issues(a) PROVE SignalShape(b)'
  <2>1. /\ events' = [events EXCEPT ![a] = Append(@, "issued")]
        /\ UNCHANGED <<conns, ending, version, wire, todo>>
    BY <1>6 DEF Issues, At, Goes, grantVars, wireVars
  <2>2. EndsOf(b)' = EndsOf(b) /\ \A i \in EndsOf(b) : events'[b][i] = events[b][i]
    BY <2>1, IssueRecorded
  <2>3. ToldOf(b)' = ToldOf(b) /\ \A t \in Threads : Ends(t, b)' = Ends(t, b)
    BY <2>1 DEF ToldOf, Ends
  <2>4. ASSUME NEW i \in ToldOf(b)'
        PROVE  /\ \A j \in EndsOf(b)' : events'[b][j] = wire'[b][i]
               /\ \A t \in Threads : Ends(t, b)' => ending'[t].reason = wire'[b][i]
               /\ \A j \in (i + 1)..Len(wire'[b]) : wire'[b][j] = "heartbeat"
    <3>1. /\ i \in ToldOf(b) /\ wire'[b] = wire[b]
          /\ \A j \in EndsOf(b) : events[b][j] = wire[b][i]
          /\ \A t \in Threads : Ends(t, b) => ending[t].reason = wire[b][i]
          /\ \A j \in (i + 1)..Len(wire[b]) : wire[b][j] = "heartbeat"
      BY <1>s, <2>1, <2>3 DEF SignalShape
    <3>2. \A j \in EndsOf(b)' : events'[b][j] = wire'[b][i]  BY <2>2, <3>1
    <3>3. \A t \in Threads : Ends(t, b)' => ending'[t].reason = wire'[b][i]
      BY <2>1, <2>3, <3>1
    <3> QED  BY <3>1, <3>2, <3>3
  <2> QED  BY <1>s, <1>p, <1>o, <2>1, <2>3, <2>4 DEF SignalShape
<1>7. ASSUME NEW a \in Asks, Opens(a) PROVE SignalShape(b)'
  <2>1. /\ pc[a] = "open" /\ conns' = conns \cup {a}
        /\ UNCHANGED <<events, ending, version, wire, todo>>
    BY <1>7 DEF Opens, At, wireVars
  <2>2. CASE b # a  BY <1>k, <2>1, <2>2 DEF Ends
  <2>3. CASE b = a
    <3>1. ToldOf(b)' = {} /\ wire'[b] = wire[b] /\ wire[b] # <<>> /\ wire[b][1] = "decision"
      BY <1>s, <2>1, <2>3 DEF ToldOf, SignalShape
    <3>2. version'[b] # Unavailable /\ pc'[b] \notin {"append", "deliver"}
      BY <2>1, <2>3 DEF GrantShape, Minted
    <3> QED  BY <3>1, <3>2 DEF SignalShape
  <2> QED  BY <2>2, <2>3
<1> QED  BY <1>1, <1>2, <1>3, <1>4, <1>5, <1>6, <1>7 DEF EndsMove

-----------------------------------------------------------------------------
(* The invariant, and its steps together.                                  *)

(* It holds at first.                                                      *)
LEMMA RegistryInit == Init => RegistryInv /\ OldVersionsAreAnnounced
<1> SUFFICES ASSUME Init PROVE RegistryInv /\ OldVersionsAreAnnounced
  OBVIOUS
<1>1. TypeOK /\ EndingShape
  <2>1. SettingTypes /\ PolicyTypes /\ PlaceTypes
    BY GrantsAssumption DEF Init, SettingTypes, PolicyTypes, PlaceTypes, Places
  <2>2. LoadTypes /\ TodoTypes /\ VersionTypes
    BY DEF Init, LoadTypes, TodoTypes, VersionTypes, Loading, NoLoad
  <2>3. AgeTypes  BY GrantsAssumption DEF Init, AgeTypes, Ages
  <2>4. WireTypes /\ PeerTypes /\ EventTypes
    BY DEF Init, WireTypes, PeerTypes, EventTypes
  <2>5. EndingTypes  BY DEF Init, EndingTypes, EndingShape, Endings, NoOne
  <2>6. RegistryTypes /\ SlotTypes  BY DEF Init, RegistryTypes, SlotTypes
  <2> QED  BY <2>1, <2>2, <2>3, <2>4, <2>5, <2>6, Groups
<1>2. SlotCounts
  <2>1. Waiting = {} /\ conns = {} /\ \A p : Of({}, p) = {}
    BY DEF Init, Waiting, Minted, Of, Threads
  <2>2. IsFiniteSet({}) /\ Cardinality({}) = 0  BY FS_EmptySet
  <2>3. per_principal \in Nat /\ MaxConnections \in Nat  BY GrantsAssumption DEF Init
  <2>4. reserved = 0 /\ reservedBy = [p \in Principals |-> 0]  BY DEF Init
  <2>5. \A p \in Principals : reservedBy[p] = 0  BY <2>4
  <2> QED  BY <2>1, <2>2, <2>3, <2>4, <2>5 DEF SlotCounts
<1>3. GrantShape  BY GrantsAssumption DEF Init, GrantShape, Minted, NoLoad, Threads
<1>4. StopShape  BY DEF Init, StopShape, Threads
<1>5. EndShape
  <2> SUFFICES ASSUME NEW a \in Asks PROVE RecordShape(a)
    BY DEF EndShape
  <2>1. EndsOf(a) = {} /\ ~ Ended(a)  BY DEF Init, EndsOf, Ended
  <2>2. \A t \in Threads : ~ Ends(t, a)  BY GrantsAssumption DEF Init, Ends, NoOne, Threads
  <2>3. ~ Registered(a)  BY DEF Init, Registered, Threads
  <2> QED  BY <2>1, <2>2, <2>3 DEF Init, RecordShape
<1>6. WireShape
  <2> SUFFICES ASSUME NEW a \in Asks PROVE SignalShape(a)
    BY DEF WireShape
  <2>1. ToldOf(a) = {}  BY DEF Init, ToldOf
  <2> QED  BY <2>1 DEF Init, SignalShape, Threads
<1>7. OldVersionsAreAnnounced  BY DEF Init, OldVersionsAreAnnounced
<1> QED  BY <1>1, <1>2, <1>3, <1>4, <1>5, <1>6, <1>7, SlotsCounted DEF RegistryInv

(* Every step keeps it.                                                    *)
LEMMA RegistryKept ==
  ASSUME RegistryInv, OldVersionsAreAnnounced, [Next]_vars
  PROVE  RegistryInv' /\ OldVersionsAreAnnounced'
<1>1. TypeOK /\ EndingShape /\ SlotCounts /\ GrantShape /\ StopShape /\ EndShape /\ WireShape
  BY SlotsCounted DEF RegistryInv
<1>2. /\ SettingTypes /\ PolicyTypes /\ PlaceTypes /\ LoadTypes /\ TodoTypes /\ AgeTypes
      /\ VersionTypes /\ WireTypes /\ PeerTypes /\ EventTypes /\ EndingTypes
      /\ RegistryTypes /\ SlotTypes
  BY <1>1, Groups
<1>3. SettingTypes' /\ PolicyTypes' /\ PlaceTypes' /\ LoadTypes'
  BY <1>2, SettingStep, PolicyStep, PlaceStep, LoadStep
<1>4. TodoTypes' /\ AgeTypes' /\ VersionTypes' /\ WireTypes'
  BY <1>2, TodoStep, AgeStep, VersionStep, WireStep
<1>5. PeerTypes' /\ EventTypes' /\ EndingTypes' /\ RegistryTypes'
  BY <1>2, PeerStep, EventStep, EndingStep, RegistryStep
<1>6. GrantShape' /\ StopShape' /\ OldVersionsAreAnnounced'
  BY <1>1, <1>2, GrantStep, StopStep, OldVersionStep
<1>7. SlotCounts'  BY <1>1, <1>2, SlotStep
<1>8. SlotTypes'
  <2>1. reserved' \in Nat  BY <1>7, FS_CardinalityType DEF SlotCounts
  <2> QED  BY <1>7, <2>1 DEF SlotTypes, SlotCounts
<1>9. TypeOK' /\ EndingShape'
  <2>1. /\ SettingTypes' /\ PolicyTypes' /\ PlaceTypes' /\ LoadTypes' /\ TodoTypes' /\ AgeTypes'
        /\ VersionTypes' /\ WireTypes' /\ PeerTypes' /\ EventTypes' /\ EndingTypes'
        /\ RegistryTypes' /\ SlotTypes'
    BY <1>3, <1>4, <1>5, <1>8
  <2> QED  BY <2>1, Groups, PTL
<1>10. SlotShape'  BY <1>7, <1>9, SlotsCounted, PTL
<1>11. PlacesMove /\ EndsMove  BY <1>1, <1>2, PlaceMove, EndMove
<1>12. EndShape'  BY <1>1, <1>2, <1>6, <1>11, RecordStep
<1>13. WireShape'  BY <1>1, <1>2, <1>6, <1>11, SignalStep
<1> QED  BY <1>6, <1>9, <1>10, <1>12, <1>13 DEF RegistryInv

(* The registry's invariant holds in every state the program reaches, and  *)
(* with it every variable has its type.                                    *)
THEOREM Registry == Spec => [](RegistryInv /\ OldVersionsAreAnnounced)
<1>1. RegistryInv /\ OldVersionsAreAnnounced /\ [Next]_vars
        => (RegistryInv /\ OldVersionsAreAnnounced)'
  BY RegistryKept
<1> QED  BY <1>1, RegistryInit, PTL DEF Spec

(* _reserved_total and _reserved_by_principal count the requests that are  *)
(* between their reservation and their registration or cancellation, and   *)
(* with the live grants never pass max_connections nor a principal's       *)
(* limit: a failed append or delivery gives its slot back.                 *)
THEOREM SlotsAreAccounted == Spec => []SlotsAccounted
<1>1. RegistryInv => SlotsAccounted  BY DEF RegistryInv, SlotShape
<1> QED  BY <1>1, Registry, PTL

(* Once shutdown has returned, the only grants still registered are those  *)
(* whose own request read `stopping` under the lock as it registered them  *)
(* and is about to end them.                                               *)
THEOREM StopIsComplete == Spec => []StopLeavesNoGrant
<1>1. RegistryInv => StopLeavesNoGrant
  BY DEF RegistryInv, StopShape, StopLeavesNoGrant
<1> QED  BY <1>1, Registry, PTL

(* A live grant of a version that is not current is about to be ended, by  *)
(* a thread that announces another version or by its own request's second  *)
(* look, although the policy service takes no lock.                        *)
THEOREM OldVersionsEnd == Spec => []OldVersionsAreAnnounced
BY Registry, PTL

(* From the shapes of the records and the wires: an ending is counted once *)
(* and is what the boundary was told.                                      *)
LEMMA OneEnding == RegistryInv => EndedOnce
<1> SUFFICES ASSUME RegistryInv, NEW a \in Asks
             PROVE  /\ Cardinality(EndsOf(a)) + Cardinality(EndersOf(a))
                         = IF Registered(a) /\ a \notin conns THEN 1 ELSE 0
                    /\ \A i \in ToldOf(a) :
                         /\ \A j \in EndsOf(a) : events[a][j] = wire[a][i]
                         /\ \A t \in EndersOf(a) : ending[t].reason = wire[a][i]
                         /\ \A j \in (i + 1)..Len(wire[a]) : wire[a][j] = "heartbeat"
                    /\ wire[a] # <<>> => wire[a][1] = "decision"
  BY DEF EndedOnce
<1>1. RecordShape(a) /\ SignalShape(a)  BY DEF RegistryInv, EndShape, WireShape
<1>2. EndersOf(a) = {t \in Threads : Ends(t, a)}  BY DEF EndersOf, Ends
<1>3. /\ EndsOf(a) = {} \/ \E i : EndsOf(a) = {i}
      /\ EndersOf(a) = {} \/ \E t : EndersOf(a) = {t}
      /\ EndsOf(a) = {} \/ EndersOf(a) = {}
      /\ a \in conns => EndsOf(a) = {} /\ EndersOf(a) = {}
      /\ Registered(a) <=> a \in conns \/ EndsOf(a) # {} \/ EndersOf(a) # {}
  BY <1>1, <1>2 DEF RecordShape, Ended
<1>4. Cardinality({}) = 0 /\ \A i : Cardinality({i}) = 1
  BY FS_EmptySet, FS_Singleton
<1>5. Cardinality(EndsOf(a)) = IF EndsOf(a) = {} THEN 0 ELSE 1  BY <1>3, <1>4
<1>6. Cardinality(EndersOf(a)) = IF EndersOf(a) = {} THEN 0 ELSE 1  BY <1>3, <1>4
<1>7. Cardinality(EndsOf(a)) + Cardinality(EndersOf(a))
        = IF Registered(a) /\ a \notin conns THEN 1 ELSE 0
  BY <1>3, <1>5, <1>6
<1> QED  BY <1>1, <1>2, <1>7 DEF SignalShape

(* A registered grant that is no longer live is recorded as ended exactly  *)
(* once, whichever of _end and _peer_lost popped it; the signal on its     *)
(* stream is the reason on the record, comes after the decision, and is    *)
(* followed by no other signal.                                            *)
THEOREM EveryGrantEndsOnce == Spec => []EndedOnce
BY OneEnding, Registry, PTL
=============================================================================
