----------------------------- MODULE SourceProofs -----------------------------
(***************************************************************************)
(* What SourceManager and its users keep for any sources, banks and pools. *)
(* The leases and the accounting of the drivers depend on each other: a    *)
(* release stops what has a lease, so that no lease may outlive its        *)
(* runtime but that of a source which is going, whose driver is already    *)
(* stopped (Leaving).                                                      *)
(***************************************************************************)
EXTENDS SourceManager, WellFoundedInduction, TLAPS

(* A source that is going is registered until it is erased, only the GUI   *)
(* thread removes it, its lease no longer means a running driver, and once *)
(* announced no bank has a runtime for it.                                 *)
Leaving ==
  /\ pc["gui"] \in {"deleting", "announced"} <=> leaving # None
  /\ leaving # None => leaving \in sources
  /\ pc["rigctl"] \notin {"deleting", "announced"}
  /\ \A s \in Sources : owner[s] # Nobody => s \in Pool[owner[s]]
  /\ leaving # None => (owner[leaving] # Nobody => leaving \notin on)
  /\ pc["gui"] = "announced" => \A b \in Banks : leaving \notin runtimes[b]

Inv == TypeOK /\ LeasesHeld /\ Accounted /\ Leaving

(* The first source is one of the sources.                                 *)
LEMMA FirstIsOne ==
  ASSUME NEW S \in SUBSET Sources, S # {}
  PROVE  First(S) \in S
<1>1. S \subseteq Nat
  BY SourcesAssumption
<1>2. PICK r \in S : \A q \in S : ~ (<<q, r>> \in OpToRel(<, Nat))
  BY <1>1, WFMin, NatLessThanWellFounded
<1>3. \A q \in S : ~ (q < r)
  BY <1>1, <1>2 DEF OpToRel
<1>4. \A q \in S : r =< q
  BY <1>1, <1>3
<1> QED BY <1>4 DEF First

(* What is reselected is one of the sources or what was selected.          *)
LEMMA ReselectType ==
  ASSUME TypeOK, NEW S \in SUBSET Sources, NEW o, NEW now \in Sources \cup {None},
         Reselect(S, o, now)
  PROVE  /\ menu' \in Sources \cup {None} /\ selected' \in Sources \cup {None}
         /\ strays' \subseteq Sources
<1>1. menu' \in Sources \cup {None} /\ \E m : Select(m, S, o, now)
  BY FirstIsOne DEF Reselect, TypeOK
<1>2. strays' \subseteq Sources
  BY <1>1 DEF Select, TypeOK
<1> QED BY <1>1, <1>2 DEF Select

(* A release ends the leases of its banks and no other, and what still     *)
(* runs of theirs is the source that is going.                             *)
LEMMA ReleaseEnds ==
  ASSUME Inv, NEW B \in SUBSET Banks, Release(B)
  PROVE  /\ owner' \in [Sources -> Banks \cup {Nobody}]
         /\ \A s \in Sources : owner'[s] = IF owner[s] \in B THEN Nobody ELSE owner[s]
         /\ on' \subseteq on /\ \A s \in on \ on' : owner[s] \in B
         /\ \A s \in on' : owner[s] \in B => s = leaving
         /\ scanning' = scanning \ B
BY BanksAssumption DEF Inv, TypeOK, LeasesHeld, Leaving, Release, Stopped

(* Register and the reselection it causes.                                 *)
LEMMA RegisterInv ==
  ASSUME Inv, NEW s \in Sources, Register(s)
  PROVE  Inv'
<1> USE SourcesAssumption, BanksAssumption DEF Register, Inv, Threads, None, registry, banks
<1>0. /\ menu' \in Sources \cup {None} /\ selected' \in Sources \cup {None}
      /\ strays' \subseteq Sources
  BY ReselectType DEF TypeOK
<1>1. TypeOK' BY <1>0 DEF TypeOK, Leaving, LeasesHeld
<1>2. LeasesHeld' BY DEF LeasesHeld, TypeOK, Leaving, GuiIdle, Reselect, Select
<1>3. Accounted' BY DEF Accounted, Driven, LeasesHeld, TypeOK, Leaving, GuiIdle, Reselect, Select
<1>4. Leaving' BY DEF LeasesHeld, TypeOK, Leaving, GuiIdle, Reselect, Select
<1> QED BY <1>1, <1>2, <1>3, <1>4

(* The three ways to select a source.                                      *)
LEMMA SelectMenuInv ==
  ASSUME Inv, NEW s \in Sources, SelectMenu(s)
  PROVE  Inv'
<1> USE SourcesAssumption, BanksAssumption DEF SelectMenu, Select, Inv, Threads, None, registry, banks
<1>1. TypeOK' BY DEF TypeOK, Leaving, LeasesHeld
<1>2. LeasesHeld' BY DEF LeasesHeld, TypeOK, Leaving, GuiIdle
<1>3. Accounted' BY DEF Accounted, Driven, LeasesHeld, TypeOK, Leaving, GuiIdle
<1>4. Leaving' BY DEF LeasesHeld, TypeOK, Leaving, GuiIdle
<1> QED BY <1>1, <1>2, <1>3, <1>4

LEMMA SelectApiInv ==
  ASSUME Inv, NEW s \in Sources, SelectApi(s)
  PROVE  Inv'
<1> USE SourcesAssumption, BanksAssumption DEF SelectApi, Select, Inv, Threads, None, registry, banks
<1>1. TypeOK' BY DEF TypeOK, Leaving, LeasesHeld
<1>2. LeasesHeld' BY DEF LeasesHeld, TypeOK, Leaving, GuiIdle
<1>3. Accounted' BY DEF Accounted, Driven, LeasesHeld, TypeOK, Leaving, GuiIdle
<1>4. Leaving' BY DEF LeasesHeld, TypeOK, Leaving, GuiIdle
<1> QED BY <1>1, <1>2, <1>3, <1>4

LEMMA SelectDiscoveryInv ==
  ASSUME Inv, NEW s \in Sources, NEW b \in Banks, SelectDiscovery(b, s)
  PROVE  Inv'
<1> USE SourcesAssumption, BanksAssumption DEF SelectDiscovery, Select, Inv, Threads, None, registry, banks
<1>1. TypeOK' BY DEF TypeOK, Leaving, LeasesHeld
<1>2. LeasesHeld' BY DEF LeasesHeld, TypeOK, Leaving, GuiIdle
<1>3. Accounted' BY DEF Accounted, Driven, LeasesHeld, TypeOK, Leaving, GuiIdle
<1>4. Leaving' BY DEF LeasesHeld, TypeOK, Leaving, GuiIdle
<1> QED BY <1>1, <1>2, <1>3, <1>4

(* The bank's menu, which only names a receiver.                           *)
LEMMA ShowDiscoveryInv ==
  ASSUME Inv, NEW b \in Banks, ShowDiscovery(b)
  PROVE  Inv'
<1> USE SourcesAssumption, BanksAssumption DEF ShowDiscovery, Inv, Threads, None, registry, banks
<1>1. TypeOK' BY DEF TypeOK, Leaving, LeasesHeld
<1>2. LeasesHeld' BY DEF LeasesHeld, TypeOK, Leaving, GuiIdle
<1>3. Accounted' BY DEF Accounted, Driven, LeasesHeld, TypeOK, Leaving, GuiIdle
<1>4. Leaving' BY DEF LeasesHeld, TypeOK, Leaving, GuiIdle
<1> QED BY <1>1, <1>2, <1>3, <1>4

(* setPlayState: its steps touch the selected source only.                 *)
LEMMA PlayPressedInv ==
  ASSUME Inv, NEW t \in Threads, PlayPressed(t)
  PROVE  Inv'
<1> USE SourcesAssumption, BanksAssumption DEF PlayPressed, Inv, Threads, None, registry, banks
<1>1. TypeOK' BY DEF TypeOK, Leaving, LeasesHeld
<1>2. LeasesHeld' BY DEF LeasesHeld, TypeOK, Leaving, GuiIdle
<1>3. Accounted' BY DEF Accounted, Driven, LeasesHeld, TypeOK, Leaving, GuiIdle
<1>4. Leaving' BY DEF LeasesHeld, TypeOK, Leaving, GuiIdle
<1> QED BY <1>1, <1>2, <1>3, <1>4

LEMMA StartSourceInv ==
  ASSUME Inv, NEW t \in Threads, StartSource(t)
  PROVE  Inv'
<1> USE SourcesAssumption, BanksAssumption DEF StartSource, Inv, Threads, None, registry, banks
<1>1. TypeOK' BY DEF TypeOK, Leaving, LeasesHeld
<1>2. LeasesHeld' BY DEF LeasesHeld, TypeOK, Leaving, GuiIdle
<1>3. Accounted' BY DEF Accounted, Driven, LeasesHeld, TypeOK, Leaving, GuiIdle
<1>4. Leaving' BY DEF LeasesHeld, TypeOK, Leaving, GuiIdle
<1> QED BY <1>1, <1>2, <1>3, <1>4

LEMMA NowPlayingInv ==
  ASSUME Inv, NEW t \in Threads, NowPlaying(t)
  PROVE  Inv'
<1> USE SourcesAssumption, BanksAssumption DEF NowPlaying, Inv, Threads, None, registry, banks
<1>1. TypeOK' BY DEF TypeOK, Leaving, LeasesHeld
<1>2. LeasesHeld' BY DEF LeasesHeld, TypeOK, Leaving, GuiIdle
<1>3. Accounted' BY DEF Accounted, Driven, LeasesHeld, TypeOK, Leaving, GuiIdle
<1>4. Leaving' BY DEF LeasesHeld, TypeOK, Leaving, GuiIdle
<1> QED BY <1>1, <1>2, <1>3, <1>4

LEMMA StopPressedInv ==
  ASSUME Inv, NEW t \in Threads, StopPressed(t)
  PROVE  Inv'
<1> USE SourcesAssumption, BanksAssumption DEF StopPressed, Inv, Threads, None, registry, banks
<1>1. TypeOK' BY DEF TypeOK, Leaving, LeasesHeld
<1>2. LeasesHeld' BY DEF LeasesHeld, TypeOK, Leaving, GuiIdle
<1>3. Accounted' BY DEF Accounted, Driven, LeasesHeld, TypeOK, Leaving, GuiIdle
<1>4. Leaving' BY DEF LeasesHeld, TypeOK, Leaving, GuiIdle
<1> QED BY <1>1, <1>2, <1>3, <1>4

LEMMA StopSourceInv ==
  ASSUME Inv, NEW t \in Threads, StopSource(t)
  PROVE  Inv'
<1> USE SourcesAssumption, BanksAssumption DEF StopSource, Inv, Threads, None, registry, banks
<1>1. TypeOK' BY DEF TypeOK, Leaving, LeasesHeld
<1>2. LeasesHeld' BY DEF LeasesHeld, TypeOK, Leaving, GuiIdle
<1>3. Accounted' BY DEF Accounted, Driven, LeasesHeld, TypeOK, Leaving, GuiIdle
<1>4. Leaving' BY DEF LeasesHeld, TypeOK, Leaving, GuiIdle
<1> QED BY <1>1, <1>2, <1>3, <1>4

(* What a scan starts it leases, and what it could not start it releases.  *)
LEMMA prepareMultiReceiverScanInv ==
  ASSUME Inv, NEW b \in Banks, prepareMultiReceiverScan(b)
  PROVE  Inv'
<1> USE SourcesAssumption, BanksAssumption DEF prepareMultiReceiverScan, claimable, Inv, Threads, None, registry, banks
<1>1. TypeOK' BY DEF TypeOK, Leaving, LeasesHeld
<1>2. LeasesHeld' BY DEF LeasesHeld, TypeOK, Leaving, GuiIdle
<1>3. Accounted' BY DEF Accounted, Driven, LeasesHeld, TypeOK, Leaving, GuiIdle
<1>4. Leaving' BY DEF LeasesHeld, TypeOK, Leaving, GuiIdle
<1> QED BY <1>1, <1>2, <1>3, <1>4

(* The end of a scan: no source is going, so that every lease of the bank  *)
(* has a runtime, whose driver is stopped.                                 *)
LEMMA StopScanInv ==
  ASSUME Inv, NEW b \in Banks, StopScan(b)
  PROVE  Inv'
<1> USE SourcesAssumption, BanksAssumption DEF Inv, Threads, None
<1>1. Release({b})
  BY DEF StopScan
<1>2. leaving = None
  BY DEF StopScan, GuiIdle, Leaving
<1>3. /\ owner' \in [Sources -> Banks \cup {Nobody}]
      /\ \A s \in Sources : owner'[s] = IF owner[s] = b THEN Nobody ELSE owner[s]
      /\ on' \subseteq on /\ \A s \in on' : owner[s] # b
      /\ scanning' = scanning \ {b}
  BY <1>1, <1>2, ReleaseEnds DEF TypeOK
<1>4. TypeOK'
  BY <1>3 DEF TypeOK, StopScan
<1>5. LeasesHeld'
  BY <1>3 DEF LeasesHeld, TypeOK, StopScan
<1>6. Accounted'
  BY <1>3 DEF Accounted, Driven, TypeOK, StopScan
<1>7. Leaving'
  BY <1>2, <1>3 DEF Leaving, TypeOK, StopScan
<1> QED BY <1>4, <1>5, <1>6, <1>7

(* The destructor of a source's module stops the driver.                   *)
LEMMA DestroyInv ==
  ASSUME Inv, NEW s \in Sources, Destroy(s)
  PROVE  Inv'
<1> USE SourcesAssumption, BanksAssumption DEF Destroy, Inv, Threads, None, registry, banks
<1>1. TypeOK' BY DEF TypeOK, Leaving, LeasesHeld
<1>2. LeasesHeld' BY DEF LeasesHeld, TypeOK, Leaving, GuiIdle
<1>3. Accounted' BY DEF Accounted, Driven, LeasesHeld, TypeOK, Leaving, GuiIdle
<1>4. Leaving' BY DEF LeasesHeld, TypeOK, Leaving, GuiIdle
<1> QED BY <1>1, <1>2, <1>3, <1>4

(* The announcement: the banks that end stop what they lease, and of the   *)
(* others only the source that is going loses its runtime.                 *)
LEMMA AnnounceInv ==
  ASSUME Inv, Announce
  PROVE  Inv'
<1> USE SourcesAssumption, BanksAssumption DEF Inv, Threads, None
<1> DEFINE bereft == {b \in scanning : discovery[b] = leaving}
<1>1. bereft \in SUBSET Banks /\ Release(bereft)
  BY DEF Announce, TypeOK
<1>2. /\ runtimes' = [b \in Banks |-> IF b \in bereft THEN {} ELSE runtimes[b] \ {leaving}]
      /\ pc' = [pc EXCEPT !["gui"] = "announced"] /\ pc["gui"] = "deleting"
      /\ UNCHANGED <<sources, selected, menu, playing, leaving, discovery, strays>>
  BY DEF Announce
<1> HIDE DEF bereft
<1>3. /\ owner' \in [Sources -> Banks \cup {Nobody}]
      /\ \A s \in Sources : owner'[s] = IF owner[s] \in bereft THEN Nobody ELSE owner[s]
      /\ on' \subseteq on /\ \A s \in on' : owner[s] \in bereft => s = leaving
      /\ scanning' = scanning \ bereft
  BY <1>1, ReleaseEnds
<1>4. leaving # None /\ leaving \in sources
  BY <1>2 DEF Leaving
<1>5. TypeOK'
  BY <1>1, <1>2, <1>3 DEF TypeOK
<1>6. LeasesHeld'
  <2>1. selected' # None => selected' \in sources' /\ owner'[selected'] = Nobody
    BY <1>1, <1>2, <1>3 DEF LeasesHeld, TypeOK
  <2>2. ASSUME NEW s \in Sources, owner'[s] # Nobody
        PROVE  /\ s \in sources' /\ owner'[s] \in scanning'
               /\ s \in runtimes'[owner'[s]] \/ leaving' = s
    <3>1. owner'[s] = owner[s] /\ owner[s] \notin bereft /\ owner[s] \in Banks
      BY <1>1, <1>3, <2>2 DEF TypeOK
    <3> QED BY <1>2, <1>3, <2>2, <3>1 DEF LeasesHeld, TypeOK
  <2>3. ASSUME NEW b \in Banks, NEW s \in runtimes'[b]
        PROVE  owner'[s] = b
    <3>1. b \notin bereft /\ s \in runtimes[b] /\ s \in Sources
      BY <1>2, <2>3 DEF TypeOK
    <3> QED BY <1>3, <3>1 DEF LeasesHeld
  <2> QED BY <2>1, <2>2, <2>3 DEF LeasesHeld
<1>7. Accounted'
  <2> SUFFICES ASSUME NEW s \in on', s \notin strays
               PROVE  s \in Driven'
    BY <1>2 DEF Accounted
  <2>1. s \in on /\ s \in Driven /\ s \in Sources
    BY <1>3 DEF Accounted, TypeOK
  <2>2. CASE s \in sources /\ owner[s] # Nobody
    BY <1>1, <1>2, <1>3, <1>4, <2>1, <2>2 DEF Driven, Leaving, TypeOK
  <2>3. CASE s = selected /\ (playing \/ \E t \in Threads : pc[t] \in {"started", "stopping"})
    BY <1>2, <2>3 DEF Driven, TypeOK
  <2> QED BY <2>1, <2>2, <2>3 DEF Driven
<1>8. Leaving'
  BY <1>1, <1>2, <1>3, <1>4 DEF Leaving, TypeOK
<1> QED BY <1>5, <1>6, <1>7, <1>8

(* The source is erased, with its lease, and another one is selected.      *)
LEMMA EraseInv ==
  ASSUME Inv, Erase
  PROVE  Inv'
<1> USE SourcesAssumption, BanksAssumption DEF Erase, Inv, Threads, None, registry, banks
<1>0. /\ menu' \in Sources \cup {None} /\ selected' \in Sources \cup {None}
      /\ strays' \subseteq Sources
  BY ReselectType DEF TypeOK
<1>1. TypeOK' BY <1>0 DEF TypeOK, Leaving, LeasesHeld
<1>2. LeasesHeld' BY DEF LeasesHeld, TypeOK, Leaving, GuiIdle, Reselect, Select
<1>3. Accounted' BY DEF Accounted, Driven, LeasesHeld, TypeOK, Leaving, GuiIdle, Reselect, Select
<1>4. Leaving' BY DEF LeasesHeld, TypeOK, Leaving, GuiIdle, Reselect, Select
<1> QED BY <1>1, <1>2, <1>3, <1>4

(* No action makes a state that breaks the invariant.                      *)
LEMMA NextInv == Inv /\ [Next]_vars => Inv'
<1> SUFFICES ASSUME Inv, [Next]_vars PROVE Inv'
  OBVIOUS
<1>1. CASE UNCHANGED vars
  BY <1>1 DEF Inv, TypeOK, LeasesHeld, Accounted, Driven, Leaving, vars, registry, banks
<1>2. ASSUME NEW s \in Sources, Register(s) \/ SelectMenu(s) \/ SelectApi(s) \/ Destroy(s)
      PROVE  Inv'
  BY <1>2, RegisterInv, SelectMenuInv, SelectApiInv, DestroyInv
<1>3. ASSUME NEW b \in Banks,
             prepareMultiReceiverScan(b) \/ StopScan(b) \/ ShowDiscovery(b)
      PROVE  Inv'
  BY <1>3, prepareMultiReceiverScanInv, StopScanInv, ShowDiscoveryInv
<1>4. ASSUME NEW b \in Banks, NEW s \in Sources, SelectDiscovery(b, s)
      PROVE  Inv'
  BY <1>4, SelectDiscoveryInv
<1>5. ASSUME NEW t \in Threads,
             PlayPressed(t) \/ StartSource(t) \/ NowPlaying(t) \/ StopPressed(t) \/ StopSource(t)
      PROVE  Inv'
  BY <1>5, PlayPressedInv, StartSourceInv, NowPlayingInv, StopPressedInv, StopSourceInv
<1> QED BY <1>1, <1>2, <1>3, <1>4, <1>5, AnnounceInv, EraseInv DEF Next

(* The invariant of SourceManager and its users.                           *)
THEOREM InvHolds == Spec => []Inv
<1>1. Init => Inv
  BY SourcesAssumption, BanksAssumption
     DEF Init, Inv, TypeOK, LeasesHeld, Accounted, Driven, Leaving, None, Threads
<1> QED BY <1>1, NextInv, PTL DEF Spec

(* The selected source is leased to nobody, leases are those of banks that *)
(* scan, and no two banks drive one receiver.                              *)
THEOREM LeasesHeldHolds == Spec => []LeasesHeld
BY InvHolds, PTL DEF Inv

(* No driver runs but the selected one of a receiver that plays, one a     *)
(* bank leases, or one that was deselected while it ran.                   *)
THEOREM AccountedHolds == Spec => []Accounted
BY InvHolds, PTL DEF Inv

(* A leased receiver is started and stopped by its bank only.              *)
THEOREM IndependentHolds == Spec => Independent
<1> DEFINE Alone == \A s \in Sources : owner[s] # Nobody /\ owner'[s] = owner[s] /\ leaving' # s
                      => (s \in on' <=> s \in on)
<1>1. ASSUME Inv, [Next]_vars PROVE [Alone]_vars
  <2> SUFFICES ASSUME NEW q \in Sources, owner[q] # Nobody, owner'[q] = owner[q], leaving' # q,
                      Next
               PROVE  q \in on' <=> q \in on
    BY <1>1
  <2> USE <1>1, BanksAssumption DEF Inv
  <2>1. ASSUME NEW s \in Sources, Register(s) \/ SelectMenu(s) \/ SelectApi(s) \/ Destroy(s)
        PROVE  q \in on' <=> q \in on
    BY <2>1 DEF Register, SelectMenu, SelectApi, Destroy
  <2>2. ASSUME NEW b \in Banks, prepareMultiReceiverScan(b)
        PROVE  q \in on' <=> q \in on
    BY <2>2 DEF prepareMultiReceiverScan, claimable, LeasesHeld
  <2>3. ASSUME NEW b \in Banks, NEW s \in Sources, SelectDiscovery(b, s) \/ ShowDiscovery(b)
        PROVE  q \in on' <=> q \in on
    BY <2>3 DEF SelectDiscovery, ShowDiscovery
  <2>4. ASSUME NEW b \in Banks, StopScan(b)
        PROVE  q \in on' <=> q \in on
    BY <2>4, ReleaseEnds DEF StopScan, TypeOK
  <2>5. ASSUME NEW t \in Threads,
               PlayPressed(t) \/ StartSource(t) \/ NowPlaying(t) \/ StopPressed(t) \/ StopSource(t)
        PROVE  q \in on' <=> q \in on
    BY <2>5, SourcesAssumption DEF PlayPressed, StartSource, NowPlaying, StopPressed, StopSource, LeasesHeld, None
  <2>6. CASE Announce
    <3> DEFINE bereft == {b \in scanning : discovery[b] = leaving}
    <3>1. bereft \in SUBSET Banks /\ Release(bereft)
      BY <2>6 DEF Announce, TypeOK
    <3> QED BY <3>1, ReleaseEnds DEF TypeOK
  <2>7. CASE Erase
    BY <2>7 DEF Erase
  <2> QED BY <2>1, <2>2, <2>3, <2>4, <2>5, <2>6, <2>7 DEF Next
<1> QED BY <1>1, InvHolds, PTL DEF Spec, Independent
==============================================================================
