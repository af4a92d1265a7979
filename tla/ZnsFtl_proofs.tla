--------------------------- MODULE ZnsFtl_proofs ---------------------------
(***************************************************************************)
(* What holds of the zoned-namespace FTL for every number of zones, every  *)
(* geometry and every buffer size.                                         *)
(***************************************************************************)
EXTENDS ZnsFtl, FiniteSetTheorems, WellFoundedInduction, TLAPS

ZoneType == [Zones -> [state : ZoneStates, wp : 0 .. ZoneLbas, zrwav : BOOLEAN]]
CounterType == [ResTypes -> 0 .. CntMod - 1]

CountersExact ==
  /\ acquired["ACTIVE_ZONE"] = Cardinality(ZonesIn(Active))
  /\ acquired["OPEN_ZONE"] = Cardinality(ZonesIn(Opened))

(* A select_all loop is only ever in progress in a live dispatcher.         *)
LoopIsAlive == loop # NoLoop => Alive

(* The inductive invariant.                                                 *)
IInv ==
  /\ TypeOK
  /\ WritePointerMatchesState
  /\ ResourcesMatchStates
  /\ ZrwaResourcesCovered
  /\ LoopIsAlive

(* What an operation on a zone has to keep, while the dispatcher lives.     *)
ZoneInv ==
  /\ zone_descs \in ZoneType
  /\ acquired \in CounterType
  /\ remaining \in [Buffers -> Nat]
  /\ WritePointerMatchesState
  /\ CountersExact
  /\ ZrwaResourcesCovered

Ind(b) == IF b THEN 1 ELSE 0

-----------------------------------------------------------------------------
(* Arithmetic.                                                              *)

(* A quotient is zero exactly below the divisor: what SameZone tests.       *)
LEMMA DivZero ==
  ASSUME NEW a \in Nat, NEW k \in Nat \ {0}
  PROVE  /\ a < k => a \div k = 0
         /\ a \div k = 0 => a < k
  OBVIOUS

(* Rounding down to a multiple does not increase.                           *)
LEMMA DivMult ==
  ASSUME NEW a \in Nat, NEW k \in Nat \ {0}
  PROVE  /\ a \div k \in Nat
         /\ (a \div k) * k \in Nat
         /\ (a \div k) * k <= a
  OBVIOUS

(* A remainder is below its divisor.                                        *)
LEMMA ModRange ==
  ASSUME NEW a \in Int, NEW k \in Nat \ {0}
  PROVE  a % k \in 0 .. k - 1
  OBVIOUS

(* A number below the modulus is its own remainder.                         *)
LEMMA ModSmall ==
  ASSUME NEW k \in Nat, NEW a \in 0 .. k - 1
  PROVE  a % k = a
  OBVIOUS

-----------------------------------------------------------------------------
(* Counting zones.                                                          *)

(* A set of zones that changes at one zone only changes its size by one.    *)
LEMMA CardChange ==
  ASSUME NEW S \in SUBSET Zones, NEW T \in SUBSET Zones, NEW z \in Zones,
         S \ {z} = T \ {z}
  PROVE  Cardinality(T) = Cardinality(S) + Ind(z \in T) - Ind(z \in S)
<1>1. IsFiniteSet(Zones)
  BY FS_Interval, ZoneCountAssumption DEF Zones
<1>2. IsFiniteSet(S) /\ IsFiniteSet(T)
  BY <1>1, FS_Subset
<1>3. /\ Cardinality(S) \in Nat /\ Cardinality(T) \in Nat
  BY <1>2, FS_CardinalityType
<1>4. CASE z \in S /\ z \in T
  <2>1. S = T
    BY <1>4
  <2> QED
    BY <2>1, <1>3, <1>4 DEF Ind
<1>5. CASE z \notin S /\ z \notin T
  <2>1. S = T
    BY <1>5
  <2> QED
    BY <2>1, <1>3, <1>5 DEF Ind
<1>6. CASE z \in S /\ z \notin T
  <2>1. T = S \ {z}
    BY <1>6
  <2>2. Cardinality(T) = Cardinality(S) - 1
    BY <2>1, <1>2, <1>6, FS_RemoveElement
  <2> QED
    BY <2>2, <1>3, <1>6 DEF Ind
<1>7. CASE z \notin S /\ z \in T
  <2>1. T = S \cup {z}
    BY <1>7
  <2>2. Cardinality(T) = Cardinality(S) + 1
    BY <2>1, <1>2, <1>7, FS_AddElement
  <2> QED
    BY <2>2, <1>3, <1>7 DEF Ind
<1> QED
  BY <1>4, <1>5, <1>6, <1>7

(* There are nr_zones zones; a set that lacks one is smaller, and a set     *)
(* that has one is not empty.                                               *)
LEMMA CardBounds ==
  ASSUME NEW S \in SUBSET Zones, NEW z \in Zones
  PROVE  /\ Cardinality(S) \in 0 .. nr_zones
         /\ z \notin S => Cardinality(S) < nr_zones
         /\ z \in S => Cardinality(S) >= 1
<1>1. IsFiniteSet(Zones) /\ Cardinality(Zones) = nr_zones
  BY FS_Interval, ZoneCountAssumption DEF Zones
<1>2. IsFiniteSet(S) /\ Cardinality(S) <= Cardinality(Zones)
  BY <1>1, FS_Subset
<1>3. Cardinality(S) \in Nat
  BY <1>2, FS_CardinalityType
<1>4. ASSUME z \notin S PROVE Cardinality(S) < nr_zones
  <2>1. S \in SUBSET (Zones \ {z})
    BY <1>4
  <2>2. IsFiniteSet(Zones \ {z}) /\ Cardinality(Zones \ {z}) = nr_zones - 1
    BY <1>1, FS_RemoveElement
  <2>3. Cardinality(S) <= nr_zones - 1
    BY <2>1, <2>2, FS_Subset
  <2> QED
    BY <2>3, <1>3, ZoneCountAssumption
<1>5. ASSUME z \in S PROVE Cardinality(S) >= 1
  <2>1. Cardinality(S) # 0
    BY <1>5, <1>2, FS_EmptySet
  <2> QED
    BY <2>1, <1>3
<1> QED
  BY <1>1, <1>2, <1>3, <1>4, <1>5, ZoneCountAssumption

(* The counters in terms of one zone: whoever gives a resource back holds   *)
(* one, and whoever needs one finds one.                                    *)
LEMMA CounterBounds ==
  ASSUME ZoneInv, NEW z \in Zones
  PROVE  LET zd == zone_descs[z] IN
         /\ \A t \in {"ACTIVE_ZONE", "OPEN_ZONE"} : acquired[t] \in 0 .. nr_zones
         /\ acquired["ZRWA_ZONE"] \in 0 .. nr_zones
         /\ zd.state \in Active => acquired["ACTIVE_ZONE"] >= 1
         /\ zd.state \notin Active => acquired["ACTIVE_ZONE"] < nr_zones
         /\ zd.state \in Opened => acquired["OPEN_ZONE"] >= 1
         /\ zd.state \notin Opened => acquired["OPEN_ZONE"] < nr_zones
         /\ zd.state \in Active /\ zd.zrwav => acquired["ZRWA_ZONE"] >= 1
<1>1. /\ ZonesIn(Active) \in SUBSET Zones /\ ZonesIn(Opened) \in SUBSET Zones
      /\ ZrwaZones \in SUBSET Zones
  BY DEF ZonesIn, ZrwaZones
<1>2. /\ zone_descs[z].state \in Active <=> z \in ZonesIn(Active)
      /\ zone_descs[z].state \in Opened <=> z \in ZonesIn(Opened)
      /\ zone_descs[z].state \in Active /\ zone_descs[z].zrwav => z \in ZrwaZones
  BY DEF ZonesIn, ZrwaZones
<1>3. acquired["ZRWA_ZONE"] \in 0 .. nr_zones
  BY DEF ZoneInv, CounterType, ResTypes, ZrwaResourcesCovered
<1>4. /\ acquired["ACTIVE_ZONE"] = Cardinality(ZonesIn(Active))
      /\ acquired["OPEN_ZONE"] = Cardinality(ZonesIn(Opened))
      /\ acquired["ZRWA_ZONE"] >= Cardinality(ZrwaZones)
  BY DEF ZoneInv, CountersExact, ZrwaResourcesCovered
<1>5. /\ Cardinality(ZonesIn(Active)) \in 0 .. nr_zones
      /\ z \notin ZonesIn(Active) => Cardinality(ZonesIn(Active)) < nr_zones
      /\ z \in ZonesIn(Active) => Cardinality(ZonesIn(Active)) >= 1
  BY <1>1, CardBounds
<1>6. /\ Cardinality(ZonesIn(Opened)) \in 0 .. nr_zones
      /\ z \notin ZonesIn(Opened) => Cardinality(ZonesIn(Opened)) < nr_zones
      /\ z \in ZonesIn(Opened) => Cardinality(ZonesIn(Opened)) >= 1
  BY <1>1, CardBounds
<1>7. Cardinality(ZrwaZones) \in Nat /\ (z \in ZrwaZones => Cardinality(ZrwaZones) >= 1)
  BY <1>1, CardBounds
<1>8. zone_descs[z].state \in Active /\ zone_descs[z].zrwav => acquired["ZRWA_ZONE"] >= 1
  BY <1>2, <1>3, <1>4, <1>7
<1> QED
  BY <1>2, <1>3, <1>4, <1>5, <1>6, <1>8

(* A step that changes one zone keeps the counters exact when it moves each *)
(* of them by that zone's share.                                            *)
LEMMA CountersFollow ==
  ASSUME ZoneInv, NEW z \in Zones, zone_descs' \in ZoneType, acquired' \in CounterType,
         \A y \in Zones \ {z} : zone_descs'[y] = zone_descs[y],
         acquired'["ACTIVE_ZONE"] = acquired["ACTIVE_ZONE"]
           + Ind(zone_descs'[z].state \in Active) - Ind(zone_descs[z].state \in Active),
         acquired'["OPEN_ZONE"] = acquired["OPEN_ZONE"]
           + Ind(zone_descs'[z].state \in Opened) - Ind(zone_descs[z].state \in Opened),
         acquired'["ZRWA_ZONE"] >= acquired["ZRWA_ZONE"]
           + Ind(zone_descs'[z].state \in Active /\ zone_descs'[z].zrwav)
           - Ind(zone_descs[z].state \in Active /\ zone_descs[z].zrwav),
         acquired'["ZRWA_ZONE"] <= nr_zones
  PROVE  CountersExact' /\ ZrwaResourcesCovered'
<1>1. Cardinality(ZonesIn(Active)') = Cardinality(ZonesIn(Active))
        + Ind(zone_descs'[z].state \in Active) - Ind(zone_descs[z].state \in Active)
  <2>1. /\ ZonesIn(Active) \in SUBSET Zones /\ ZonesIn(Active)' \in SUBSET Zones
        /\ ZonesIn(Active) \ {z} = ZonesIn(Active)' \ {z}
        /\ z \in ZonesIn(Active) <=> zone_descs[z].state \in Active
        /\ z \in ZonesIn(Active)' <=> zone_descs'[z].state \in Active
    BY DEF ZonesIn
  <2> QED
    BY <2>1, CardChange DEF Ind
<1>2. Cardinality(ZonesIn(Opened)') = Cardinality(ZonesIn(Opened))
        + Ind(zone_descs'[z].state \in Opened) - Ind(zone_descs[z].state \in Opened)
  <2>1. /\ ZonesIn(Opened) \in SUBSET Zones /\ ZonesIn(Opened)' \in SUBSET Zones
        /\ ZonesIn(Opened) \ {z} = ZonesIn(Opened)' \ {z}
        /\ z \in ZonesIn(Opened) <=> zone_descs[z].state \in Opened
        /\ z \in ZonesIn(Opened)' <=> zone_descs'[z].state \in Opened
    BY DEF ZonesIn
  <2> QED
    BY <2>1, CardChange DEF Ind
<1>3. /\ Cardinality(ZrwaZones') = Cardinality(ZrwaZones)
           + Ind(zone_descs'[z].state \in Active /\ zone_descs'[z].zrwav)
           - Ind(zone_descs[z].state \in Active /\ zone_descs[z].zrwav)
      /\ Cardinality(ZrwaZones) \in Nat
  <2>1. /\ ZrwaZones \in SUBSET Zones /\ ZrwaZones' \in SUBSET Zones
        /\ ZrwaZones \ {z} = ZrwaZones' \ {z}
        /\ z \in ZrwaZones <=> zone_descs[z].state \in Active /\ zone_descs[z].zrwav
        /\ z \in ZrwaZones' <=> zone_descs'[z].state \in Active /\ zone_descs'[z].zrwav
    BY DEF ZonesIn, ZrwaZones
  <2>2. Cardinality(ZrwaZones) \in Nat
    BY <2>1, CardBounds
  <2> QED
    BY <2>1, <2>2, CardChange DEF Ind
<1>4. /\ acquired["ZRWA_ZONE"] \in Nat /\ acquired'["ZRWA_ZONE"] \in Nat
      /\ acquired["ZRWA_ZONE"] >= Cardinality(ZrwaZones)
  BY CounterAssumption DEF ZoneInv, CounterType, ResTypes, ZrwaResourcesCovered
<1>5. CountersExact'
  BY <1>1, <1>2 DEF ZoneInv, CountersExact
<1>6. ZrwaResourcesCovered'
  BY <1>3, <1>4, ZoneCountAssumption DEF ZrwaResourcesCovered, Ind
<1> QED
  BY <1>5, <1>6

(* Taking and giving back: exact while the counter is in range.             *)
LEMMA ReleaseValue ==
  ASSUME NEW a \in CounterType, NEW t \in ResTypes
  PROVE  /\ release_zone_resource(a, t) \in CounterType
         /\ \A u \in ResTypes \ {t} : release_zone_resource(a, t)[u] = a[u]
         /\ a[t] >= 1 => release_zone_resource(a, t)[t] = a[t] - 1
<1>1. (a[t] - 1) % CntMod \in 0 .. CntMod - 1
  BY ModRange, CounterAssumption, ZoneCountAssumption DEF CounterType
<1>2. a[t] >= 1 => (a[t] - 1) % CntMod = a[t] - 1
  <2> SUFFICES ASSUME a[t] >= 1 PROVE (a[t] - 1) % CntMod = a[t] - 1
    OBVIOUS
  <2>1. a[t] - 1 \in 0 .. CntMod - 1
    BY CounterAssumption DEF CounterType
  <2> QED
    BY <2>1, ModSmall, CounterAssumption
<1> QED
  BY <1>1, <1>2 DEF release_zone_resource, CounterType

(* acquire_zone_resource adds one while the limit is not reached.           *)
LEMMA AcquireValue ==
  ASSUME NEW a \in CounterType, NEW t \in ResTypes
  PROVE  /\ acquire_zone_resource(a, t) \in CounterType
         /\ \A u \in ResTypes \ {t} : acquire_zone_resource(a, t)[u] = a[u]
         /\ a[t] < nr_zones => acquire_zone_resource(a, t)[t] = a[t] + 1
  BY CounterAssumption, ZoneCountAssumption DEF acquire_zone_resource, CounterType

(* What the release of OPEN_ZONE and ACTIVE_ZONE leaves of each counter.    *)
LEMMA ReleaseOpenAndActiveValue ==
  ASSUME NEW a \in CounterType, NEW state \in Active,
         a["ACTIVE_ZONE"] >= 1, state \in Opened => a["OPEN_ZONE"] >= 1
  PROVE  LET r == ReleaseOpenAndActive(a, state) IN
         /\ r \in CounterType
         /\ r["ACTIVE_ZONE"] = a["ACTIVE_ZONE"] - 1
         /\ r["OPEN_ZONE"] = a["OPEN_ZONE"] - Ind(state \in Opened)
         /\ r["ZRWA_ZONE"] = a["ZRWA_ZONE"]
<1> DEFINE b == IF state \in Opened THEN release_zone_resource(a, "OPEN_ZONE") ELSE a
<1>1. /\ b \in CounterType
      /\ b["ACTIVE_ZONE"] = a["ACTIVE_ZONE"] /\ b["ZRWA_ZONE"] = a["ZRWA_ZONE"]
      /\ b["OPEN_ZONE"] = a["OPEN_ZONE"] - Ind(state \in Opened)
  <2>1. CASE state \in Opened
    BY <2>1, ReleaseValue DEF ResTypes, Ind
  <2>2. CASE state \notin Opened
    <3>1. a["OPEN_ZONE"] \in Int
      BY CounterAssumption DEF CounterType, ResTypes
    <3> QED
      BY <2>2, <3>1 DEF Ind
  <2> QED
    BY <2>1, <2>2
<1>2. ReleaseOpenAndActive(a, state) = release_zone_resource(b, "ACTIVE_ZONE")
  BY DEF ReleaseOpenAndActive
<1> HIDE DEF b
<1> QED
  BY <1>1, <1>2, ReleaseValue DEF ResTypes

(* What the release of ZRWA_ZONE leaves of each counter.                    *)
LEMMA ReleaseZrwaValue ==
  ASSUME NEW a \in CounterType, NEW zrwav \in BOOLEAN, zrwav => a["ZRWA_ZONE"] >= 1
  PROVE  LET r == ReleaseZrwa(a, zrwav) IN
         /\ r \in CounterType
         /\ r["ACTIVE_ZONE"] = a["ACTIVE_ZONE"] /\ r["OPEN_ZONE"] = a["OPEN_ZONE"]
         /\ r["ZRWA_ZONE"] = a["ZRWA_ZONE"] - Ind(zrwav)
<1>1. CASE zrwav
  BY <1>1, ReleaseValue DEF ReleaseZrwa, ResTypes, Ind
<1>2. CASE ~zrwav
  <2>1. a["ZRWA_ZONE"] \in Int
    BY CounterAssumption DEF CounterType, ResTypes
  <2> QED
    BY <1>2, <2>1 DEF ReleaseZrwa, Ind
<1> QED
  BY <1>1, <1>2

-----------------------------------------------------------------------------
(* Steps of one zone.                                                       *)

(* An operation that touches no zone and no counter.                        *)
LEMMA UnchangedKeeps ==
  ASSUME ZoneInv, Unchanged
  PROVE  ZoneInv'
  BY DEF ZoneInv, Unchanged, WritePointerMatchesState, CountersExact,
         ZrwaResourcesCovered, ZrwaZones, ZonesIn

(* The whole obligation of an operation that changes zone z only.           *)
LEMMA OneZoneStep ==
  ASSUME ZoneInv, NEW z \in Zones, zone_descs' \in ZoneType, acquired' \in CounterType,
         remaining' \in [Buffers -> Nat],
         \A y \in Zones \ {z} : zone_descs'[y] = zone_descs[y],
         zone_descs'[z].wp = ZoneLbas => zone_descs'[z].state \notin Active,
         zone_descs'[z].state = "EMPTY" => zone_descs'[z].wp = 0 /\ ~zone_descs'[z].zrwav,
         acquired'["ACTIVE_ZONE"] = acquired["ACTIVE_ZONE"]
           + Ind(zone_descs'[z].state \in Active) - Ind(zone_descs[z].state \in Active),
         acquired'["OPEN_ZONE"] = acquired["OPEN_ZONE"]
           + Ind(zone_descs'[z].state \in Opened) - Ind(zone_descs[z].state \in Opened),
         acquired'["ZRWA_ZONE"] >= acquired["ZRWA_ZONE"]
           + Ind(zone_descs'[z].state \in Active /\ zone_descs'[z].zrwav)
           - Ind(zone_descs[z].state \in Active /\ zone_descs[z].zrwav),
         acquired'["ZRWA_ZONE"] <= nr_zones
  PROVE  ZoneInv'
<1>1. CountersExact' /\ ZrwaResourcesCovered'
  BY CountersFollow
<1>2. WritePointerMatchesState'
  <2> SUFFICES ASSUME NEW y \in Zones
               PROVE  /\ zone_descs'[y].wp <= ZoneLbas
                      /\ zone_descs'[y].wp = ZoneLbas => zone_descs'[y].state \notin Active
                      /\ zone_descs'[y].state = "EMPTY" =>
                           zone_descs'[y].wp = 0 /\ ~zone_descs'[y].zrwav
    BY DEF WritePointerMatchesState
  <2>1. zone_descs'[y].wp <= ZoneLbas
    BY DEF ZoneType
  <2>2. CASE y = z
    BY <2>1, <2>2
  <2>3. CASE y # z
    BY <2>1, <2>3 DEF ZoneInv, WritePointerMatchesState
  <2> QED
    BY <2>2, <2>3
<1> QED
  BY <1>1, <1>2 DEF ZoneInv

(* __zmgmt_send_close_zone keeps the counters exact.                        *)
LEMMA CloseKeeps ==
  ASSUME ZoneInv, NEW z \in Zones, NEW s, close_zone(z, s)
  PROVE  ZoneInv'
<1>1. CASE Unchanged
  BY <1>1, UnchangedKeeps
<1>2. CASE /\ zone_descs[z].state \in Opened
           /\ zone_descs' = [zone_descs EXCEPT ![z].state = "CLOSED"]
           /\ acquired' = release_zone_resource(acquired, "OPEN_ZONE")
           /\ UNCHANGED remaining
  <2>1. acquired \in CounterType /\ zone_descs \in ZoneType
    BY DEF ZoneInv
  <2>2. /\ zone_descs' \in ZoneType
        /\ \A y \in Zones \ {z} : zone_descs'[y] = zone_descs[y]
        /\ zone_descs'[z].state = "CLOSED"
        /\ zone_descs'[z].wp = zone_descs[z].wp /\ zone_descs'[z].zrwav = zone_descs[z].zrwav
    BY <1>2, <2>1 DEF ZoneType, ZoneStates, Active
  <2>3. acquired["OPEN_ZONE"] >= 1
    BY <1>2, CounterBounds
  <2>4. /\ acquired' \in CounterType
        /\ acquired'["ACTIVE_ZONE"] = acquired["ACTIVE_ZONE"]
        /\ acquired'["OPEN_ZONE"] = acquired["OPEN_ZONE"] - 1
        /\ acquired'["ZRWA_ZONE"] = acquired["ZRWA_ZONE"]
    BY <1>2, <2>1, <2>3, ReleaseValue DEF ResTypes
  <2>5. acquired["ZRWA_ZONE"] <= nr_zones
    BY CounterBounds
  <2> QED
    BY <1>2, <2>1, <2>2, <2>4, <2>5, OneZoneStep
    DEF ZoneInv, WritePointerMatchesState, Active, Opened, Ind, ZoneType, CounterType, ResTypes
<1> QED
  BY <1>1, <1>2 DEF close_zone

(* What ends the life of an active zone: FINISH, RESET, a filling flush.    *)
LEMMA GiveBackAll ==
  ASSUME ZoneInv, NEW z \in Zones, zone_descs[z].state \in Active
  PROVE  LET zd == zone_descs[z]
             r == ReleaseZrwa(ReleaseOpenAndActive(acquired, zd.state), zd.zrwav)
         IN  /\ r \in CounterType
             /\ r["ACTIVE_ZONE"] = acquired["ACTIVE_ZONE"] - 1
             /\ r["OPEN_ZONE"] = acquired["OPEN_ZONE"] - Ind(zd.state \in Opened)
             /\ r["ZRWA_ZONE"] = acquired["ZRWA_ZONE"] - Ind(zd.zrwav)
<1> DEFINE r == ReleaseOpenAndActive(acquired, zone_descs[z].state)
<1>1. /\ acquired \in CounterType /\ zone_descs[z].zrwav \in BOOLEAN
  BY DEF ZoneInv, ZoneType
<1>2. /\ acquired["ACTIVE_ZONE"] >= 1
      /\ zone_descs[z].state \in Opened => acquired["OPEN_ZONE"] >= 1
      /\ zone_descs[z].zrwav => acquired["ZRWA_ZONE"] >= 1
  BY CounterBounds
<1>3. /\ r \in CounterType
      /\ r["ACTIVE_ZONE"] = acquired["ACTIVE_ZONE"] - 1
      /\ r["OPEN_ZONE"] = acquired["OPEN_ZONE"] - Ind(zone_descs[z].state \in Opened)
      /\ r["ZRWA_ZONE"] = acquired["ZRWA_ZONE"]
  BY <1>1, <1>2, ReleaseOpenAndActiveValue
<1> HIDE DEF r
<1>4. zone_descs[z].zrwav => r["ZRWA_ZONE"] >= 1
  BY <1>2, <1>3
<1>5. LET q == ReleaseZrwa(r, zone_descs[z].zrwav) IN
      /\ q \in CounterType
      /\ q["ACTIVE_ZONE"] = r["ACTIVE_ZONE"] /\ q["OPEN_ZONE"] = r["OPEN_ZONE"]
      /\ q["ZRWA_ZONE"] = r["ZRWA_ZONE"] - Ind(zone_descs[z].zrwav)
  BY <1>1, <1>3, <1>4, ReleaseZrwaValue
<1> QED
  BY <1>3, <1>5 DEF r

(* __zmgmt_send_finish_zone, from every state that it accepts.              *)
LEMMA FinishKeeps ==
  ASSUME ZoneInv, NEW z \in Zones, NEW s, finish_zone(z, s)
  PROVE  ZoneInv'
<1>1. acquired \in CounterType /\ zone_descs \in ZoneType
  BY DEF ZoneInv
<1>2. CASE Unchanged
  BY <1>2, UnchangedKeeps
<1>3. CASE /\ zone_descs' = [zone_descs EXCEPT ![z].state = "FULL"]
           /\ \/ /\ zone_descs[z].state \in Active
                 /\ acquired' = ReleaseZrwa(ReleaseOpenAndActive(acquired, zone_descs[z].state),
                                            zone_descs[z].zrwav)
              \/ /\ zone_descs[z].state \in {"EMPTY", "FULL"}
                 /\ UNCHANGED acquired
           /\ UNCHANGED remaining
  <2>1. /\ zone_descs' \in ZoneType
        /\ \A y \in Zones \ {z} : zone_descs'[y] = zone_descs[y]
        /\ zone_descs'[z].state = "FULL"
    BY <1>1, <1>3 DEF ZoneType, ZoneStates
  <2>2. /\ acquired' \in CounterType
        /\ acquired'["ACTIVE_ZONE"] =
             acquired["ACTIVE_ZONE"] - Ind(zone_descs[z].state \in Active)
        /\ acquired'["OPEN_ZONE"] =
             acquired["OPEN_ZONE"] - Ind(zone_descs[z].state \in Opened)
        /\ acquired'["ZRWA_ZONE"] = acquired["ZRWA_ZONE"]
             - Ind(zone_descs[z].state \in Active /\ zone_descs[z].zrwav)
    <3>1. CASE zone_descs[z].state \in Active
      <4>1. acquired' = ReleaseZrwa(ReleaseOpenAndActive(acquired, zone_descs[z].state),
                                    zone_descs[z].zrwav)
        BY <1>3, <3>1 DEF Active, Opened
      <4> QED
        BY <3>1, <4>1, GiveBackAll DEF Ind
    <3>2. CASE zone_descs[z].state \notin Active
      BY <1>1, <1>3, <3>2, CounterAssumption DEF Ind, CounterType, ResTypes, Active
    <3> QED
      BY <3>1, <3>2
  <2>3. /\ ~(zone_descs'[z].state \in Active) /\ ~(zone_descs'[z].state \in Opened)
        /\ zone_descs'[z].state # "EMPTY"
    BY <2>1 DEF Active, Opened
  <2>4. remaining' \in [Buffers -> Nat]
    BY <1>3 DEF ZoneInv
  <2>5. /\ acquired["ACTIVE_ZONE"] \in Int /\ acquired["OPEN_ZONE"] \in Int
        /\ acquired["ZRWA_ZONE"] \in 0 .. nr_zones
    BY CounterBounds
  <2> QED
    BY <2>1, <2>2, <2>3, <2>4, <2>5, OneZoneStep, ZoneCountAssumption DEF Ind
<1> QED
  BY <1>2, <1>3 DEF finish_zone

(* The counters after the acquire calls of an open.                         *)
LEMMA AcquireForOpenValue ==
  ASSUME ZoneInv, NEW z \in Zones, NEW zrwa \in BOOLEAN,
         ~OpenRefused(zone_descs[z].state, zrwa)
  PROVE  LET state == zone_descs[z].state
             r == AcquireForOpen(state, zrwa)
         IN  /\ r \in CounterType
             /\ r["ACTIVE_ZONE"] = acquired["ACTIVE_ZONE"] + 1 - Ind(state \in Active)
             /\ r["OPEN_ZONE"] = acquired["OPEN_ZONE"] + 1 - Ind(state \in Opened)
             /\ r["ZRWA_ZONE"] = acquired["ZRWA_ZONE"] + Ind(state = "EMPTY" /\ zrwa)
             /\ ~zrwa => r["ZRWA_ZONE"] = acquired["ZRWA_ZONE"]
             /\ r["ZRWA_ZONE"] <= nr_zones
<1> DEFINE state == zone_descs[z].state
           a == IF state = "EMPTY" /\ zrwa
                THEN acquire_zone_resource(acquired, "ZRWA_ZONE") ELSE acquired
           b == IF state = "EMPTY" THEN acquire_zone_resource(a, "ACTIVE_ZONE") ELSE a
           c == IF state \in {"EMPTY", "CLOSED"}
                THEN acquire_zone_resource(b, "OPEN_ZONE") ELSE b
<1>1. acquired \in CounterType
  BY DEF ZoneInv
<1>2. /\ acquired["ACTIVE_ZONE"] \in Int /\ acquired["OPEN_ZONE"] \in Int
      /\ acquired["ZRWA_ZONE"] \in 0 .. nr_zones
      /\ state = "EMPTY" => acquired["ACTIVE_ZONE"] < nr_zones
      /\ state \in {"EMPTY", "CLOSED"} => acquired["OPEN_ZONE"] < nr_zones
  BY CounterBounds DEF Active, Opened
<1>3. state = "EMPTY" /\ zrwa => acquired["ZRWA_ZONE"] < nr_zones
  BY <1>2, ZoneCountAssumption DEF OpenRefused, is_zone_resource_full
<1>4. /\ a \in CounterType
      /\ a["ACTIVE_ZONE"] = acquired["ACTIVE_ZONE"] /\ a["OPEN_ZONE"] = acquired["OPEN_ZONE"]
      /\ a["ZRWA_ZONE"] = acquired["ZRWA_ZONE"] + Ind(state = "EMPTY" /\ zrwa)
  <2>1. CASE state = "EMPTY" /\ zrwa
    BY <2>1, <1>1, <1>3, AcquireValue DEF ResTypes, Ind
  <2>2. CASE ~(state = "EMPTY" /\ zrwa)
    BY <2>2, <1>1, <1>2 DEF Ind
  <2> QED
    BY <2>1, <2>2
<1> HIDE DEF a
<1>5. /\ b \in CounterType
      /\ b["ACTIVE_ZONE"] = a["ACTIVE_ZONE"] + Ind(state = "EMPTY")
      /\ b["OPEN_ZONE"] = a["OPEN_ZONE"] /\ b["ZRWA_ZONE"] = a["ZRWA_ZONE"]
  <2>1. CASE state = "EMPTY"
    BY <2>1, <1>2, <1>4, AcquireValue DEF ResTypes, Ind
  <2>2. CASE state # "EMPTY"
    BY <2>2, <1>2, <1>4 DEF Ind
  <2> QED
    BY <2>1, <2>2
<1> HIDE DEF b
<1>6. /\ c \in CounterType
      /\ c["OPEN_ZONE"] = b["OPEN_ZONE"] + Ind(state \in {"EMPTY", "CLOSED"})
      /\ c["ACTIVE_ZONE"] = b["ACTIVE_ZONE"] /\ c["ZRWA_ZONE"] = b["ZRWA_ZONE"]
  <2>1. CASE state \in {"EMPTY", "CLOSED"}
    BY <2>1, <1>2, <1>4, <1>5, AcquireValue DEF ResTypes, Ind
  <2>2. CASE state \notin {"EMPTY", "CLOSED"}
    BY <2>2, <1>2, <1>4, <1>5 DEF Ind
  <2> QED
    BY <2>1, <2>2
<1> HIDE DEF c
<1>7. /\ Ind(state = "EMPTY") = 1 - Ind(state \in Active)
      /\ Ind(state \in {"EMPTY", "CLOSED"}) = 1 - Ind(state \in Opened)
  BY DEF OpenRefused, ZoneInv, ZoneType, ZoneStates, Active, Opened, Ind
<1>8. AcquireForOpen(state, zrwa) = c
  BY DEF AcquireForOpen, a, b, c
<1> QED
  BY <1>2, <1>3, <1>4, <1>5, <1>6, <1>7, <1>8, ZoneCountAssumption DEF Ind

(* __zmgmt_send_open_zone, with and without a ZRWA.                         *)
LEMMA OpenKeeps ==
  ASSUME ZoneInv, NEW z \in Zones, NEW zrwa \in BOOLEAN, NEW s, open_zone(z, zrwa, s)
  PROVE  ZoneInv'
<1>1. CASE Unchanged
  BY <1>1, UnchangedKeeps
<1>2. CASE /\ ~OpenRefused(zone_descs[z].state, zrwa)
           /\ acquired' = AcquireForOpen(zone_descs[z].state, zrwa)
           /\ zone_descs' = [zone_descs EXCEPT ![z].state = "OPENED_EXPL",
                ![z].zrwav = @ \/ (zone_descs[z].state = "EMPTY" /\ zrwa)]
           /\ UNCHANGED remaining
  <2> DEFINE state == zone_descs[z].state
  <2>1. zone_descs \in ZoneType
    BY DEF ZoneInv
  <2>2. /\ zone_descs' \in ZoneType
        /\ \A y \in Zones \ {z} : zone_descs'[y] = zone_descs[y]
        /\ zone_descs'[z].state = "OPENED_EXPL" /\ zone_descs'[z].wp = zone_descs[z].wp
        /\ zone_descs'[z].zrwav <=> zone_descs[z].zrwav \/ (state = "EMPTY" /\ zrwa)
    BY <1>2, <2>1 DEF ZoneType, ZoneStates, Active, Opened
  <2>3. /\ acquired' \in CounterType
        /\ acquired'["ACTIVE_ZONE"] = acquired["ACTIVE_ZONE"] + 1 - Ind(state \in Active)
        /\ acquired'["OPEN_ZONE"] = acquired["OPEN_ZONE"] + 1 - Ind(state \in Opened)
        /\ acquired'["ZRWA_ZONE"] = acquired["ZRWA_ZONE"] + Ind(state = "EMPTY" /\ zrwa)
        /\ acquired'["ZRWA_ZONE"] <= nr_zones
    BY <1>2, AcquireForOpenValue
  <2>4. zone_descs'[z].state \in Active /\ zone_descs'[z].state \in Opened
    BY <2>2 DEF Active, Opened
  <2>5. zone_descs'[z].wp # ZoneLbas /\ zone_descs'[z].state # "EMPTY"
    <3>1. state \in Active \cup {"EMPTY"}
      BY <1>2, <2>1 DEF OpenRefused, ZoneType, ZoneStates
    <3> QED
      BY <2>2, <3>1, GeometryAssumption DEF ZoneInv, WritePointerMatchesState
  <2>6. remaining' \in [Buffers -> Nat]
    BY <1>2 DEF ZoneInv
  <2>7. /\ acquired["ACTIVE_ZONE"] \in Int /\ acquired["OPEN_ZONE"] \in Int
        /\ acquired["ZRWA_ZONE"] \in Int
    BY CounterBounds
  <2>8. Ind(state = "EMPTY" /\ zrwa) =
          Ind(zone_descs'[z].state \in Active /\ zone_descs'[z].zrwav)
            - Ind(state \in Active /\ zone_descs[z].zrwav)
    <3>1. state = "EMPTY" => ~zone_descs[z].zrwav /\ state \notin Active
      BY DEF ZoneInv, WritePointerMatchesState, Active, Opened
    <3>2. state # "EMPTY" => state \in Active
      BY <1>2, <2>1 DEF OpenRefused, ZoneType, ZoneStates
    <3> QED
      BY <2>2, <2>4, <3>1, <3>2 DEF Ind
  <2> QED
    BY <2>2, <2>3, <2>4, <2>5, <2>6, <2>7, <2>8, OneZoneStep DEF Ind
<1> QED
  BY <1>1, <1>2 DEF open_zone

(* __zmgmt_send_reset_zone gives everything back.                           *)
LEMMA ResetKeeps ==
  ASSUME ZoneInv, NEW z \in Zones, NEW s, reset_zone(z, s)
  PROVE  ZoneInv'
<1>1. CASE Unchanged
  BY <1>1, UnchangedKeeps
<1>2. CASE /\ acquired' = IF zone_descs[z].state \in Active
                          THEN ReleaseZrwa(ReleaseOpenAndActive(acquired, zone_descs[z].state),
                                           zone_descs[z].zrwav)
                          ELSE acquired
           /\ zone_descs' = [zone_descs EXCEPT ![z] =
                               [state |-> "EMPTY", wp |-> 0, zrwav |-> FALSE]]
           /\ remaining' = [remaining EXCEPT ![zwra_buffer(z)] = BufferSize(zwra_buffer(z))]
  <2> DEFINE state == zone_descs[z].state
  <2>1. zone_descs \in ZoneType /\ acquired \in CounterType
    BY DEF ZoneInv
  <2>2. /\ zone_descs' \in ZoneType
        /\ \A y \in Zones \ {z} : zone_descs'[y] = zone_descs[y]
        /\ zone_descs'[z].state = "EMPTY" /\ zone_descs'[z].wp = 0 /\ ~zone_descs'[z].zrwav
    BY <1>2, <2>1, GeometryAssumption DEF ZoneType, ZoneStates
  <2>3. /\ acquired["ACTIVE_ZONE"] \in Int /\ acquired["OPEN_ZONE"] \in Int
        /\ acquired["ZRWA_ZONE"] \in 0 .. nr_zones
    BY CounterBounds
  <2>4. /\ acquired' \in CounterType
        /\ acquired'["ACTIVE_ZONE"] = acquired["ACTIVE_ZONE"] - Ind(state \in Active)
        /\ acquired'["OPEN_ZONE"] = acquired["OPEN_ZONE"] - Ind(state \in Opened)
        /\ acquired'["ZRWA_ZONE"] =
             acquired["ZRWA_ZONE"] - Ind(state \in Active /\ zone_descs[z].zrwav)
    <3>1. CASE state \in Active
      BY <1>2, <3>1, GiveBackAll DEF Ind
    <3>2. CASE state \notin Active
      BY <1>2, <2>1, <2>3, <3>2 DEF Ind, Active
    <3> QED
      BY <3>1, <3>2
  <2>5. ~(zone_descs'[z].state \in Active) /\ ~(zone_descs'[z].state \in Opened)
    BY <2>2 DEF Active, Opened
  <2>6. remaining' \in [Buffers -> Nat]
    <3>1. BufferSize(zwra_buffer(z)) \in Nat
      BY BufferAssumption DEF BufferSize, zwra_buffer
    <3> QED
      BY <1>2, <3>1 DEF ZoneInv
  <2> QED
    BY <2>2, <2>3, <2>4, <2>5, <2>6, OneZoneStep, GeometryAssumption, ZoneCountAssumption DEF Ind
<1> QED
  BY <1>1, <1>2 DEF reset_zone

(* __zmgmt_send_offline_zone holds no resources.                            *)
LEMMA OfflineKeeps ==
  ASSUME ZoneInv, NEW z \in Zones, NEW s, offline_zone(z, s)
  PROVE  ZoneInv'
<1>1. CASE Unchanged
  BY <1>1, UnchangedKeeps
<1>2. CASE /\ zone_descs[z].state \in {"READ_ONLY", "OFFLINE"}
           /\ zone_descs' = [zone_descs EXCEPT ![z].state = "OFFLINE"]
           /\ UNCHANGED <<acquired, remaining>>
  <2>1. zone_descs \in ZoneType /\ acquired' \in CounterType /\ remaining' \in [Buffers -> Nat]
    BY <1>2 DEF ZoneInv
  <2>2. /\ zone_descs' \in ZoneType
        /\ \A y \in Zones \ {z} : zone_descs'[y] = zone_descs[y]
        /\ zone_descs'[z].state = "OFFLINE"
    BY <1>2, <2>1 DEF ZoneType, ZoneStates
  <2>3. /\ acquired' = acquired
        /\ acquired["ACTIVE_ZONE"] \in Int /\ acquired["OPEN_ZONE"] \in Int
        /\ acquired["ZRWA_ZONE"] \in 0 .. nr_zones
    BY <1>2, CounterBounds
  <2>4. /\ zone_descs[z].state \notin Active /\ zone_descs[z].state \notin Opened
        /\ zone_descs'[z].state \notin Active /\ zone_descs'[z].state \notin Opened
        /\ zone_descs'[z].state # "EMPTY"
    BY <1>2, <2>2 DEF Active, Opened
  <2> QED
    BY <2>1, <2>2, <2>3, <2>4, OneZoneStep DEF Ind
<1> QED
  BY <1>1, <1>2 DEF offline_zone

(* __zmgmt_send_flush_explicit_zrwa, filling the zone or not.               *)
LEMMA FlushKeeps ==
  ASSUME ZoneInv, NEW z \in Zones, NEW off \in Offsets, NEW s, flush_explicit_zrwa(z, off, s)
  PROVE  ZoneInv'
<1> DEFINE state == zone_descs[z].state
           fills == off + 1 = ZoneLbas
<1>1. CASE Unchanged
  BY <1>1, UnchangedKeeps
<1>2. CASE /\ ~FlushRefused(z, off)
           /\ zone_descs' = [zone_descs EXCEPT ![z] =
                [state |-> IF off + 1 = ZoneLbas THEN "FULL" ELSE zone_descs[z].state,
                 wp |-> off + 1, zrwav |-> @.zrwav]]
           /\ acquired' = IF off + 1 = ZoneLbas
                          THEN ReleaseZrwa(ReleaseOpenAndActive(acquired, zone_descs[z].state), TRUE)
                          ELSE acquired
           /\ UNCHANGED remaining
  <2>1. zone_descs \in ZoneType /\ acquired \in CounterType /\ remaining' \in [Buffers -> Nat]
    BY <1>2 DEF ZoneInv
  <2>2. state \in Active /\ zone_descs[z].zrwav
    BY <1>2, <2>1 DEF FlushRefused, ZoneType
  <2>3. off \in 0 .. ZoneLbas - 1
    BY DEF Offsets
  <2>4. /\ zone_descs' \in ZoneType
        /\ \A y \in Zones \ {z} : zone_descs'[y] = zone_descs[y]
        /\ zone_descs'[z].state = (IF fills THEN "FULL" ELSE state)
        /\ zone_descs'[z].wp = off + 1 /\ zone_descs'[z].zrwav
    <3>1. (IF fills THEN "FULL" ELSE state) \in ZoneStates /\ off + 1 \in 0 .. ZoneLbas
      BY <2>1, <2>3, GeometryAssumption DEF ZoneType, ZoneStates
    <3> QED
      BY <1>2, <2>1, <2>2, <3>1 DEF ZoneType
  <2>5. /\ acquired["ACTIVE_ZONE"] \in Int /\ acquired["OPEN_ZONE"] \in Int
        /\ acquired["ZRWA_ZONE"] \in 0 .. nr_zones
    BY CounterBounds
  <2>6. CASE fills
    <3>1. /\ acquired' \in CounterType
          /\ acquired'["ACTIVE_ZONE"] = acquired["ACTIVE_ZONE"] - 1
          /\ acquired'["OPEN_ZONE"] = acquired["OPEN_ZONE"] - Ind(state \in Opened)
          /\ acquired'["ZRWA_ZONE"] = acquired["ZRWA_ZONE"] - 1
      BY <1>2, <2>2, <2>6, GiveBackAll DEF Ind, ReleaseZrwa
    <3>2. /\ ~(zone_descs'[z].state \in Active) /\ ~(zone_descs'[z].state \in Opened)
          /\ zone_descs'[z].state # "EMPTY"
      BY <2>4, <2>6 DEF Active, Opened
    <3> QED
      BY <2>1, <2>2, <2>4, <2>5, <3>1, <3>2, OneZoneStep, ZoneCountAssumption DEF Ind
  <2>7. CASE ~fills
    <3>1. /\ acquired' = acquired
          /\ zone_descs'[z].state = state /\ zone_descs'[z].zrwav
          /\ zone_descs'[z].wp # ZoneLbas /\ zone_descs'[z].state # "EMPTY"
      BY <1>2, <2>2, <2>4, <2>7 DEF Active, Opened
    <3> QED
      BY <2>1, <2>2, <2>4, <2>5, <3>1, OneZoneStep DEF Ind
  <2> QED
    BY <2>6, <2>7
<1> QED
  BY <1>1, <1>2 DEF flush_explicit_zrwa

(* Zone management as a whole.                                              *)
LEMMA ZmgmtKeeps ==
  ASSUME ZoneInv, NEW z \in Zones, NEW off \in Offsets, NEW action, NEW zrwa \in BOOLEAN, NEW s,
         zmgmt_send(z, off, action, zrwa, s)
  PROVE  ZoneInv'
  BY CloseKeeps, FinishKeeps, OpenKeeps, ResetKeeps, OfflineKeeps, FlushKeeps, UnchangedKeeps
  DEF zmgmt_send, unknown_action

-----------------------------------------------------------------------------
(* Writes.                                                                  *)

(* __check_boundary_error keeps a write that starts in the zone inside it.  *)
LEMMA WithinZone ==
  ASSUME NEW off \in Offsets, NEW n \in Lengths, SameZone(off, n)
  PROVE  off + n <= ZoneLbas
<1>1. /\ off \in Nat /\ off < ZoneLbas /\ off + n - 1 \in Nat
      /\ n \in Nat /\ ZoneLbas \in Nat \ {0}
  BY GeometryAssumption DEF Offsets, Lengths
<1>2. off \div ZoneLbas = 0
  BY <1>1, DivZero
<1>3. (off + n - 1) \div ZoneLbas = 0
  BY <1>2 DEF SameZone
<1>4. off + n - 1 < ZoneLbas
  BY <1>1, <1>3, DivZero
<1> QED
  BY <1>1, <1>4

(* The buffers of a zone are among the modelled ones.                       *)
LEMMA BuffersOfZone ==
  ASSUME NEW z \in Zones
  PROVE  write_buffer(z) \in Buffers /\ zwra_buffer(z) \in Buffers
<1>1. z \in 0 .. nr_zones /\ nr_zones \in 0 .. nr_zones
  BY ZoneCountAssumption DEF Zones
<1> QED
  BY <1>1 DEF write_buffer, zwra_buffer, Buffers, WriteBuffers, ZwraBuffers

(* A zone that is written and becomes full gives back what opening it took. *)
LEMMA ReleaseIfFullValue ==
  ASSUME NEW a \in CounterType, NEW z, NEW n, a["ACTIVE_ZONE"] >= 1, a["OPEN_ZONE"] >= 1
  PROVE  LET r == ReleaseIfFull(z, a, n) IN
         /\ r \in CounterType
         /\ r["ACTIVE_ZONE"] = a["ACTIVE_ZONE"] - Ind(FillsZone(z, n))
         /\ r["OPEN_ZONE"] = a["OPEN_ZONE"] - Ind(FillsZone(z, n))
         /\ r["ZRWA_ZONE"] = a["ZRWA_ZONE"]
<1>1. "OPENED_IMPL" \in Active /\ "OPENED_IMPL" \in Opened
  BY DEF Active, Opened
<1>2. a["ACTIVE_ZONE"] \in Int /\ a["OPEN_ZONE"] \in Int
  BY DEF CounterType, ResTypes
<1>3. CASE FillsZone(z, n)
  BY <1>1, <1>3, ReleaseOpenAndActiveValue DEF ReleaseIfFull, Ind
<1>4. CASE ~FillsZone(z, n)
  BY <1>2, <1>4 DEF ReleaseIfFull, Ind
<1> QED
  BY <1>3, <1>4

(* An opened zone whose write pointer advances by n, all inside the zone.   *)
LEMMA AdvanceStep ==
  ASSUME ZoneInv, NEW z \in Zones, NEW n \in Nat, NEW st \in Opened, NEW a \in CounterType,
         zone_descs[z].wp + n <= ZoneLbas,
         zone_descs' = IncreaseWp(z, st, n), acquired' = ReleaseIfFull(z, a, n),
         remaining' \in [Buffers -> Nat],
         a["ACTIVE_ZONE"] = acquired["ACTIVE_ZONE"] + 1 - Ind(zone_descs[z].state \in Active),
         a["OPEN_ZONE"] = acquired["OPEN_ZONE"] + 1 - Ind(zone_descs[z].state \in Opened),
         a["ZRWA_ZONE"] = acquired["ZRWA_ZONE"],
         zone_descs[z].zrwav => zone_descs[z].state \in Active
  PROVE  ZoneInv'
<1>1. zone_descs \in ZoneType
  BY DEF ZoneInv
<1>2. /\ acquired["ACTIVE_ZONE"] \in Int /\ acquired["OPEN_ZONE"] \in Int
      /\ acquired["ZRWA_ZONE"] \in 0 .. nr_zones
      /\ zone_descs[z].state \in Active => acquired["ACTIVE_ZONE"] >= 1
      /\ zone_descs[z].state \in Opened => acquired["OPEN_ZONE"] >= 1
      /\ acquired["ACTIVE_ZONE"] >= 0 /\ acquired["OPEN_ZONE"] >= 0
  BY CounterBounds
<1>3. a["ACTIVE_ZONE"] >= 1 /\ a["OPEN_ZONE"] >= 1
  BY <1>2 DEF Ind
<1>4. /\ acquired' \in CounterType
      /\ acquired'["ACTIVE_ZONE"] = a["ACTIVE_ZONE"] - Ind(FillsZone(z, n))
      /\ acquired'["OPEN_ZONE"] = a["OPEN_ZONE"] - Ind(FillsZone(z, n))
      /\ acquired'["ZRWA_ZONE"] = acquired["ZRWA_ZONE"]
  BY <1>3, ReleaseIfFullValue
<1>5. /\ zone_descs' \in ZoneType
      /\ \A y \in Zones \ {z} : zone_descs'[y] = zone_descs[y]
      /\ zone_descs'[z].state = (IF FillsZone(z, n) THEN "FULL" ELSE st)
      /\ zone_descs'[z].wp = zone_descs[z].wp + n
      /\ zone_descs'[z].zrwav = zone_descs[z].zrwav
  <2>1. (IF FillsZone(z, n) THEN "FULL" ELSE st) \in ZoneStates
    BY DEF ZoneStates, Active
  <2>2. zone_descs[z].wp + n \in 0 .. ZoneLbas
    BY <1>1 DEF ZoneType
  <2> QED
    BY <1>1, <2>1, <2>2 DEF IncreaseWp, ZoneType
<1>6. CASE FillsZone(z, n)
  <2>1. /\ ~(zone_descs'[z].state \in Active) /\ ~(zone_descs'[z].state \in Opened)
        /\ zone_descs'[z].state # "EMPTY"
    BY <1>5, <1>6 DEF Active, Opened
  <2>2. /\ acquired'["ACTIVE_ZONE"] = acquired["ACTIVE_ZONE"] - Ind(zone_descs[z].state \in Active)
        /\ acquired'["OPEN_ZONE"] = acquired["OPEN_ZONE"] - Ind(zone_descs[z].state \in Opened)
    BY <1>2, <1>4, <1>6 DEF Ind
  <2> QED
    BY <1>2, <1>4, <1>5, <2>1, <2>2, OneZoneStep DEF Ind
<1>7. CASE ~FillsZone(z, n)
  <2>1. /\ zone_descs'[z].state \in Active /\ zone_descs'[z].state \in Opened
        /\ zone_descs'[z].state # "EMPTY" /\ zone_descs'[z].wp # ZoneLbas
    BY <1>5, <1>7 DEF Active, Opened, FillsZone
  <2>2. /\ acquired'["ACTIVE_ZONE"] =
             acquired["ACTIVE_ZONE"] + 1 - Ind(zone_descs[z].state \in Active)
        /\ acquired'["OPEN_ZONE"] = acquired["OPEN_ZONE"] + 1 - Ind(zone_descs[z].state \in Opened)
    BY <1>2, <1>4, <1>7 DEF Ind
  <2>3. zone_descs'[z].zrwav => zone_descs[z].state \in Active /\ zone_descs[z].zrwav
    BY <1>5
  <2> QED
    BY <1>2, <1>4, <1>5, <2>1, <2>2, <2>3, OneZoneStep DEF Ind
<1> QED
  BY <1>6, <1>7

(* __zns_write, when it accepts the command.                                *)
LEMMA WriteKeeps ==
  ASSUME ZoneInv, NEW z \in Zones, NEW off \in Offsets \cup {zone_descs[z].wp},
         NEW n \in Lengths, Write(z, off, n)
  PROVE  ZoneInv'
<1> DEFINE state == zone_descs[z].state
           b == write_buffer(z)
<1>1. /\ ~zone_descs[z].zrwav /\ ~WriteRefused(z, off, n) /\ remaining[b] >= n
      /\ remaining' = [remaining EXCEPT ![b] = @ - n]
      /\ zone_descs' = IncreaseWp(z, StateForWrite(state), n)
      /\ acquired' = ReleaseIfFull(z, AcquireForWrite(state), n)
  BY DEF Write
<1>2. zone_descs \in ZoneType /\ remaining \in [Buffers -> Nat] /\ n \in Nat
  BY DEF ZoneInv, Lengths
<1>3. off = zone_descs[z].wp /\ SameZone(off, n) /\ state \in Active \cup {"EMPTY"}
  BY <1>1, <1>2 DEF WriteRefused, ZoneType, ZoneStates
<1>4. zone_descs[z].wp \in Offsets
  BY <1>2, <1>3, GeometryAssumption DEF ZoneInv, WritePointerMatchesState, ZoneType, Offsets
<1>5. zone_descs[z].wp + n <= ZoneLbas
  BY <1>3, <1>4, WithinZone
<1>6. StateForWrite(state) \in Opened
  BY <1>3 DEF StateForWrite, Active, Opened
<1>7. ~OpenRefused(state, FALSE) /\ AcquireForWrite(state) = AcquireForOpen(state, FALSE)
  BY <1>1, <1>3 DEF OpenRefused, WriteRefused, AcquireForWrite, AcquireForOpen, Active, Opened
<1>8. /\ AcquireForWrite(state) \in CounterType
      /\ AcquireForWrite(state)["ACTIVE_ZONE"] =
           acquired["ACTIVE_ZONE"] + 1 - Ind(state \in Active)
      /\ AcquireForWrite(state)["OPEN_ZONE"] = acquired["OPEN_ZONE"] + 1 - Ind(state \in Opened)
      /\ AcquireForWrite(state)["ZRWA_ZONE"] = acquired["ZRWA_ZONE"]
  <2>1. LET r == AcquireForOpen(state, FALSE) IN
        /\ r \in CounterType
        /\ r["ACTIVE_ZONE"] = acquired["ACTIVE_ZONE"] + 1 - Ind(state \in Active)
        /\ r["OPEN_ZONE"] = acquired["OPEN_ZONE"] + 1 - Ind(state \in Opened)
        /\ r["ZRWA_ZONE"] = acquired["ZRWA_ZONE"]
    BY <1>7, AcquireForOpenValue
  <2> QED
    BY <1>7, <2>1
<1>9. remaining' \in [Buffers -> Nat]
  BY <1>1, <1>2, BuffersOfZone
<1> QED
  BY <1>1, <1>2, <1>5, <1>6, <1>8, <1>9, AdvanceStep

(* The zone of a ZRWA write that is not refused, and what the write takes.  *)
LEMMA ZrwaAccepted ==
  ASSUME ZoneInv, NEW z \in Zones, NEW off \in Offsets, NEW n \in Lengths,
         zone_descs[z].zrwav, ~ZrwaRefused(z, off, n)
  PROVE  LET state == zone_descs[z].state
             a == AcquireForZrwaWrite(state)
         IN  /\ state \in Active /\ StateForWrite(state) \in Opened
             /\ zone_descs[z].wp \in Offsets
             /\ off + n - 1 \in Offsets /\ zone_descs[z].wp <= off
             /\ a \in CounterType
             /\ a["ACTIVE_ZONE"] = acquired["ACTIVE_ZONE"]
             /\ a["OPEN_ZONE"] = acquired["OPEN_ZONE"] + 1 - Ind(state \in Opened)
             /\ a["ZRWA_ZONE"] = acquired["ZRWA_ZONE"]
             /\ ReopenLbas(z) \in Nat
<1> DEFINE state == zone_descs[z].state
<1>1. zone_descs \in ZoneType /\ acquired \in CounterType
  BY DEF ZoneInv
<1>2. state \in Active
  BY <1>1 DEF ZrwaRefused, ZoneInv, WritePointerMatchesState, ZoneType, ZoneStates
<1>3. StateForWrite(state) \in Opened
  BY <1>2 DEF StateForWrite, Active, Opened
<1>4. zone_descs[z].wp \in Offsets
  BY <1>1, <1>2, GeometryAssumption DEF ZoneInv, WritePointerMatchesState, ZoneType, Offsets
<1>5. zone_descs[z].wp <= off /\ SameZone(off, n)
  BY <1>1 DEF ZrwaRefused, ZoneType, Offsets
<1>6. off + n - 1 \in Offsets
  BY <1>5, WithinZone, GeometryAssumption DEF Offsets, Lengths
<1>7. /\ AcquireForZrwaWrite(state) \in CounterType
      /\ AcquireForZrwaWrite(state)["ACTIVE_ZONE"] = acquired["ACTIVE_ZONE"]
      /\ AcquireForZrwaWrite(state)["OPEN_ZONE"] =
           acquired["OPEN_ZONE"] + 1 - Ind(state \in Opened)
      /\ AcquireForZrwaWrite(state)["ZRWA_ZONE"] = acquired["ZRWA_ZONE"]
  <2>1. acquired["OPEN_ZONE"] \in Int /\ (state \notin Opened => acquired["OPEN_ZONE"] < nr_zones)
    BY CounterBounds
  <2>2. CASE state = "CLOSED"
    <3>1. state \notin Opened
      BY <2>2 DEF Opened
    <3> QED
      BY <1>1, <2>1, <2>2, <3>1, AcquireValue DEF AcquireForZrwaWrite, ResTypes, Ind
  <2>3. CASE state # "CLOSED"
    <3>1. state \in Opened /\ state \notin {"CLOSED", "EMPTY"}
      BY <1>2, <2>3 DEF Active, Opened
    <3> QED
      BY <1>1, <2>1, <3>1 DEF AcquireForZrwaWrite, Ind
  <2> QED
    BY <2>2, <2>3
<1>8. ReopenLbas(z) \in Nat
  BY BufferAssumption DEF ReopenLbas
<1> QED
  BY <1>2, <1>3, <1>4, <1>5, <1>6, <1>7, <1>8

(* The window never slides past the end of the zone: a flush granule is no  *)
(* larger than the window.                                                  *)
LEMMA FlushWithinZone ==
  ASSUME zone_descs \in ZoneType, NEW z \in Zones, NEW elba \in Offsets,
         zone_descs[z].wp \in Offsets, zone_descs[z].wp <= elba
  PROVE  /\ ImplicitFlush(z, elba) \in Nat
         /\ zone_descs[z].wp + ImplicitFlush(z, elba) <= ZoneLbas
<1> DEFINE wp == zone_descs[z].wp
           start == wp + lbas_per_zrwa
           x == elba - start + 1 + lbas_per_zrwafg - 1
<1>1. /\ wp \in Nat /\ elba \in Nat /\ elba <= ZoneLbas - 1 /\ ZoneLbas \in Nat
      /\ lbas_per_zrwa \in Nat /\ lbas_per_zrwafg \in Nat \ {0} /\ lbas_per_zrwafg <= lbas_per_zrwa
  BY GeometryAssumption, BufferAssumption DEF Offsets
<1>2. CASE elba >= start
  <2>1. x \in Nat /\ x <= elba - wp
    BY <1>1, <1>2
  <2>2. /\ (x \div lbas_per_zrwafg) * lbas_per_zrwafg \in Nat
        /\ (x \div lbas_per_zrwafg) * lbas_per_zrwafg <= x
    BY <1>1, <2>1, DivMult
  <2>3. ImplicitFlush(z, elba) = (x \div lbas_per_zrwafg) * lbas_per_zrwafg
    BY <1>2 DEF ImplicitFlush
  <2> HIDE DEF x
  <2> QED
    BY <1>1, <2>1, <2>2, <2>3
<1>3. CASE ~(elba >= start)
  BY <1>1, <1>3 DEF ImplicitFlush
<1> QED
  BY <1>2, <1>3

(* A ZRWA write that leaves the write pointer alone opens a closed zone.    *)
LEMMA ReopenStep ==
  ASSUME ZoneInv, NEW z \in Zones, NEW off \in Offsets, NEW n \in Lengths,
         zone_descs[z].zrwav, ~ZrwaRefused(z, off, n),
         zone_descs' = [zone_descs EXCEPT ![z].state = StateForWrite(zone_descs[z].state)],
         acquired' = AcquireForZrwaWrite(zone_descs[z].state),
         remaining' \in [Buffers -> Nat]
  PROVE  ZoneInv'
<1> DEFINE state == zone_descs[z].state
<1>1. zone_descs \in ZoneType
  BY DEF ZoneInv
<1>2. /\ state \in Active /\ StateForWrite(state) \in Opened /\ zone_descs[z].wp \in Offsets
      /\ acquired' \in CounterType
      /\ acquired'["ACTIVE_ZONE"] = acquired["ACTIVE_ZONE"]
      /\ acquired'["OPEN_ZONE"] = acquired["OPEN_ZONE"] + 1 - Ind(state \in Opened)
      /\ acquired'["ZRWA_ZONE"] = acquired["ZRWA_ZONE"]
  BY ZrwaAccepted
<1>3. /\ zone_descs' \in ZoneType
      /\ \A y \in Zones \ {z} : zone_descs'[y] = zone_descs[y]
      /\ zone_descs'[z].state = StateForWrite(state)
      /\ zone_descs'[z].wp = zone_descs[z].wp
      /\ zone_descs'[z].zrwav = zone_descs[z].zrwav
  BY <1>1, <1>2 DEF ZoneType, ZoneStates, Active
<1>4. /\ zone_descs'[z].state \in Opened /\ zone_descs'[z].state \in Active
      /\ zone_descs'[z].state # "EMPTY" /\ zone_descs'[z].wp # ZoneLbas
  BY <1>2, <1>3, GeometryAssumption DEF Active, Opened, Offsets
<1>5. /\ acquired["ACTIVE_ZONE"] \in Int /\ acquired["OPEN_ZONE"] \in Int
      /\ acquired["ZRWA_ZONE"] \in 0 .. nr_zones
  BY CounterBounds
<1>6. /\ acquired'["ACTIVE_ZONE"] = acquired["ACTIVE_ZONE"] + 1 - 1
      /\ acquired'["ZRWA_ZONE"] >= acquired["ZRWA_ZONE"] + 1 - 1
      /\ acquired'["ZRWA_ZONE"] <= nr_zones
  BY <1>2, <1>5
<1>7. zone_descs'[z].zrwav
  BY <1>3
<1> QED
  BY <1>2, <1>3, <1>4, <1>6, <1>7, OneZoneStep DEF Ind

(* __zns_write_zrwa, when it returns false after opening the zone.          *)
LEMMA ZrwaWriteNoBufferKeeps ==
  ASSUME ZoneInv, NEW z \in Zones, NEW off \in Offsets, NEW n \in Lengths,
         ZrwaWriteNoBuffer(z, off, n)
  PROVE  ZoneInv'
<1> DEFINE left == remaining[zwra_buffer(z)] - ReopenLbas(z)
<1>1. /\ zone_descs[z].zrwav /\ ~ZrwaRefused(z, off, n) /\ left >= 0
      /\ remaining' = [remaining EXCEPT ![zwra_buffer(z)] = left]
      /\ zone_descs' = [zone_descs EXCEPT ![z].state = StateForWrite(zone_descs[z].state)]
      /\ acquired' = AcquireForZrwaWrite(zone_descs[z].state)
  BY DEF ZrwaWriteNoBuffer
<1>2. ReopenLbas(z) \in Nat
  BY <1>1, ZrwaAccepted
<1>3. remaining' \in [Buffers -> Nat]
  BY <1>1, <1>2, BuffersOfZone DEF ZoneInv
<1> QED
  BY <1>1, <1>3, ReopenStep

(* __zns_write_zrwa, when it accepts the command.                           *)
LEMMA ZrwaWriteKeeps ==
  ASSUME ZoneInv, NEW z \in Zones, NEW off \in Offsets, NEW n \in Lengths,
         ZrwaWrite(z, off, n)
  PROVE  ZoneInv'
<1> DEFINE left == remaining[zwra_buffer(z)] - ReopenLbas(z)
           flush == ImplicitFlush(z, off + n - 1)
           state == zone_descs[z].state
           a == AcquireForZrwaWrite(state)
<1>1. /\ zone_descs[z].zrwav /\ ~ZrwaRefused(z, off, n) /\ left >= 0 /\ left >= flush
      /\ remaining' = [remaining EXCEPT ![zwra_buffer(z)] = left - flush]
      /\ zone_descs' = IF flush > 0 THEN IncreaseWp(z, StateForWrite(state), flush)
                       ELSE [zone_descs EXCEPT ![z].state = StateForWrite(state)]
      /\ acquired' = IF flush > 0 THEN ReleaseIfFull(z, a, flush) ELSE a
  BY DEF ZrwaWrite
<1>2. zone_descs \in ZoneType /\ zone_descs[z].wp \in Nat
  BY DEF ZoneInv, ZoneType
<1>3. /\ state \in Active /\ StateForWrite(state) \in Opened
      /\ zone_descs[z].wp \in Offsets
      /\ off + n - 1 \in Offsets /\ zone_descs[z].wp <= off
      /\ a \in CounterType
      /\ a["ACTIVE_ZONE"] = acquired["ACTIVE_ZONE"]
      /\ a["OPEN_ZONE"] = acquired["OPEN_ZONE"] + 1 - Ind(state \in Opened)
      /\ a["ZRWA_ZONE"] = acquired["ZRWA_ZONE"]
      /\ ReopenLbas(z) \in Nat
  BY <1>1, ZrwaAccepted
<1>4. zone_descs[z].wp <= off + n - 1
  BY <1>2, <1>3 DEF Offsets, Lengths
<1>5. flush \in Nat /\ zone_descs[z].wp + flush <= ZoneLbas
  BY <1>2, <1>3, <1>4, FlushWithinZone
<1> HIDE DEF flush, a
<1>6. remaining' \in [Buffers -> Nat]
  BY <1>1, <1>3, <1>5, BuffersOfZone DEF ZoneInv
<1>7. CASE flush > 0
  <2>1. a["ACTIVE_ZONE"] = acquired["ACTIVE_ZONE"] + 1 - Ind(state \in Active)
    <3>1. acquired["ACTIVE_ZONE"] \in Int
      BY CounterBounds
    <3> QED
      BY <1>3, <3>1 DEF Ind
  <2> QED
    BY <1>1, <1>3, <1>5, <1>6, <1>7, <2>1, AdvanceStep
<1>8. CASE ~(flush > 0)
  BY <1>1, <1>6, <1>8, ReopenStep DEF a
<1> QED
  BY <1>7, <1>8

-----------------------------------------------------------------------------
(* Pending writebacks.                                                      *)

(* The number of one-shots that a write ends is a natural number.           *)
LEMMA FullOneshotsNat ==
  ASSUME NEW i \in Int, NEW j \in Int
  PROVE  FullOneshots(i, j) \in Nat
<1> DEFINE S == {p \in i .. j : EndsOneshot(p)}
<1>1. IsFiniteSet(i .. j)
  BY FS_Interval
<1>2. IsFiniteSet(S)
  BY <1>1, FS_Subset
<1> QED
  BY <1>2, FS_CardinalityType DEF FullOneshots

(* A one-shot has at least one LBA.                                         *)
LEMMA OneshotPositive == OneshotLbas \in Nat \ {0} /\ unaligned_space \in Nat
<1>1. OneshotLbas \in Nat \ {0}
  BY GeometryAssumption DEF OneshotLbas
<1>2. unaligned_space \in Nat
  BY <1>1, ModRange, GeometryAssumption DEF unaligned_space
<1> QED
  BY <1>1, <1>2

(* Enqueueing writebacks keeps the type of pending.                         *)
LEMMA EnqueueType ==
  ASSUME pending \in [Buffers -> [full : Nat, tail : Nat]], NEW b \in Buffers,
         NEW full \in Nat, NEW tail \in Nat, Enqueue(b, full, tail)
  PROVE  pending' \in [Buffers -> [full : Nat, tail : Nat]]
  BY DEF Enqueue

(* Page numbers are integers.                                               *)
LEMMA LpnInt ==
  ASSUME NEW off \in Int
  PROVE  lba_to_lpn(off) \in Int
  BY GeometryAssumption DEF lba_to_lpn

-----------------------------------------------------------------------------
(* The invariant.                                                           *)

(* The part of IInv that the operations on zones need.                      *)
LEMMA ZoneInvFromIInv ==
  ASSUME IInv, Alive
  PROVE  ZoneInv
  BY DEF IInv, ZoneInv, TypeOK, ZoneType, CounterType, ResourcesMatchStates, CountersExact

(* A step of the dispatcher that keeps the zones in order keeps IInv.       *)
LEMMA Reassemble ==
  ASSUME ZoneInv', LoopIsAlive', status' \in Statuses,
         pending' \in [Buffers -> [full : Nat, tail : Nat]],
         loop' \in [action : Actions \cup {"none"}, zrwa : BOOLEAN, zid : Zones],
         asserted' \subseteq {"increase_write_ptr", "zwra_buffer"}
  PROVE  IInv'
  BY DEF IInv, ZoneInv, TypeOK, ZoneType, CounterType, ResourcesMatchStates, CountersExact

(* Every initial state (__init_descriptor, __init_resource) satisfies IInv. *)
LEMMA InitIInv == Init => IInv
<1> SUFFICES ASSUME Init PROVE IInv
  OBVIOUS
<1> USE DEF Init
<1>1. TypeOK
  <2>1. 0 \in Zones /\ NoLoop \in [action : Actions \cup {"none"}, zrwa : BOOLEAN, zid : Zones]
    BY ZoneCountAssumption DEF Zones, NoLoop
  <2>2. \A b \in Buffers : BufferSize(b) \in Nat
    BY BufferAssumption DEF BufferSize
  <2>3. remaining \in [Buffers -> Nat] /\ pending \in [Buffers -> [full : Nat, tail : Nat]]
    BY <2>2
  <2>4. zone_descs \in ZoneType /\ acquired \in CounterType
    BY GeometryAssumption, CounterAssumption, ZoneCountAssumption
    DEF ZoneType, CounterType, ZoneStates
  <2> QED
    BY <2>1, <2>3, <2>4 DEF TypeOK, Statuses, ZoneType, CounterType
<1>2. WritePointerMatchesState
  BY GeometryAssumption DEF WritePointerMatchesState, Active, Opened
<1>3. ZonesIn(Active) = {} /\ ZonesIn(Opened) = {} /\ ZrwaZones = {}
  BY DEF ZonesIn, ZrwaZones, Active, Opened
<1>4. ResourcesMatchStates /\ ZrwaResourcesCovered
  BY <1>3, FS_EmptySet, ZoneCountAssumption
  DEF ResourcesMatchStates, ZrwaResourcesCovered, ResTypes
<1>5. LoopIsAlive
  BY DEF LoopIsAlive
<1> QED
  BY <1>1, <1>2, <1>4, <1>5 DEF IInv

(* One zone of a select_all command.                                        *)
LEMMA AllZonesStepKeeps ==
  ASSUME IInv, Alive, NEW z \in Zones, NEW action \in Actions \cup {"none"},
         NEW zrwa \in BOOLEAN, AllZonesStep(z, action, zrwa)
  PROVE  IInv'
<1>1. ZoneInv'
  <2>1. 0 \in Offsets
    BY GeometryAssumption DEF Offsets
  <2> QED
    BY <2>1, ZoneInvFromIInv, ZmgmtKeeps DEF AllZonesStep
<1>2. loop' \in [action : Actions \cup {"none"}, zrwa : BOOLEAN, zid : Zones]
  BY ZoneCountAssumption DEF AllZonesStep, NoLoop, Zones
<1>3. LoopIsAlive' /\ status' \in Statuses
  BY DEF AllZonesStep, LoopIsAlive, Alive, Statuses
<1>4. /\ pending' \in [Buffers -> [full : Nat, tail : Nat]]
      /\ asserted' \subseteq {"increase_write_ptr", "zwra_buffer"}
  BY DEF AllZonesStep, IInv, TypeOK
<1> QED
  BY <1>1, <1>2, <1>3, <1>4, Reassemble

(* Steps that leave zones and counters alone.                               *)
LEMMA ZonesUnchangedKeeps ==
  ASSUME IInv, UNCHANGED <<zoneVars, loop, asserted>>, remaining' \in [Buffers -> Nat],
         pending' \in [Buffers -> [full : Nat, tail : Nat]], status' \in Statuses
  PROVE  IInv'
  BY DEF IInv, TypeOK, zoneVars, WritePointerMatchesState, ResourcesMatchStates,
         ZrwaResourcesCovered, ZrwaZones, ZonesIn, LoopIsAlive, Alive

(* Every command, and every writeback that a worker finishes, keeps IInv.   *)
LEMMA StepIInv == IInv /\ [Next]_vars => IInv'
<1> SUFFICES ASSUME IInv, [Next]_vars PROVE IInv'
  OBVIOUS
<1>1. /\ pending \in [Buffers -> [full : Nat, tail : Nat]] /\ remaining \in [Buffers -> Nat]
      /\ asserted \subseteq {"increase_write_ptr", "zwra_buffer"}
      /\ loop \in [action : Actions \cup {"none"}, zrwa : BOOLEAN, zid : Zones]
      /\ zone_descs \in ZoneType /\ acquired \in CounterType
  BY DEF IInv, TypeOK, ZoneType, CounterType
<1>2. ASSUME NEW z \in Zones, NEW c \in Commands, ZmgmtSend(z, c[1], c[2], c[3])
      PROVE  IInv'
  <2>1. ZoneInv'
    BY <1>2, ZoneInvFromIInv, ZmgmtKeeps DEF ZmgmtSend, Idle, Commands
  <2>2. LoopIsAlive' /\ status' \in Statuses
    BY <1>2 DEF ZmgmtSend, Idle, LoopIsAlive, Alive
  <2> QED
    BY <1>1, <1>2, <2>1, <2>2, Reassemble DEF ZmgmtSend
<1>3. ASSUME NEW c \in Commands, SelectAll(c[2], c[3])
      PROVE  IInv'
  <2>1. 0 \in Zones /\ c[2] \in Actions /\ c[3] \in BOOLEAN
    BY ZoneCountAssumption DEF Zones, Commands
  <2> QED
    BY <1>3, <2>1, AllZonesStepKeeps DEF SelectAll, Idle
<1>4. CASE SelectAllStep
  BY <1>1, <1>4, AllZonesStepKeeps DEF SelectAllStep, IInv, LoopIsAlive
<1>5. ASSUME NEW z \in Zones, NEW n \in Lengths, WriteNoBuffer(z, n)
      PROVE  IInv'
  BY <1>1, <1>5, ZonesUnchangedKeeps DEF WriteNoBuffer, bufVars, zoneVars, Statuses
<1>6. ASSUME NEW z \in Zones, NEW n \in Lengths, NEW off, WriteRefuse(z, off, n)
      PROVE  IInv'
  <2>1. remaining' \in [Buffers -> Nat]
    BY <1>1, <1>6, BuffersOfZone DEF WriteRefuse, Lengths
  <2> QED
    BY <1>1, <1>6, <2>1, ZonesUnchangedKeeps DEF WriteRefuse, zoneVars, Statuses
<1>7. ASSUME NEW z \in Zones, NEW n \in Lengths, NEW off \in Offsets \cup {zone_descs[z].wp},
             Write(z, off, n)
      PROVE  IInv'
  <2>1. Alive /\ loop' = NoLoop /\ asserted' = asserted
    BY <1>7 DEF Write, Idle
  <2>2. ZoneInv'
    BY <1>7, <2>1, ZoneInvFromIInv, WriteKeeps
  <2>3. pending' \in [Buffers -> [full : Nat, tail : Nat]]
    <3>1. off \in Int /\ off + n - 1 \in Int
      BY <1>1 DEF Offsets, Lengths, ZoneType
    <3>2. FullOneshots(lba_to_lpn(off), lba_to_lpn(off + n - 1)) \in Nat
      BY <3>1, LpnInt, FullOneshotsNat
    <3>3. ZoneTails(lba_to_lpn(off + n - 1)) \in Nat
      BY DEF ZoneTails
    <3> QED
      BY <1>1, <1>7, <3>2, <3>3, BuffersOfZone, EnqueueType DEF Write
  <2>4. LoopIsAlive' /\ status' \in Statuses /\ loop' = loop
    BY <1>7, <2>1 DEF Write, LoopIsAlive, Statuses
  <2> QED
    BY <1>1, <2>1, <2>2, <2>3, <2>4, Reassemble
<1>8. ASSUME NEW z \in Zones, NEW off \in Offsets, NEW n \in Lengths, ZrwaWriteRefuse(z, off, n)
      PROVE  IInv'
  BY <1>1, <1>8, ZonesUnchangedKeeps DEF ZrwaWriteRefuse, bufVars, zoneVars, Statuses
<1>9. ASSUME NEW z \in Zones, NEW off \in Offsets, NEW n \in Lengths, ZrwaWriteBug(z, off, n)
      PROVE  IInv'
  <2>1. /\ loop = NoLoop /\ Alive /\ zone_descs[z].zrwav /\ ~ZrwaRefused(z, off, n)
        /\ acquired' = AcquireForZrwaWrite(zone_descs[z].state)
        /\ UNCHANGED <<zone_descs, remaining, pending, loop>>
        /\ asserted' = asserted \cup {"zwra_buffer"} /\ status' = "bug"
    BY <1>9 DEF ZrwaWriteBug, Idle, bufVars
  <2>2. acquired' \in CounterType /\ acquired'["ZRWA_ZONE"] = acquired["ZRWA_ZONE"]
    BY <2>1, ZoneInvFromIInv, ZrwaAccepted
  <2>3. TypeOK'
    BY <1>1, <2>1, <2>2 DEF IInv, TypeOK, CounterType, Statuses
  <2>4. WritePointerMatchesState' /\ ZrwaResourcesCovered'
    BY <2>1, <2>2
    DEF IInv, WritePointerMatchesState, ZrwaResourcesCovered, ZrwaZones, ZonesIn
  <2>5. ResourcesMatchStates' /\ LoopIsAlive'
    BY <2>1 DEF ResourcesMatchStates, Alive, LoopIsAlive
  <2> QED
    BY <2>3, <2>4, <2>5 DEF IInv
<1>10. ASSUME NEW z \in Zones, NEW off \in Offsets, NEW n \in Lengths,
              ZrwaWriteNoBuffer(z, off, n)
       PROVE  IInv'
  <2>1. /\ Alive /\ loop = NoLoop /\ UNCHANGED <<pending, loop, asserted>> /\ status' = "retry"
    BY <1>10 DEF ZrwaWriteNoBuffer, Idle
  <2>2. ZoneInv'
    BY <1>10, <2>1, ZoneInvFromIInv, ZrwaWriteNoBufferKeeps
  <2>3. LoopIsAlive' /\ status' \in Statuses
    BY <2>1 DEF LoopIsAlive, Statuses
  <2> QED
    BY <1>1, <2>1, <2>2, <2>3, Reassemble
<1>11. ASSUME NEW z \in Zones, NEW off \in Offsets, NEW n \in Lengths, ZrwaWrite(z, off, n)
       PROVE  IInv'
  <2> DEFINE flush == ImplicitFlush(z, off + n - 1)
             slpn == lba_to_lpn(zone_descs[z].wp)
  <2>1. Alive /\ loop = NoLoop /\ loop' = loop
    BY <1>11 DEF ZrwaWrite, Idle
  <2>2. ZoneInv /\ ZoneInv'
    BY <1>11, <2>1, ZoneInvFromIInv, ZrwaWriteKeeps
  <2>3. asserted' \subseteq {"increase_write_ptr", "zwra_buffer"}
    BY <1>1, <1>11 DEF ZrwaWrite, AssertNotZrwa
  <2>4. pending' \in [Buffers -> [full : Nat, tail : Nat]]
    <3>1. flush \in Nat
      <4>1. /\ zone_descs[z].wp \in Offsets /\ off + n - 1 \in Offsets
            /\ zone_descs[z].wp <= off
        BY <1>11, <2>2, ZrwaAccepted DEF ZrwaWrite
      <4>2. zone_descs[z].wp <= off + n - 1
        BY <4>1 DEF Offsets, Lengths
      <4> QED
        BY <1>1, <4>1, <4>2, FlushWithinZone
    <3> HIDE DEF flush
    <3>2. slpn \in Int /\ slpn + flush \div secs_per_pg - 1 \in Int
      <4>1. slpn \in Int
        BY <1>1, LpnInt DEF ZoneType
      <4> QED
        BY <3>1, <4>1, GeometryAssumption
    <3>3. FullOneshots(slpn, slpn + flush \div secs_per_pg - 1) \in Nat
      BY <3>2, FullOneshotsNat
    <3>4. Enqueue(zwra_buffer(z), FullOneshots(slpn, slpn + flush \div secs_per_pg - 1), 0)
      BY <1>11 DEF ZrwaWrite, flush
    <3> QED
      BY <1>1, <3>3, <3>4, BuffersOfZone, EnqueueType
  <2>5. LoopIsAlive' /\ status' \in Statuses
    BY <1>11, <2>1 DEF ZrwaWrite, LoopIsAlive, Statuses
  <2> QED
    BY <1>1, <2>1, <2>2, <2>3, <2>4, <2>5, Reassemble
<1>12. ASSUME NEW b \in Buffers, WritebackDone(b)
       PROVE  IInv'
  <2>1. /\ remaining' \in [Buffers -> Nat]
        /\ pending' \in [Buffers -> [full : Nat, tail : Nat]]
    BY <1>1, <1>12, OneshotPositive DEF WritebackDone
  <2>2. status' \in Statuses
    BY <1>12 DEF WritebackDone, IInv, TypeOK
  <2> QED
    BY <1>12, <2>1, <2>2, ZonesUnchangedKeeps DEF WritebackDone, zoneVars
<1>13. CASE UNCHANGED vars
  BY <1>1, <1>13, ZonesUnchangedKeeps DEF vars, zoneVars, IInv, TypeOK
<1> QED
  BY <1>2, <1>3, <1>4, <1>5, <1>6, <1>7, <1>8, <1>9, <1>10, <1>11, <1>12, <1>13 DEF Next

(* The inductive invariant holds throughout, for every geometry.            *)
THEOREM Invariance == Spec => []IInv
  BY InitIInv, StepIInv, PTL DEF Spec

-----------------------------------------------------------------------------
(* The theorems.                                                            *)

(* The types: in particular every counter stays a __u32 and the write       *)
(* pointer, which __increase_write_ptr moves without a bound, in the zone.  *)
THEOREM TypeCorrect == Spec => []TypeOK
<1>1. IInv => TypeOK
  BY DEF IInv
<1> QED
  BY <1>1, Invariance, PTL

(* The ACTIVE and OPEN counters are exact for every number of zones.        *)
THEOREM ResourcesAreExact == Spec => []ResourcesMatchStates
<1>1. IInv => ResourcesMatchStates
  BY DEF IInv
<1> QED
  BY <1>1, Invariance, PTL

(* The ZRWA counter covers the zones that use it and does not wrap.         *)
THEOREM ZrwaResourcesNeverWrap == Spec => []ZrwaResourcesCovered
<1>1. IInv => ZrwaResourcesCovered
  BY DEF IInv
<1> QED
  BY <1>1, Invariance, PTL

(* A zone written to its end is full, an empty zone starts at its start.    *)
THEOREM WritePointerCorrect == Spec => []WritePointerMatchesState
<1>1. IInv => WritePointerMatchesState
  BY DEF IInv
<1> QED
  BY <1>1, Invariance, PTL

(* The limits on active and open zones are never met.                       *)
THEOREM LimitsNeverHit == Spec => []ZoneLimitsNeverHit
<1>1. IInv => ZoneLimitsNeverHit
  BY ZoneInvFromIInv, CounterBounds DEF ZoneLimitsNeverHit, Active, Opened
<1> QED
  BY <1>1, Invariance, PTL

(* A management command that returns an error has changed nothing.          *)
LEMMA ErrorUnchanged ==
  ASSUME NEW z, NEW off, NEW action, NEW zrwa, zmgmt_send(z, off, action, zrwa, "error")
  PROVE  UNCHANGED <<zone_descs, acquired>>
<1>1. close_zone(z, "error") => Unchanged
  BY DEF close_zone
<1>2. finish_zone(z, "error") => Unchanged
  BY DEF finish_zone
<1>3. open_zone(z, zrwa, "error") => Unchanged
  BY DEF open_zone
<1>4. reset_zone(z, "error") => Unchanged
  BY DEF reset_zone
<1>5. offline_zone(z, "error") => Unchanged
  BY DEF offline_zone
<1>6. flush_explicit_zrwa(z, off, "error") => Unchanged
  BY DEF flush_explicit_zrwa
<1> QED
  BY <1>1, <1>2, <1>3, <1>4, <1>5, <1>6 DEF zmgmt_send, unknown_action, Unchanged

(* A refused command leaves every zone and every resource as it was.        *)
THEOREM RefusalIsHarmless == Spec => RefusalChangesNoZone
<1>1. [Next]_vars => [status' = "error" => UNCHANGED <<zone_descs, acquired>>]_vars
  <2> SUFFICES ASSUME Next, status' = "error" PROVE UNCHANGED <<zone_descs, acquired>>
    OBVIOUS
  <2>1. ASSUME NEW z \in Zones, NEW c \in Commands, ZmgmtSend(z, c[1], c[2], c[3])
        PROVE  UNCHANGED <<zone_descs, acquired>>
    BY <2>1, ErrorUnchanged DEF ZmgmtSend
  <2>2. ASSUME NEW z, NEW action, NEW zrwa, AllZonesStep(z, action, zrwa)
        PROVE  FALSE
    BY <2>2 DEF AllZonesStep
  <2>3. ASSUME NEW z, NEW off, NEW n,
               WriteNoBuffer(z, n) \/ WriteRefuse(z, off, n) \/ ZrwaWriteRefuse(z, off, n)
        PROVE  UNCHANGED <<zone_descs, acquired>>
    BY <2>3 DEF WriteNoBuffer, WriteRefuse, ZrwaWriteRefuse, zoneVars
  <2>4. ASSUME NEW z, NEW off, NEW n,
               \/ Write(z, off, n) \/ ZrwaWrite(z, off, n)
               \/ ZrwaWriteBug(z, off, n) \/ ZrwaWriteNoBuffer(z, off, n)
        PROVE  FALSE
    BY <2>4 DEF Write, ZrwaWrite, ZrwaWriteBug, ZrwaWriteNoBuffer
  <2>5. ASSUME NEW b, WritebackDone(b)
        PROVE  UNCHANGED <<zone_descs, acquired>>
    BY <2>5 DEF WritebackDone, zoneVars
  <2> QED
    BY <2>1, <2>2, <2>3, <2>4, <2>5 DEF Next, SelectAll, SelectAllStep
<1> QED
  BY <1>1, PTL DEF Spec, RefusalChangesNoZone

(* What a step may do to a zone.                                            *)
Forward(old, new) ==
  \/ new.state = "EMPTY" /\ new.wp = 0
  \/ new.wp >= old.wp /\ (old.state = "FULL" => new.state = "FULL")

(* No zone management function but a reset rewinds a zone.                  *)
LEMMA ZmgmtForward ==
  ASSUME zone_descs \in ZoneType, NEW z \in Zones, NEW off \in Offsets, NEW action, NEW zrwa,
         NEW s, zmgmt_send(z, off, action, zrwa, s), NEW y \in Zones
  PROVE  Forward(zone_descs[y], zone_descs'[y])
<1>0. zone_descs[y].wp \in Int
  BY DEF ZoneType
<1>1. CASE Unchanged
  BY <1>0, <1>1 DEF Unchanged, Forward
<1>2. CASE close_zone(z, s)
  BY <1>0, <1>1, <1>2 DEF close_zone, ZoneType, Forward, Opened
<1>3. CASE finish_zone(z, s)
  BY <1>0, <1>1, <1>3 DEF finish_zone, ZoneType, Forward
<1>4. CASE open_zone(z, zrwa, s)
  BY <1>0, <1>1, <1>4 DEF open_zone, OpenRefused, ZoneType, Forward
<1>5. CASE reset_zone(z, s)
  BY <1>0, <1>1, <1>5 DEF reset_zone, ZoneType, Forward
<1>6. CASE offline_zone(z, s)
  BY <1>0, <1>1, <1>6 DEF offline_zone, ZoneType, Forward
<1>7. CASE flush_explicit_zrwa(z, off, s)
  <2>1. CASE FlushRefused(z, off)
    BY <1>1, <1>7, <2>1 DEF flush_explicit_zrwa
  <2>2. CASE ~FlushRefused(z, off)
    <3>1. off \in Int /\ zone_descs[z].wp \in Int
      BY DEF Offsets, ZoneType
    <3>2. zone_descs[z].wp <= off /\ zone_descs[z].state # "FULL"
      BY <2>2, <3>1 DEF FlushRefused, Active, Opened
    <3>3. zone_descs' = [zone_descs EXCEPT ![z] =
            [state |-> IF off + 1 = ZoneLbas THEN "FULL" ELSE zone_descs[z].state,
             wp |-> off + 1, zrwav |-> @.zrwav]]
      BY <1>7, <2>2 DEF flush_explicit_zrwa
    <3>4. zone_descs'[z].wp = off + 1 /\ (y # z => zone_descs'[y] = zone_descs[y])
      BY <3>3 DEF ZoneType
    <3> QED
      BY <1>0, <3>1, <3>2, <3>4 DEF Forward
  <2> QED
    BY <2>1, <2>2
<1> QED
  BY <1>1, <1>2, <1>3, <1>4, <1>5, <1>6, <1>7 DEF zmgmt_send, unknown_action

(* __zns_write moves the write pointer forward only.                        *)
LEMMA WriteForward ==
  ASSUME ZoneInv, NEW z \in Zones, NEW off \in Offsets \cup {zone_descs[z].wp},
         NEW n \in Lengths, Write(z, off, n), NEW y \in Zones
  PROVE  Forward(zone_descs[y], zone_descs'[y])
<1>1. /\ zone_descs \in ZoneType /\ zone_descs[y].wp \in Int /\ n \in Nat
  BY DEF ZoneInv, ZoneType, Lengths
<1>2. zone_descs[z].state # "FULL"
  BY DEF Write, WriteRefused
<1>3. zone_descs'[z].wp = zone_descs[z].wp + n /\ (y # z => zone_descs'[y] = zone_descs[y])
  BY <1>1 DEF Write, IncreaseWp, ZoneType
<1> QED
  BY <1>1, <1>2, <1>3 DEF Forward

(* __zns_write_zrwa moves the write pointer forward only.                   *)
LEMMA ZrwaForward ==
  ASSUME ZoneInv, NEW z \in Zones, NEW off \in Offsets, NEW n \in Lengths,
         ZrwaWrite(z, off, n) \/ ZrwaWriteNoBuffer(z, off, n), NEW y \in Zones
  PROVE  Forward(zone_descs[y], zone_descs'[y])
<1> DEFINE flush == ImplicitFlush(z, off + n - 1)
<1>1. /\ zone_descs \in ZoneType /\ zone_descs[y].wp \in Int /\ zone_descs[z].wp \in Int
  BY DEF ZoneInv, ZoneType
<1>2. zone_descs[z].zrwav /\ ~ZrwaRefused(z, off, n)
  BY DEF ZrwaWrite, ZrwaWriteNoBuffer
<1>3. zone_descs[z].state # "FULL"
  BY <1>2 DEF ZrwaRefused
<1>4. flush \in Nat
  <2>1. /\ zone_descs[z].wp \in Offsets /\ off + n - 1 \in Offsets /\ zone_descs[z].wp <= off
    BY <1>2, ZrwaAccepted
  <2>2. zone_descs[z].wp <= off + n - 1
    BY <2>1 DEF Offsets, Lengths
  <2> QED
    BY <1>1, <2>1, <2>2, FlushWithinZone
<1>5. \/ zone_descs' = IncreaseWp(z, StateForWrite(zone_descs[z].state), flush)
      \/ zone_descs' = [zone_descs EXCEPT ![z].state = StateForWrite(zone_descs[z].state)]
  BY DEF ZrwaWrite, ZrwaWriteNoBuffer
<1> HIDE DEF flush
<1>6. /\ zone_descs'[z].wp = zone_descs[z].wp + flush \/ zone_descs'[z].wp = zone_descs[z].wp
      /\ y # z => zone_descs'[y] = zone_descs[y]
  BY <1>1, <1>5 DEF IncreaseWp, ZoneType
<1> QED
  BY <1>1, <1>3, <1>4, <1>6 DEF Forward

(* Written data stays until a reset, whatever the commands and their order. *)
THEOREM OnlyResetRewindsZones == Spec => OnlyResetRewinds
<1> DEFINE AllForward == \A y \in Zones : Forward(zone_descs[y], zone_descs'[y])
<1>1. ASSUME IInv, Next PROVE AllForward
  <2> SUFFICES ASSUME NEW y \in Zones PROVE Forward(zone_descs[y], zone_descs'[y])
    OBVIOUS
  <2>1. zone_descs \in ZoneType /\ zone_descs[y].wp \in Int
    BY <1>1 DEF IInv, TypeOK, ZoneType
  <2>2. CASE UNCHANGED zone_descs
    BY <2>1, <2>2 DEF Forward
  <2>3. ASSUME NEW z \in Zones, NEW c \in Commands, ZmgmtSend(z, c[1], c[2], c[3])
        PROVE  Forward(zone_descs[y], zone_descs'[y])
    BY <2>1, <2>3, ZmgmtForward DEF ZmgmtSend, Commands
  <2>4. ASSUME NEW z \in Zones, NEW action, NEW zrwa, AllZonesStep(z, action, zrwa)
        PROVE  Forward(zone_descs[y], zone_descs'[y])
    <3>1. 0 \in Offsets
      BY GeometryAssumption DEF Offsets
    <3> QED
      BY <2>1, <2>4, <3>1, ZmgmtForward DEF AllZonesStep
  <2>5. 0 \in Zones /\ loop.zid \in Zones
    BY <1>1, ZoneCountAssumption DEF Zones, IInv, TypeOK
  <2>6. ASSUME NEW z \in Zones, NEW off, NEW n,
               \/ WriteNoBuffer(z, n) \/ WriteRefuse(z, off, n)
               \/ ZrwaWriteRefuse(z, off, n) \/ ZrwaWriteBug(z, off, n)
        PROVE  UNCHANGED zone_descs
    BY <2>6 DEF WriteNoBuffer, WriteRefuse, ZrwaWriteRefuse, ZrwaWriteBug, zoneVars
  <2>7. ASSUME NEW z \in Zones, NEW n \in Lengths, NEW off \in Offsets \cup {zone_descs[z].wp},
               Write(z, off, n)
        PROVE  Forward(zone_descs[y], zone_descs'[y])
    BY <1>1, <2>7, ZoneInvFromIInv, WriteForward DEF Write, Idle
  <2>8. ASSUME NEW z \in Zones, NEW off \in Offsets, NEW n \in Lengths,
               ZrwaWrite(z, off, n) \/ ZrwaWriteNoBuffer(z, off, n)
        PROVE  Forward(zone_descs[y], zone_descs'[y])
    BY <1>1, <2>8, ZoneInvFromIInv, ZrwaForward DEF ZrwaWrite, ZrwaWriteNoBuffer, Idle
  <2>9. ASSUME NEW b, WritebackDone(b)
        PROVE  UNCHANGED zone_descs
    BY <2>9 DEF WritebackDone, zoneVars
  <2> QED
    BY <1>1, <2>2, <2>3, <2>4, <2>5, <2>6, <2>7, <2>8, <2>9 DEF Next, SelectAll, SelectAllStep
<1>2. IInv /\ [Next]_vars => [AllForward]_vars
  BY <1>1
<1>3. AllForward => \A z \in Zones : LET old == zone_descs[z]
                                         new == zone_descs'[z] IN
        \/ new.state = "EMPTY" /\ new.wp = 0
        \/ new.wp >= old.wp /\ (old.state = "FULL" => new.state = "FULL")
  BY DEF Forward
<1> QED
  BY <1>2, <1>3, Invariance, PTL DEF Spec, OnlyResetRewinds

-----------------------------------------------------------------------------
(* The write buffers: one-shots, pages and LBAs.                            *)

(* A quotient and a remainder, and the only ones.                           *)
LEMMA Euclid ==
  ASSUME NEW a \in Nat, NEW k \in Nat \ {0}
  PROVE  /\ a \div k \in Nat /\ a % k \in 0 .. k - 1
         /\ a = k * (a \div k) + (a % k)
<1>1. a \div k \in Nat
  OBVIOUS
<1>2. a % k \in 0 .. k - 1
  BY ModRange
<1>3. a = k * (a \div k) + (a % k)
  OBVIOUS
<1> QED
  BY <1>1, <1>2, <1>3

LEMMA EuclidUnique ==
  ASSUME NEW k \in Nat \ {0}, NEW q \in Nat, NEW r \in 0 .. k - 1
  PROVE  (k * q + r) \div k = q /\ (k * q + r) % k = r
<1> DEFINE a == k * q + r
<1>1. a \in Nat
  OBVIOUS
<1>2. PICK d, e : d = a \div k /\ e = a % k
  OBVIOUS
<1>3. d \in Nat /\ e \in 0 .. k - 1 /\ a = k * d + e
  BY <1>1, <1>2, Euclid
<1>4. k * (d - q) = r - e
  BY <1>3
<1>5. d = q
  <2>1. ASSUME d > q PROVE FALSE
    <3>1. d - q - 1 \in Nat
      BY <1>3, <2>1
    <3>2. k * (d - q - 1) \in Nat
      BY <3>1
    <3>3. k * (d - q - 1) = r - e - k
      BY <1>3, <1>4
    <3> QED
      BY <1>3, <3>2, <3>3
  <2>2. ASSUME d < q PROVE FALSE
    <3>1. q - d - 1 \in Nat
      BY <1>3, <2>2
    <3>2. k * (q - d - 1) \in Nat
      BY <3>1
    <3>3. k * (q - d - 1) = e - r - k
      BY <1>3, <1>4
    <3> QED
      BY <1>3, <3>2, <3>3
  <2> QED
    BY <1>3, <2>1, <2>2
<1>6. e = r
  BY <1>3, <1>5
<1> QED
  BY <1>2, <1>5, <1>6

(* A one-shot of whole pages: its LBAs begin a multiple of its pages.       *)
LEMMA PartOfOneshot ==
  ASSUME NEW s \in Nat \ {0}, NEW P \in Nat \ {0}, NEW p \in Nat
  PROVE  (s * p) % (P * s) = s * p - (P * s) * (p \div P)
<1>1. PICK q, r : q = p \div P /\ r = p % P
  OBVIOUS
<1>2. q \in Nat /\ r \in 0 .. P - 1 /\ p = P * q + r
  BY <1>1, Euclid
<1>3. s * p = (P * s) * q + s * r
  BY <1>2
<1>4. s * r \in 0 .. P * s - 1
  <2>1. s * r \in Nat /\ P - 1 - r \in Nat
    BY <1>2
  <2>2. s * (P - 1 - r) \in Nat
    BY <2>1
  <2>3. s * r = P * s - s - s * (P - 1 - r)
    BY <1>2
  <2> QED
    BY <2>1, <2>2, <2>3
<1>5. P * s \in Nat \ {0}
  OBVIOUS
<1>6. PICK O, t : O = P * s /\ t = s * r
  OBVIOUS
<1>7. (O * q + t) % O = t
  BY <1>2, <1>4, <1>5, <1>6, EuclidUnique
<1>8. (s * p) % (P * s) = s * r
  BY <1>3, <1>6, <1>7
<1> QED
  BY <1>1, <1>2, <1>3, <1>8

(* A multiple of a multiple.                                                *)
LEMMA MultipleOfMultiple ==
  ASSUME NEW n \in Nat, NEW w \in Nat \ {0}, NEW s \in Nat \ {0}, n % w = 0, w % s = 0
  PROVE  \E m \in Nat : n = s * m
<1>1. PICK x, y : x = n \div w /\ y = w \div s
  OBVIOUS
<1>2. x \in Nat /\ n = w * x
  BY <1>1, Euclid
<1>3. y \in Nat /\ w = s * y
  BY <1>1, Euclid
<1>4. n = s * (y * x) /\ y * x \in Nat
  BY <1>2, <1>3
<1> QED
  BY <1>4

(* The page that holds the last of s * m LBAs.                              *)
LEMMA LastPage ==
  ASSUME NEW s \in Nat \ {0}, NEW m \in Nat \ {0}
  PROVE  (s * m - 1) \div s = m - 1
<1>1. m - 1 \in Nat /\ s - 1 \in 0 .. s - 1 /\ s * m - 1 = s * (m - 1) + (s - 1)
  OBVIOUS
<1>2. PICK q, r : q = m - 1 /\ r = s - 1
  OBVIOUS
<1>3. (s * q + r) \div s = q
  BY <1>1, <1>2, EuclidUnique
<1> QED
  BY <1>1, <1>2, <1>3

(* Products order as their factors do.                                      *)
LEMMA ProductOrder ==
  ASSUME NEW k \in Nat \ {0}, NEW a \in Nat, NEW b \in Nat, k * a < k * (b + 1)
  PROVE  a <= b
<1> SUFFICES ASSUME a > b PROVE FALSE
  OBVIOUS
<1>1. a - b - 1 \in Nat
  OBVIOUS
<1>2. k * (a - b - 1) \in Nat
  BY <1>1
<1>3. k * (a - b - 1) = k * a - k * (b + 1)
  OBVIOUS
<1> QED
  BY <1>2, <1>3

(* The one-shots that a run of pages ends are at most those between the     *)
(* one-shots of its two ends.                                               *)
LEMMA OneshotsEnded ==
  ASSUME NEW i \in Nat, NEW j \in Nat, i <= j + 1
  PROVE  /\ FullOneshots(i, j) \in Nat
         /\ FullOneshots(i, j) <= (j + 1) \div PgsPerOneshot - i \div PgsPerOneshot
<1> DEFINE P == PgsPerOneshot
           S == {p \in i .. j : EndsOneshot(p)}
<1>1. PICK c, d : c = i \div P /\ d = (j + 1) \div P
  OBVIOUS
<1>2. P \in Nat \ {0}
  BY GeometryAssumption
<1>3. /\ c \in Nat /\ P * c <= i /\ i < P * (c + 1)
      /\ d \in Nat /\ P * d <= j + 1 /\ j + 1 < P * (d + 1)
  <2>1. c \in Nat /\ i % P \in 0 .. P - 1 /\ i = P * c + (i % P)
    BY <1>1, <1>2, Euclid
  <2>2. j + 1 \in Nat
    OBVIOUS
  <2>3. d \in Nat /\ (j + 1) % P \in 0 .. P - 1 /\ j + 1 = P * d + ((j + 1) % P)
    BY <1>1, <1>2, <2>2, Euclid
  <2> HIDE DEF P
  <2>4. P * (c + 1) = P * c + P /\ P * (d + 1) = P * d + P
    BY <1>2, <2>1, <2>3
  <2> QED
    BY <1>2, <2>1, <2>3, <2>4
<1> DEFINE T == c + 1 .. d
           f == [p \in S |-> (p + 1) \div P]
<1>4. ASSUME NEW p \in S PROVE (p + 1) \div P \in T /\ p + 1 = P * ((p + 1) \div P)
  <2>1. PICK q : q = (p + 1) \div P
    OBVIOUS
  <2>2. p \in i .. j /\ (p + 1) % P = 0
    BY <1>4 DEF EndsOneshot
  <2>3. q \in Nat /\ p + 1 = P * q
    BY <1>2, <2>1, <2>2, Euclid
  <2> HIDE DEF P, S
  <2>4. P * c < p + 1 /\ p + 1 <= j + 1
    BY <1>2, <1>3, <2>2
  <2>5. P * q < P * (d + 1)
    BY <1>2, <1>3, <2>3, <2>4
  <2>6. q <= d
    BY <1>2, <1>3, <2>3, <2>5, ProductOrder
  <2>7. c + 1 <= q
    <3> SUFFICES ASSUME q <= c PROVE FALSE
      BY <1>3, <2>3
    <3>1. c - q \in Nat
      BY <1>3, <2>3
    <3>2. P * (c - q) \in Nat
      BY <1>2, <3>1
    <3>3. P * (c - q) = P * c - P * q
      BY <1>2, <1>3, <2>3
    <3> QED
      BY <1>2, <1>3, <2>3, <2>4, <3>2, <3>3
  <2> QED
    BY <1>3, <2>1, <2>3, <2>6, <2>7
<1>5. f \in Injection(S, T)
  <2>1. f \in [S -> T]
    BY <1>4
  <2>2. \A p, q \in S : f[p] = f[q] => p = q
    <3> SUFFICES ASSUME NEW p \in S, NEW q \in S, f[p] = f[q] PROVE p = q
      OBVIOUS
    <3>1. p + 1 = P * f[p] /\ q + 1 = P * f[q] /\ p \in Int /\ q \in Int
      BY <1>4
    <3> QED
      BY <3>1
  <2> HIDE DEF f, S, T
  <2> QED
    BY <2>1, <2>2 DEF Injection, IsInjective
<1>6. IsFiniteSet(T) /\ Cardinality(T) = IF c + 1 > d THEN 0 ELSE d - c
  <2>1. c + 1 \in Int /\ d - (c + 1) + 1 = d - c
    BY <1>3
  <2> QED
    BY <1>3, <2>1, FS_Interval
<1>7. Cardinality(S) <= Cardinality(T) /\ IsFiniteSet(S)
  <2> HIDE DEF f, S, T
  <2> QED
    BY <1>5, <1>6, FS_Injection
<1>8. c <= d
  <2>1. P * c < P * (d + 1)
    <3> HIDE DEF P
    <3> QED
      BY <1>2, <1>3
  <2> QED
    BY <1>2, <1>3, <2>1, ProductOrder
<1>9. Cardinality(S) \in Nat
  BY <1>7, FS_CardinalityType
<1> QED
  BY <1>1, <1>3, <1>6, <1>7, <1>8, <1>9 DEF FullOneshots

(* A write of whole pages: the one-shots it ends take no more of the buffer *)
(* than what had waited and what is added, less what waits afterwards.      *)
LEMMA OneshotBalance ==
  ASSUME NEW p \in Nat, NEW m \in Nat \ {0}
  PROVE  LET wp == secs_per_pg * p
             n == secs_per_pg * m
             full == FullOneshots(lba_to_lpn(wp), lba_to_lpn(wp + n - 1))
         IN  /\ full \in Nat
             /\ full * OneshotLbas <= (wp % OneshotLbas) + n - ((wp + n) % OneshotLbas)
<1>1. PICK s, P, O : s = secs_per_pg /\ P = PgsPerOneshot /\ O = OneshotLbas
  OBVIOUS
<1>2. s \in Nat \ {0} /\ P \in Nat \ {0} /\ O = P * s
  BY <1>1, GeometryAssumption DEF OneshotLbas
<1>3. PICK c, d : c = p \div P /\ d = (p + m) \div P
  OBVIOUS
<1>4. c \in Nat /\ d \in Nat
  <2>1. p + m \in Nat
    OBVIOUS
  <2> QED
    BY <1>2, <1>3, <2>1, Euclid
<1>5. (s * p) % O = s * p - O * c
  BY <1>2, <1>3, PartOfOneshot
<1>6. (s * p + s * m) % O = s * (p + m) - O * d
  <2>1. PICK t : t = p + m
    OBVIOUS
  <2>2. t \in Nat /\ s * p + s * m = s * t
    BY <1>2, <2>1
  <2>3. (s * t) % (P * s) = s * t - (P * s) * (t \div P)
    BY <1>2, <2>2, PartOfOneshot
  <2> QED
    BY <1>2, <1>3, <2>1, <2>2, <2>3
<1>7. lba_to_lpn(s * p) = p
  <2>1. (s * p + 0) \div s = p /\ 0 \in 0 .. s - 1
    BY <1>2, EuclidUnique
  <2>2. s * p + 0 = s * p
    BY <1>2
  <2> QED
    BY <1>1, <2>1, <2>2 DEF lba_to_lpn
<1>8. lba_to_lpn(s * p + s * m - 1) = p + m - 1
  <2>0. PICK t : t = p + m
    OBVIOUS
  <2>1. t \in Nat \ {0} /\ s * p + s * m - 1 = s * t - 1
    BY <1>2, <2>0
  <2>2. (s * t - 1) \div s = t - 1
    BY <1>2, <2>1, LastPage
  <2> QED
    BY <1>1, <2>0, <2>1, <2>2 DEF lba_to_lpn
<1>9. FullOneshots(p, p + m - 1) \in Nat /\ FullOneshots(p, p + m - 1) <= d - c
  <2>1. p + m - 1 \in Nat /\ p <= p + m - 1 + 1 /\ p + m - 1 + 1 = p + m
    OBVIOUS
  <2> QED
    BY <1>1, <1>3, <2>1, OneshotsEnded
<1>10. PICK k : k = FullOneshots(p, p + m - 1)
  OBVIOUS
<1>11. k * O <= (d - c) * O
  <2>1. k \in Nat /\ d - c - k \in Nat /\ O \in Nat
    BY <1>2, <1>4, <1>9, <1>10
  <2>2. (d - c - k) * O \in Nat
    BY <2>1
  <2>3. (d - c - k) * O = (d - c) * O - k * O
    BY <1>4, <2>1
  <2> QED
    BY <1>4, <2>1, <2>2, <2>3
<1>12. (d - c) * O = (s * p - O * c) + s * m - (s * (p + m) - O * d)
  BY <1>2, <1>4
<1>13. k * O <= ((s * p) % O) + s * m - ((s * p + s * m) % O)
  BY <1>5, <1>6, <1>11, <1>12
<1> QED
  BY <1>1, <1>7, <1>8, <1>9, <1>10, <1>13

-----------------------------------------------------------------------------
(* Sums over the zones, as Waiting takes them: entry k is that of zone k-1. *)

Sums(n, c, f) == f = [q \in 0 .. n |-> IF q = 0 THEN 0 ELSE f[q-1] + c[q]]

(* A set of naturals has a least element.                                   *)
LEMMA LeastElement ==
  ASSUME NEW T \in SUBSET Nat, T # {}
  PROVE  \E x \in T : \A y \in T : x <= y
<1> DEFINE Less == {p \in Nat \X Nat : p[1] < p[2]}
<1>1. OpToRel(<, Nat) = Less
  BY DEF OpToRel
<1>2. IsWellFoundedOn(OpToRel(<, Nat), Nat)
  BY NatLessThanWellFounded
<1>3. \E x \in T : \A y \in T : ~ (<<y, x>> \in Less)
  BY <1>1, <1>2, WFMin, ZenonT(30)
<1>4. \A x, y \in Nat : ~ (<<y, x>> \in Less) => x <= y
  OBVIOUS
<1> HIDE DEF Less
<1> QED
  BY <1>3, <1>4

(* Every family of numbers has its partial sums.                            *)
LEMMA SumExists ==
  ASSUME NEW n \in Nat, NEW c \in [1 .. n -> Int]
  PROVE  \E f \in [0 .. n -> Int] : Sums(n, c, f)
<1> DEFINE T == {m \in 0 .. n : ~ \E f \in [0 .. m -> Int] : Sums(m, c, f)}
<1>1. T \in SUBSET Nat
  OBVIOUS
<1>2. ASSUME T # {} PROVE FALSE
  <2>1. PICK m \in T : \A y \in T : m <= y
    <3> HIDE DEF T
    <3> QED
      BY <1>1, <1>2, LeastElement
  <2>2. m \in 0 .. n /\ ~ \E f \in [0 .. m -> Int] : Sums(m, c, f)
    BY <2>1
  <2>3. CASE m = 0
    <3> DEFINE f == [q \in 0 .. 0 |-> 0]
    <3>1. f \in [0 .. 0 -> Int] /\ Sums(0, c, f)
      BY DEF Sums
    <3> QED
      BY <2>2, <2>3, <3>1
  <2>4. CASE m # 0
    <3>1. m - 1 \in 0 .. n /\ m - 1 < m /\ m \in 1 .. n
      BY <2>2, <2>4
    <3>2. m - 1 \notin T
      BY <2>1, <3>1
    <3>3. PICK g \in [0 .. m - 1 -> Int] : Sums(m - 1, c, g)
      BY <3>1, <3>2
    <3>4. \A q \in 0 .. m - 1 : g[q] = IF q = 0 THEN 0 ELSE g[q-1] + c[q]
      <4>1. g = [q \in 0 .. m - 1 |-> IF q = 0 THEN 0 ELSE g[q-1] + c[q]]
        BY <3>3 DEF Sums
      <4> HIDE DEF T
      <4> QED
        BY <4>1
    <3> DEFINE f == [q \in 0 .. m |-> IF q = m THEN g[m-1] + c[m] ELSE g[q]]
    <3>5. f \in [0 .. m -> Int]
      <4>1. g[m-1] + c[m] \in Int
        BY <3>1, <3>3
      <4>2. \A q \in 0 .. m : q # m => q \in 0 .. m - 1 /\ g[q] \in Int
        BY <3>1, <3>3
      <4> QED
        BY <4>1, <4>2
    <3>6. ASSUME NEW q \in 0 .. m PROVE f[q] = IF q = 0 THEN 0 ELSE f[q-1] + c[q]
      <4>1. CASE q = m
        <5>1. q # 0 /\ q - 1 \in 0 .. m /\ q - 1 # m /\ f[q] = g[m-1] + c[m] /\ f[q-1] = g[m-1]
          BY <3>1, <4>1
        <5> QED
          BY <4>1, <5>1
      <4>2. CASE q # m /\ q # 0
        <5>1. q \in 0 .. m - 1 /\ q - 1 \in 0 .. m /\ q - 1 # m /\ f[q] = g[q] /\ f[q-1] = g[q-1]
          BY <3>1, <4>2
        <5> QED
          BY <3>4, <4>2, <5>1
      <4>3. CASE q = 0
        <5>1. q \in 0 .. m - 1 /\ f[q] = g[q]
          BY <3>1, <4>3
        <5> QED
          BY <3>4, <4>3, <5>1
      <4> QED
        BY <4>1, <4>2, <4>3
    <3>7. Sums(m, c, f)
      <4>1. f = [q \in 0 .. m |-> f[q]]
        OBVIOUS
      <4> HIDE DEF f
      <4> QED
        BY <3>6, <4>1 DEF Sums
    <3> QED
      BY <2>2, <3>5, <3>7
  <2> QED
    BY <2>3, <2>4
<1>3. n \in 0 .. n
  OBVIOUS
<1> QED
  BY <1>2, <1>3

(* A sum moves with one of its terms.                                       *)
LEMMA SumShift ==
  ASSUME NEW n \in Nat, NEW c \in [1 .. n -> Int], NEW k \in 1 .. n, NEW v \in Int,
         NEW f, NEW g, NEW s, Sums(n, c, f), Sums(n, s, g),
         s[k] = c[k] + v, \A q \in 1 .. n : q # k => s[q] = c[q]
  PROVE  f[n] \in Int /\ g[n] = f[n] + v
<1>0. /\ \A q \in 0 .. n : f[q] = IF q = 0 THEN 0 ELSE f[q-1] + c[q]
      /\ \A q \in 0 .. n : g[q] = IF q = 0 THEN 0 ELSE g[q-1] + s[q]
  <2>1. f = [q \in 0 .. n |-> IF q = 0 THEN 0 ELSE f[q-1] + c[q]]
    BY DEF Sums
  <2>2. g = [q \in 0 .. n |-> IF q = 0 THEN 0 ELSE g[q-1] + s[q]]
    BY DEF Sums
  <2>3. \A q \in 0 .. n : f[q] = IF q = 0 THEN 0 ELSE f[q-1] + c[q]
    BY <2>1
  <2>4. \A q \in 0 .. n : g[q] = IF q = 0 THEN 0 ELSE g[q-1] + s[q]
    BY <2>2
  <2> QED
    BY <2>3, <2>4
<1> DEFINE Good(q) == f[q] \in Int /\ g[q] = f[q] + (IF q >= k THEN v ELSE 0)
           T == {q \in 0 .. n : ~Good(q)}
<1>1. T \in SUBSET Nat
  OBVIOUS
<1>2. ASSUME T # {} PROVE FALSE
  <2>1. PICK q \in T : \A y \in T : q <= y
    <3> HIDE DEF T
    <3> QED
      BY <1>1, <1>2, LeastElement
  <2>2. q \in 0 .. n /\ ~Good(q)
    BY <2>1
  <2>3. CASE q = 0
    <3>1. f[0] = 0 /\ g[0] = 0 /\ ~(0 >= k)
      BY <1>0, <2>2, <2>3
    <3> QED
      BY <2>2, <2>3, <3>1
  <2>4. CASE q # 0
    <3>1. q - 1 \in 0 .. n /\ q - 1 < q /\ q \in 1 .. n /\ q \in Int /\ k \in Int
      BY <2>2, <2>4
    <3>2. Good(q - 1)
      BY <2>1, <3>1
    <3>3. f[q] = f[q-1] + c[q] /\ g[q] = g[q-1] + s[q] /\ c[q] \in Int
      BY <1>0, <2>2, <2>4, <3>1
    <3>4. s[q] = c[q] + (IF q = k THEN v ELSE 0)
      BY <3>1, <3>3
    <3> DEFINE x == f[q-1]
               y == g[q-1]
    <3>5. x \in Int /\ y = x + (IF q - 1 >= k THEN v ELSE 0)
      BY <3>2
    <3>6. f[q] = x + c[q] /\ g[q] = y + s[q]
      BY <3>3
    <3> HIDE DEF x, y, T
    <3>7. Good(q)
      BY <3>1, <3>3, <3>4, <3>5, <3>6, SMTT(30)
    <3> QED
      BY <2>2, <3>7
  <2> QED
    BY <2>3, <2>4
<1>3. n \in 0 .. n /\ n >= k
  OBVIOUS
<1>4. Good(n)
  BY <1>2, <1>3
<1> QED
  BY <1>3, <1>4

Share(b) == [k \in 1 .. nr_zones |-> IF write_buffer(k-1) = b THEN Partial(k-1) ELSE 0]
WaitSum(b, f) ==
  f = [k \in 0 .. nr_zones |->
         IF k = 0 THEN 0
         ELSE f[k-1] + (IF write_buffer(k-1) = b THEN Partial(k-1) ELSE 0)]

WaitingSums ==
  zone_descs \in ZoneType =>
    \A b : \E f : Sums(nr_zones, Share(b), f) /\ Waiting(b) = f[nr_zones]

LEMMA PartialType ==
  ASSUME zone_descs \in ZoneType, NEW z \in Zones
  PROVE  Partial(z) \in Nat
<1>1. OneshotLbas \in Nat \ {0} /\ zone_descs[z].wp \in Nat
  BY OneshotPositive DEF ZoneType
<1>2. zone_descs[z].wp % OneshotLbas \in 0 .. OneshotLbas - 1
  BY <1>1, ModRange, SMTT(30)
<1> QED
  BY <1>1, <1>2 DEF Partial

LEMMA WaitingSumsHolds == WaitingSums
<1> SUFFICES ASSUME zone_descs \in ZoneType, NEW b
             PROVE  \E f : Sums(nr_zones, Share(b), f) /\ Waiting(b) = f[nr_zones]
  BY DEF WaitingSums
<1>1. nr_zones \in Nat /\ \A k \in 1 .. nr_zones : k - 1 \in Zones
  BY ZoneCountAssumption DEF Zones
<1>2. Share(b) \in [1 .. nr_zones -> Int]
  BY <1>1, PartialType DEF Share
<1>3. ASSUME NEW f PROVE WaitSum(b, f) <=> Sums(nr_zones, Share(b), f)
  <2>1. \A k \in 0 .. nr_zones : k # 0 =>
          Share(b)[k] = IF write_buffer(k-1) = b THEN Partial(k-1) ELSE 0
    BY <1>1 DEF Share
  <2>2. [k \in 0 .. nr_zones |->
           IF k = 0 THEN 0
           ELSE f[k-1] + (IF write_buffer(k-1) = b THEN Partial(k-1) ELSE 0)]
        = [q \in 0 .. nr_zones |-> IF q = 0 THEN 0 ELSE f[q-1] + Share(b)[q]]
    BY <2>1
  <2> QED
    BY <2>2 DEF WaitSum, Sums
<1>4. \E f : WaitSum(b, f)
  <2>1. PICK n, c : n = nr_zones /\ c = Share(b)
    OBVIOUS
  <2>2. n \in Nat /\ c \in [1 .. n -> Int]
    BY <1>1, <1>2, <2>1
  <2>3. \E f : Sums(n, c, f)
    BY <2>2, SumExists
  <2> QED
    BY <1>3, <2>1, <2>3
<1>5. Waiting(b) = (CHOOSE f : WaitSum(b, f))[nr_zones]
  BY DEF Waiting, WaitSum
<1> QED
  BY <1>3, <1>4, <1>5

LEMMA WaitingSumsHoldsNext == WaitingSums'
BY WaitingSumsHolds, PTL

(* What waits in a buffer moves with one zone that shares it.               *)
LEMMA WaitingShifts ==
  ASSUME zone_descs \in ZoneType, zone_descs' \in ZoneType, NEW z \in Zones,
         \A y \in Zones \ {z} : zone_descs'[y] = zone_descs[y], NEW b
  PROVE  /\ Waiting(b) \in Int
         /\ Waiting(b)' = Waiting(b)
              + (IF write_buffer(z) = b THEN Partial(z)' - Partial(z) ELSE 0)
<1>1. PICK f : Sums(nr_zones, Share(b), f) /\ Waiting(b) = f[nr_zones]
  BY WaitingSumsHolds DEF WaitingSums
<1>2. PICK g : Sums(nr_zones, Share(b)', g) /\ Waiting(b)' = g[nr_zones]
  BY WaitingSumsHoldsNext DEF WaitingSums
<1>3. PICK n, c, s, v : /\ n = nr_zones /\ c = Share(b) /\ s = Share(b)'
                        /\ v = IF write_buffer(z) = b THEN Partial(z)' - Partial(z) ELSE 0
  OBVIOUS
<1>4. n \in Nat /\ z + 1 \in 1 .. n /\ z + 1 - 1 = z /\ z \in Int
  BY <1>3, ZoneCountAssumption DEF Zones
<1>5. Partial(z) \in Nat /\ Partial(z)' \in Nat
  <2>1. Partial(z)' \in Nat
    <3>1. OneshotLbas \in Nat \ {0} /\ zone_descs'[z].wp \in Nat
      BY OneshotPositive DEF ZoneType
    <3>2. PICK x \in Int, k \in Nat \ {0} : x = zone_descs'[z].wp /\ k = OneshotLbas
      BY <3>1
    <3>3. x % k \in 0 .. k - 1
      BY ModRange
    <3> QED
      BY <3>1, <3>2, <3>3 DEF Partial
  <2> QED
    BY <2>1, PartialType
<1>6. v \in Int
  BY <1>3, <1>5
<1>7. c \in [1 .. n -> Int]
  <2>1. \A k \in 1 .. n : k - 1 \in Zones
    BY <1>3, ZoneCountAssumption DEF Zones
  <2> QED
    BY <1>3, <2>1, PartialType DEF Share
<1>8. s[z + 1] = c[z + 1] + v
  BY <1>3, <1>4, <1>5 DEF Share
<1>9. \A q \in 1 .. n : q # z + 1 => s[q] = c[q]
  <2> SUFFICES ASSUME NEW q \in 1 .. n, q # z + 1 PROVE s[q] = c[q]
    OBVIOUS
  <2>1. q - 1 \in Zones \ {z}
    BY <1>3, <1>4, ZoneCountAssumption DEF Zones
  <2>2. Partial(q - 1)' = Partial(q - 1)
    BY <2>1 DEF Partial
  <2> QED
    BY <1>3, <2>2 DEF Share
<1>10. f[n] \in Int /\ g[n] = f[n] + v
  <2>1. PICK k : k = z + 1
    OBVIOUS
  <2>2. /\ n \in Nat /\ c \in [1 .. n -> Int] /\ k \in 1 .. n /\ v \in Int
        /\ s[k] = c[k] + v /\ \A q \in 1 .. n : q # k => s[q] = c[q]
    BY <1>4, <1>6, <1>7, <1>8, <1>9, <2>1
  <2>3. Sums(n, c, f) /\ Sums(n, s, g)
    BY <1>1, <1>2, <1>3
  <2> QED
    BY <2>2, <2>3, SumShift, ZenonT(60)
<1> QED
  BY <1>1, <1>2, <1>3, <1>10

-----------------------------------------------------------------------------
(* The space of the write buffers.                                          *)

(* What writes leave behind in the zones they may go on writing: whole pages. *)
PagesWhole ==
  \A z \in Zones : LET zd == zone_descs[z] IN
    zd.state \in Active /\ ~zd.zrwav => zd.wp % secs_per_pg = 0

(* A write unit, which every accepted write is a multiple of, is of whole   *)
(* logical pages.                                                           *)
UnitsOfPages == write_unit_size % secs_per_pg = 0

PendingType == [Buffers -> [full : Nat, tail : Nat]]

(* What an operation other than a buffered write does to a zone: nothing    *)
(* new waits for a one-shot.                                                *)
NothingWaits(z) ==
  LET old == zone_descs[z]
      new == zone_descs'[z]
  IN  new.state \in Active /\ ~new.zrwav =>
        (old.state \in Active /\ ~old.zrwav /\ new.wp = old.wp) \/ new.wp = 0

LEMMA ZeroMod ==
  ASSUME NEW k \in Nat \ {0}
  PROVE  0 % k = 0
<1>1. 0 \in 0 .. k - 1 /\ k \in Nat
  OBVIOUS
<1> QED
  BY <1>1, ModSmall

(* A step that takes nothing for a write keeps the space accounted for.     *)
LEMMA NothingWaitsKeeps ==
  ASSUME zone_descs \in ZoneType, zone_descs' \in ZoneType, PagesWhole,
         WriteBufferNotOverCommitted, remaining \in [Buffers -> Nat],
         remaining' \in [Buffers -> Nat], pending \in PendingType,
         NEW z \in Zones, \A y \in Zones \ {z} : zone_descs'[y] = zone_descs[y],
         NothingWaits(z),
         \A b \in WriteBuffers : remaining'[b] <= remaining[b] /\ pending'[b] = pending[b]
  PROVE  PagesWhole' /\ WriteBufferNotOverCommitted'
<1>1. PagesWhole'
  <2> SUFFICES ASSUME NEW y \in Zones, zone_descs'[y].state \in Active, ~zone_descs'[y].zrwav
               PROVE  zone_descs'[y].wp % secs_per_pg = 0
    BY DEF PagesWhole
  <2>1. CASE y # z
    BY <2>1 DEF PagesWhole
  <2>2. CASE y = z
    BY <2>2, ZeroMod, GeometryAssumption DEF PagesWhole, NothingWaits
  <2> QED
    BY <2>1, <2>2
<1>2. Partial(z)' <= Partial(z)
  <2>1. Partial(z) \in Nat
    BY PartialType
  <2>2. CASE zone_descs'[z].wp = 0
    <3>1. 0 % OneshotLbas = 0
      BY ZeroMod, OneshotPositive
    <3>2. Partial(z)' = 0
      BY <2>2, <3>1 DEF Partial
    <3> QED
      BY <2>1, <3>2
  <2>3. CASE ~(zone_descs'[z].state \in Active /\ ~zone_descs'[z].zrwav)
    BY <2>1, <2>3 DEF Partial
  <2>4. CASE /\ zone_descs'[z].state \in Active /\ ~zone_descs'[z].zrwav
             /\ zone_descs[z].state \in Active /\ ~zone_descs[z].zrwav
             /\ zone_descs'[z].wp = zone_descs[z].wp
    <3>1. Partial(z)' = Partial(z)
      BY <2>4 DEF Partial
    <3> QED
      BY <2>1, <3>1
  <2> QED
    BY <2>2, <2>3, <2>4 DEF NothingWaits
<1>3. Partial(z) \in Nat /\ Partial(z)' \in Int
  <2>1. Partial(z)' \in Int
    <3>1. OneshotLbas \in Nat \ {0} /\ zone_descs'[z].wp \in Int
      BY OneshotPositive DEF ZoneType
    <3> QED
      BY <3>1 DEF Partial
  <2> QED
    BY <2>1, PartialType
<1>4. ASSUME NEW b \in WriteBuffers
      PROVE  remaining'[b] + pending'[b].full * OneshotLbas + pending'[b].tail * unaligned_space
               + Waiting(b)' <= BufferSize(b)
  <2>1. Waiting(b) \in Int /\ Waiting(b)' \in Int /\ Waiting(b)' <= Waiting(b)
    BY <1>2, <1>3, WaitingShifts
  <2>2. b \in Buffers /\ BufferSize(b) \in Nat
    BY BufferAssumption DEF Buffers, BufferSize
  <2>3. PICK x : x = pending[b].full * OneshotLbas + pending[b].tail * unaligned_space
    OBVIOUS
  <2>4. x \in Int
    BY <2>2, <2>3, OneshotPositive DEF PendingType
  <2>5. remaining[b] + x + Waiting(b) <= BufferSize(b)
    <3>1. /\ remaining[b] \in Int /\ pending[b].full * OneshotLbas \in Int
          /\ pending[b].tail * unaligned_space \in Int
      BY <2>2, OneshotPositive DEF PendingType
    <3> QED
      BY <2>1, <2>3, <3>1 DEF WriteBufferNotOverCommitted
  <2>6. remaining'[b] + x + Waiting(b)' <= BufferSize(b)
    BY <2>1, <2>2, <2>4, <2>5
  <2>7. /\ remaining'[b] \in Int /\ pending[b].full * OneshotLbas \in Int
        /\ pending[b].tail * unaligned_space \in Int /\ pending'[b] = pending[b]
    BY <2>2, OneshotPositive DEF PendingType
  <2> QED
    BY <2>1, <2>3, <2>6, <2>7
<1> QED
  BY <1>1, <1>4 DEF WriteBufferNotOverCommitted, BufferSize

(* What a zone management command does to the space: only a reset touches a *)
(* buffer, and it is the zone's own ZRWA buffer.                            *)
SpaceKept(z) ==
  /\ NothingWaits(z)
  /\ \A y \in Zones \ {z} : zone_descs'[y] = zone_descs[y]
  /\ \A b \in WriteBuffers : remaining'[b] = remaining[b]

LEMMA ZmgmtSpace ==
  ASSUME zone_descs \in ZoneType, remaining \in [Buffers -> Nat], WritePointerMatchesState,
         NEW z \in Zones, NEW off, NEW action, NEW zrwa, NEW s,
         zmgmt_send(z, off, action, zrwa, s)
  PROVE  SpaceKept(z)
<1>1. ASSUME Unchanged PROVE SpaceKept(z)
  BY <1>1 DEF Unchanged, SpaceKept, NothingWaits
<1>2. ASSUME close_zone(z, s), ~Unchanged PROVE SpaceKept(z)
  <2>1. /\ zone_descs[z].state \in Opened
        /\ zone_descs' = [zone_descs EXCEPT ![z].state = "CLOSED"] /\ UNCHANGED remaining
    BY <1>2 DEF close_zone
  <2>2. /\ zone_descs'[z].wp = zone_descs[z].wp /\ zone_descs'[z].zrwav = zone_descs[z].zrwav
        /\ \A y \in Zones \ {z} : zone_descs'[y] = zone_descs[y]
    BY <2>1 DEF ZoneType
  <2> QED
    BY <2>1, <2>2 DEF SpaceKept, NothingWaits, Active
<1>3. ASSUME finish_zone(z, s), ~Unchanged PROVE SpaceKept(z)
  <2>1. zone_descs' = [zone_descs EXCEPT ![z].state = "FULL"] /\ UNCHANGED remaining
    BY <1>3 DEF finish_zone
  <2>2. /\ zone_descs'[z].state = "FULL"
        /\ \A y \in Zones \ {z} : zone_descs'[y] = zone_descs[y]
    BY <2>1 DEF ZoneType
  <2> QED
    BY <2>1, <2>2 DEF SpaceKept, NothingWaits, Active, Opened
<1>4. ASSUME open_zone(z, zrwa, s), ~Unchanged PROVE SpaceKept(z)
  <2>1. /\ ~OpenRefused(zone_descs[z].state, zrwa) /\ UNCHANGED remaining
        /\ zone_descs' = [zone_descs EXCEPT ![z].state = "OPENED_EXPL",
             ![z].zrwav = @ \/ (zone_descs[z].state = "EMPTY" /\ zrwa)]
    BY <1>4 DEF open_zone
  <2>2. /\ zone_descs'[z].wp = zone_descs[z].wp
        /\ ~zone_descs'[z].zrwav => ~zone_descs[z].zrwav
        /\ \A y \in Zones \ {z} : zone_descs'[y] = zone_descs[y]
    BY <2>1 DEF ZoneType
  <2>3. zone_descs[z].state \in Active \/ zone_descs[z].wp = 0
    BY <2>1 DEF OpenRefused, ZoneType, ZoneStates, WritePointerMatchesState
  <2> QED
    BY <2>1, <2>2, <2>3 DEF SpaceKept, NothingWaits
<1>5. ASSUME reset_zone(z, s), ~Unchanged PROVE SpaceKept(z)
  <2>1. /\ zone_descs' = [zone_descs EXCEPT ![z] =
                            [state |-> "EMPTY", wp |-> 0, zrwav |-> FALSE]]
        /\ remaining' = [remaining EXCEPT ![zwra_buffer(z)] = BufferSize(zwra_buffer(z))]
    BY <1>5 DEF reset_zone
  <2>2. zone_descs'[z].wp = 0 /\ \A y \in Zones \ {z} : zone_descs'[y] = zone_descs[y]
    BY <2>1 DEF ZoneType
  <2>3. \A b \in WriteBuffers : b # zwra_buffer(z) /\ b \in Buffers
    BY DEF WriteBuffers, zwra_buffer, Buffers
  <2> QED
    BY <2>1, <2>2, <2>3 DEF SpaceKept, NothingWaits
<1>6. ASSUME offline_zone(z, s), ~Unchanged PROVE SpaceKept(z)
  <2>1. zone_descs' = [zone_descs EXCEPT ![z].state = "OFFLINE"] /\ UNCHANGED remaining
    BY <1>6 DEF offline_zone
  <2>2. /\ zone_descs'[z].state = "OFFLINE"
        /\ \A y \in Zones \ {z} : zone_descs'[y] = zone_descs[y]
    BY <2>1 DEF ZoneType
  <2> QED
    BY <2>1, <2>2 DEF SpaceKept, NothingWaits, Active, Opened
<1>7. ASSUME flush_explicit_zrwa(z, off, s), ~Unchanged PROVE SpaceKept(z)
  <2> DEFINE st == IF off + 1 = ZoneLbas THEN "FULL" ELSE zone_descs[z].state
  <2>1. /\ ~FlushRefused(z, off) /\ UNCHANGED remaining
        /\ zone_descs' = [zone_descs EXCEPT ![z] =
                            [state |-> st, wp |-> off + 1, zrwav |-> @.zrwav]]
    BY <1>7 DEF flush_explicit_zrwa
  <2>2. zone_descs[z].zrwav
    BY <2>1 DEF FlushRefused
  <2> HIDE DEF st
  <2>3. zone_descs'[z].zrwav /\ \A y \in Zones \ {z} : zone_descs'[y] = zone_descs[y]
    BY <2>1, <2>2 DEF ZoneType
  <2> QED
    BY <2>1, <2>3 DEF SpaceKept, NothingWaits
<1> QED
  BY <1>1, <1>2, <1>3, <1>4, <1>5, <1>6, <1>7 DEF zmgmt_send, unknown_action

(* A buffered write of n LBAs at the write pointer, and what it enqueues.   *)
LEMMA WriteSpace ==
  ASSUME UnitsOfPages, ZoneInv, pending \in PendingType, zone_descs' \in ZoneType,
         PagesWhole, WriteBufferNotOverCommitted,
         NEW z \in Zones, NEW off \in Offsets \cup {zone_descs[z].wp}, NEW n \in Lengths,
         Write(z, off, n)
  PROVE  PagesWhole' /\ WriteBufferNotOverCommitted'
<1> DEFINE state == zone_descs[z].state
           wp == zone_descs[z].wp
           b == write_buffer(z)
           full == FullOneshots(lba_to_lpn(wp), lba_to_lpn(wp + n - 1))
           tail == ZoneTails(lba_to_lpn(wp + n - 1))
<1>1. /\ ~zone_descs[z].zrwav /\ ~WriteRefused(z, off, n) /\ remaining[b] >= n
      /\ remaining' = [remaining EXCEPT ![b] = @ - n]
      /\ zone_descs' = IncreaseWp(z, StateForWrite(state), n)
      /\ Enqueue(b, FullOneshots(lba_to_lpn(off), lba_to_lpn(off + n - 1)),
                 ZoneTails(lba_to_lpn(off + n - 1)))
  BY DEF Write
<1>2. /\ zone_descs \in ZoneType /\ remaining \in [Buffers -> Nat] /\ n \in Nat \ {0}
      /\ wp \in Nat
  BY DEF ZoneInv, Lengths, ZoneType
<1>3. /\ off = wp /\ SameZone(off, n) /\ state \in Active \cup {"EMPTY"}
      /\ n % write_unit_size = 0
  BY <1>1, <1>2 DEF WriteRefused, ZoneType, ZoneStates
<1>4. wp + n <= ZoneLbas
  <2>1. wp # ZoneLbas /\ wp \in 0 .. ZoneLbas
    <3>1. wp \in 0 .. ZoneLbas
      BY <1>2 DEF ZoneType
    <3>2. CASE state \in Active
      BY <3>1, <3>2 DEF ZoneInv, WritePointerMatchesState
    <3>3. CASE state = "EMPTY"
      BY <3>1, <3>3, GeometryAssumption DEF ZoneInv, WritePointerMatchesState
    <3> QED
      BY <1>3, <3>2, <3>3
  <2>2. wp \in Offsets
    BY <2>1, GeometryAssumption DEF Offsets
  <2> QED
    BY <1>3, <2>2, WithinZone
<1>5. wp % secs_per_pg = 0
  <2>1. CASE state \in Active
    BY <1>1, <2>1 DEF PagesWhole
  <2>2. CASE state = "EMPTY"
    BY <2>2, ZeroMod, GeometryAssumption DEF ZoneInv, WritePointerMatchesState
  <2> QED
    BY <1>3, <2>1, <2>2
<1>6. PICK p \in Nat, m \in Nat \ {0}, L \in Nat \ {0} :
        wp = secs_per_pg * p /\ n = secs_per_pg * m /\ ZoneLbas = secs_per_pg * L
  <2>1. /\ secs_per_pg \in Nat \ {0} /\ write_unit_size \in Nat \ {0}
        /\ ZoneLbas \in Nat \ {0} /\ ZoneLbas % secs_per_pg = 0
    BY GeometryAssumption
  <2>2. \E p \in Nat : wp = secs_per_pg * p
    <3>1. PICK x \in Nat, k \in Nat \ {0} : x = wp /\ k = secs_per_pg
      BY <1>2, <2>1
    <3>2. x = k * (x \div k) + (x % k) /\ x \div k \in Nat
      BY Euclid
    <3>3. x = k * (x \div k)
      BY <1>5, <3>1, <3>2
    <3> QED
      BY <3>1, <3>2, <3>3
  <2>3. PICK m \in Nat : n = secs_per_pg * m
    BY <1>2, <1>3, <2>1, MultipleOfMultiple, ZenonT(30) DEF UnitsOfPages
  <2>4. PICK L \in Nat : ZoneLbas = secs_per_pg * L
    <3>1. PICK x \in Nat, k \in Nat \ {0} : x = ZoneLbas /\ k = secs_per_pg
      BY <2>1
    <3>2. x = k * (x \div k) + (x % k) /\ x \div k \in Nat
      BY Euclid
    <3>3. x = k * (x \div k)
      BY <2>1, <3>1, <3>2
    <3> QED
      BY <3>1, <3>2, <3>3
  <2>5. m # 0 /\ L # 0
    BY <1>2, <2>1, <2>3, <2>4
  <2> QED
    BY <2>2, <2>3, <2>4, <2>5
<1>7. /\ full \in Nat
      /\ full * OneshotLbas <= (wp % OneshotLbas) + n - ((wp + n) % OneshotLbas)
  BY <1>6, OneshotBalance
<1>8. /\ zone_descs'[z].state = (IF wp + n = ZoneLbas THEN "FULL" ELSE StateForWrite(state))
      /\ zone_descs'[z].wp = wp + n /\ zone_descs'[z].zrwav = zone_descs[z].zrwav
      /\ \A y \in Zones \ {z} : zone_descs'[y] = zone_descs[y]
  BY <1>1, <1>2 DEF IncreaseWp, FillsZone, ZoneType
<1>9. PagesWhole'
  <2> SUFFICES ASSUME NEW y \in Zones, zone_descs'[y].state \in Active, ~zone_descs'[y].zrwav
               PROVE  zone_descs'[y].wp % secs_per_pg = 0
    BY DEF PagesWhole
  <2>1. CASE y # z
    BY <1>8, <2>1 DEF PagesWhole
  <2>2. CASE y = z
    <3>1. PICK k \in Nat \ {0}, q \in Nat : k = secs_per_pg /\ q = p + m
      BY GeometryAssumption
    <3>2. 0 \in 0 .. k - 1 /\ wp + n = k * q + 0
      BY <1>6, <3>1
    <3>3. (k * q + 0) % k = 0
      BY <3>2, EuclidUnique
    <3> HIDE DEF wp
    <3> QED
      BY <1>8, <2>2, <3>1, <3>2, <3>3
  <2> QED
    BY <2>1, <2>2
<1>10. Partial(z) = wp % OneshotLbas
  <2>1. CASE state \in Active
    BY <1>1, <2>1 DEF Partial
  <2>2. CASE state = "EMPTY"
    <3>1. wp = 0 /\ 0 % OneshotLbas = 0
      BY <2>2, ZeroMod, OneshotPositive DEF ZoneInv, WritePointerMatchesState
    <3> QED
      BY <2>2, <3>1 DEF Partial, Active, Opened
  <2> QED
    BY <1>3, <2>1, <2>2
<1>11. Partial(z)' = IF wp + n = ZoneLbas THEN 0 ELSE (wp + n) % OneshotLbas
  <2>1. CASE wp + n = ZoneLbas
    <3>1. zone_descs'[z].state \notin Active
      BY <1>8, <2>1 DEF Active, Opened
    <3> QED
      BY <2>1, <3>1 DEF Partial
  <2>2. CASE wp + n # ZoneLbas
    <3>1. zone_descs'[z].state \in Active /\ ~zone_descs'[z].zrwav
      BY <1>1, <1>3, <1>8, <2>2 DEF StateForWrite, Active, Opened
    <3> QED
      BY <1>8, <2>2, <3>1 DEF Partial
  <2> QED
    BY <2>1, <2>2
<1>12. /\ tail \in {0, 1}
       /\ tail = 1 => wp + n = ZoneLbas
  <2>1. PICK s \in Nat \ {0} : s = secs_per_pg
    BY GeometryAssumption
  <2>2. zone_elpn = L - 1
    <3>1. (s * L - 1) \div s = L - 1
      BY LastPage
    <3> QED
      BY <1>6, <2>1, <3>1 DEF zone_elpn, lba_to_lpn
  <2>3. lba_to_lpn(wp + n - 1) = p + m - 1
    <3>1. PICK t \in Nat \ {0} : t = p + m
      OBVIOUS
    <3>2. (s * t - 1) \div s = t - 1
      BY LastPage
    <3>3. wp + n - 1 = s * t - 1
      BY <1>6, <2>1, <3>1
    <3> HIDE DEF wp
    <3> QED
      BY <2>1, <3>1, <3>2, <3>3 DEF lba_to_lpn
  <2>4. p + m = L => wp + n = ZoneLbas
    <3> HIDE DEF wp
    <3> QED
      BY <1>6, <2>1
  <2> HIDE DEF wp
  <2>5. lba_to_lpn(wp + n - 1) = zone_elpn => p + m = L
    BY <2>2, <2>3
  <2> QED
    BY <2>4, <2>5 DEF ZoneTails
<1>13. PICK f \in 0 .. full, t \in 0 .. tail :
         pending' = [pending EXCEPT ![b] = [full |-> @.full + f, tail |-> @.tail + t]]
  <2>1. Enqueue(b, full, tail)
    BY <1>1, <1>3
  <2> HIDE DEF full, tail, b
  <2> QED
    BY <2>1 DEF Enqueue
<1>14. b \in Buffers
  BY BuffersOfZone
<1>15. /\ OneshotLbas \in Nat \ {0} /\ unaligned_space \in Nat
       /\ unaligned_space = ZoneLbas % OneshotLbas
  BY OneshotPositive DEF unaligned_space
<1>16. Partial(z) \in Int /\ Partial(z)' \in Int
  <2> HIDE DEF wp
  <2>1. wp + n \in Int /\ wp \in Int
    BY <1>2
  <2> QED
    BY <1>10, <1>11, <1>15, <2>1
<1>17. f * OneshotLbas + t * unaligned_space <= n + Partial(z) - Partial(z)'
  <2> HIDE DEF wp, full, tail
  <2>1. PICK O \in Nat \ {0}, U \in Nat : O = OneshotLbas /\ U = unaligned_space
    BY <1>15
  <2>2. f * O <= full * O
    <3>1. full - f \in Nat /\ f \in Nat
      BY <1>7, <1>13
    <3>2. (full - f) * O \in Nat /\ (full - f) * O = full * O - f * O
      BY <1>7, <2>1, <3>1
    <3> QED
      BY <1>7, <2>1, <3>1, <3>2
  <2>3. t * U <= IF wp + n = ZoneLbas THEN U ELSE 0
    <3>1. t = 0 \/ (t = 1 /\ wp + n = ZoneLbas)
      BY <1>12, <1>13
    <3> QED
      BY <2>1, <3>1
  <2>4. (wp + n) % O \in Int /\ wp % O \in Int /\ wp + n \in Int
    BY <1>2, <2>1
  <2>5. full * O <= (wp % O) + n - ((wp + n) % O)
    BY <1>7, <2>1
  <2>6. f * O \in Int /\ t * U \in Int /\ full * O \in Int
    BY <1>7, <1>12, <1>13, <2>1
  <2>7. CASE wp + n = ZoneLbas
    BY <1>2, <1>10, <1>11, <1>15, <2>1, <2>2, <2>3, <2>4, <2>5, <2>6, <2>7
  <2>8. CASE wp + n # ZoneLbas
    BY <1>2, <1>10, <1>11, <1>15, <2>1, <2>2, <2>3, <2>4, <2>5, <2>6, <2>8
  <2> QED
    BY <2>7, <2>8
<1> HIDE DEF wp, full, tail, state
<1>18. ASSUME NEW a \in WriteBuffers
       PROVE  remaining'[a] + pending'[a].full * OneshotLbas + pending'[a].tail * unaligned_space
                + Waiting(a)' <= BufferSize(a)
  <2>1. /\ Waiting(a) \in Int
        /\ Waiting(a)' = Waiting(a) + (IF b = a THEN Partial(z)' - Partial(z) ELSE 0)
    BY <1>2, <1>8, WaitingShifts
  <2>2. a \in Buffers /\ BufferSize(a) \in Nat
    BY BufferAssumption DEF Buffers, BufferSize
  <2>3. PICK O \in Nat \ {0}, U \in Nat : O = OneshotLbas /\ U = unaligned_space
    BY <1>15
  <2>4. PICK x \in Nat, y \in Nat, r \in Nat :
          x = pending[a].full /\ y = pending[a].tail /\ r = remaining[a]
    BY <1>2, <2>2 DEF PendingType
  <2>5. r + x * O + y * U + Waiting(a) <= BufferSize(a)
    BY <2>3, <2>4 DEF WriteBufferNotOverCommitted
  <2>6. CASE a # b
    <3>1. remaining'[a] = r /\ pending'[a] = pending[a]
      BY <1>1, <1>2, <1>13, <2>2, <2>4, <2>6 DEF PendingType
    <3>2. Waiting(a)' = Waiting(a)
      BY <2>1, <2>6
    <3> QED
      BY <2>3, <2>4, <2>5, <3>1, <3>2
  <2>7. CASE a = b
    <3>1. remaining'[a] = r - n /\ pending'[a].full = x + f /\ pending'[a].tail = y + t
      BY <1>1, <1>2, <1>13, <1>14, <2>4, <2>7 DEF PendingType
    <3>2. Waiting(a)' = Waiting(a) + Partial(z)' - Partial(z)
      BY <1>16, <2>1, <2>7
    <3>3. f \in Nat /\ t \in Nat
      BY <1>7, <1>12, <1>13
    <3>4. (x + f) * O = x * O + f * O /\ (y + t) * U = y * U + t * U
      BY <2>3, <2>4, <3>3
    <3>5. x * O \in Int /\ f * O \in Int /\ y * U \in Int /\ t * U \in Int
      BY <2>3, <2>4, <3>3
    <3>6. r - n + (x * O + f * O) + (y * U + t * U) + Waiting(a)' <= BufferSize(a)
      BY <1>2, <1>16, <1>17, <2>1, <2>2, <2>3, <2>4, <2>5, <3>2, <3>5
    <3> QED
      BY <2>3, <3>1, <3>4, <3>6
  <2> QED
    BY <2>6, <2>7
<1> QED
  BY <1>9, <1>18 DEF WriteBufferNotOverCommitted, BufferSize

(* A sum of nothing but zeros.                                              *)
LEMMA SumOfZeros ==
  ASSUME NEW n \in Nat, NEW c, NEW f, Sums(n, c, f), \A q \in 1 .. n : c[q] = 0
  PROVE  f[n] = 0
<1>1. \A q \in 0 .. n : f[q] = IF q = 0 THEN 0 ELSE f[q-1] + c[q]
  <2>1. f = [q \in 0 .. n |-> IF q = 0 THEN 0 ELSE f[q-1] + c[q]]
    BY DEF Sums
  <2> QED
    BY <2>1
<1> DEFINE T == {q \in 0 .. n : f[q] # 0}
<1>2. ASSUME T # {} PROVE FALSE
  <2>1. T \in SUBSET Nat
    OBVIOUS
  <2>2. PICK q \in T : \A y \in T : q <= y
    <3> HIDE DEF T
    <3> QED
      BY <1>2, <2>1, LeastElement
  <2>3. q \in 0 .. n /\ f[q] # 0
    BY <2>2
  <2>4. q # 0
    BY <1>1, <2>3
  <2>5. q - 1 \in 0 .. n /\ q - 1 < q /\ q \in 1 .. n
    BY <2>3, <2>4
  <2>6. f[q-1] = 0
    BY <2>2, <2>5
  <2>7. f[q] = f[q-1] + c[q]
    BY <1>1, <2>3, <2>4
  <2> QED
    BY <2>3, <2>5, <2>6, <2>7
<1>3. n \in 0 .. n
  OBVIOUS
<1> QED
  BY <1>2, <1>3

LEMMA InitSpace == Init => PagesWhole /\ WriteBufferNotOverCommitted
<1> SUFFICES ASSUME Init PROVE PagesWhole /\ WriteBufferNotOverCommitted
  OBVIOUS
<1>1. zone_descs \in ZoneType
  BY InitIInv DEF IInv, TypeOK, ZoneType
<1>2. \A z \in Zones : zone_descs[z].state \notin Active
  BY DEF Init, Active, Opened
<1>3. PagesWhole
  BY <1>2 DEF PagesWhole
<1>4. ASSUME NEW b \in WriteBuffers
      PROVE  remaining[b] + pending[b].full * OneshotLbas + pending[b].tail * unaligned_space
               + Waiting(b) <= BufferSize(b)
  <2>1. PICK f : Sums(nr_zones, Share(b), f) /\ Waiting(b) = f[nr_zones]
    BY <1>1, WaitingSumsHolds DEF WaitingSums
  <2>2. \A k \in 1 .. nr_zones : Share(b)[k] = 0
    <3>1. \A k \in 1 .. nr_zones : k - 1 \in Zones
      BY ZoneCountAssumption DEF Zones
    <3> QED
      BY <1>2, <3>1 DEF Share, Partial
  <2>3. Waiting(b) = 0
    <3>1. PICK n, c : n = nr_zones /\ c = Share(b)
      OBVIOUS
    <3>2. n \in Nat /\ Sums(n, c, f) /\ \A k \in 1 .. n : c[k] = 0
      BY <2>1, <2>2, <3>1, ZoneCountAssumption
    <3>3. f[n] = 0
      BY <3>2, SumOfZeros
    <3> QED
      BY <2>1, <3>1, <3>3
  <2>4. b \in Buffers /\ BufferSize(b) \in Nat
    BY BufferAssumption DEF Buffers, BufferSize
  <2>5. remaining[b] = BufferSize(b) /\ pending[b].full = 0 /\ pending[b].tail = 0
    BY <2>4 DEF Init
  <2> QED
    BY <2>3, <2>4, <2>5, OneshotPositive
<1> QED
  BY <1>3, <1>4 DEF WriteBufferNotOverCommitted

(* A worker that finishes a writeback moves space from pending to free.     *)
LEMMA WritebackSpace ==
  ASSUME remaining \in [Buffers -> Nat], pending \in PendingType, zone_descs \in ZoneType,
         PagesWhole, WriteBufferNotOverCommitted, NEW b \in Buffers, WritebackDone(b)
  PROVE  PagesWhole' /\ WriteBufferNotOverCommitted'
<1>1. UNCHANGED zone_descs
  BY DEF WritebackDone, zoneVars
<1>2. PagesWhole'
  BY <1>1 DEF PagesWhole
<1>3. ASSUME NEW a \in WriteBuffers
      PROVE  remaining'[a] + pending'[a].full * OneshotLbas + pending'[a].tail * unaligned_space
               + Waiting(a)' <= BufferSize(a)
  <2>1. PICK O \in Nat, U \in Nat : O = OneshotLbas /\ U = unaligned_space
    BY OneshotPositive
  <2>2. a \in Buffers
    BY DEF Buffers
  <2>3. PICK x \in Nat, y \in Nat, r \in Nat :
          x = pending[a].full /\ y = pending[a].tail /\ r = remaining[a]
    BY <2>2 DEF PendingType
  <2>4. Waiting(a)' = Waiting(a)
    BY <1>1 DEF Waiting, Partial
  <2>5. Waiting(a) \in Int
    <3>1. 0 \in Zones
      BY ZoneCountAssumption DEF Zones
    <3>2. zone_descs' \in ZoneType /\ \A z \in Zones \ {0} : zone_descs'[z] = zone_descs[z]
      BY <1>1
    <3> QED
      BY <3>1, <3>2, WaitingShifts
  <2>6. r + x * O + y * U + Waiting(a) <= BufferSize(a)
    BY <2>1, <2>3 DEF WriteBufferNotOverCommitted
  <2>7. CASE a # b
    <3>1. remaining'[a] = r /\ pending'[a] = pending[a]
      BY <2>2, <2>3, <2>7 DEF WritebackDone, PendingType
    <3> QED
      BY <2>1, <2>3, <2>4, <2>6, <3>1
  <2>8. CASE a = b
    <3>1. \/ x > 0 /\ remaining'[a] = r + O /\ pending'[a].full = x - 1 /\ pending'[a].tail = y
          \/ y > 0 /\ remaining'[a] = r + U /\ pending'[a].full = x /\ pending'[a].tail = y - 1
      BY <2>1, <2>2, <2>3, <2>8 DEF WritebackDone, PendingType
    <3>2. /\ (x - 1) * O = x * O - O /\ (y - 1) * U = y * U - U
          /\ x * O \in Int /\ y * U \in Int
      BY <2>1, <2>3
    <3>3. CASE x > 0 /\ remaining'[a] = r + O /\ pending'[a].full = x - 1 /\ pending'[a].tail = y
      <4>1. (r + O) + (x * O - O) + y * U + Waiting(a) <= BufferSize(a)
        BY <2>3, <2>5, <2>6, <3>2
      <4> QED
        BY <2>1, <2>4, <3>2, <3>3, <4>1
    <3>4. CASE y > 0 /\ remaining'[a] = r + U /\ pending'[a].full = x /\ pending'[a].tail = y - 1
      <4>1. (r + U) + x * O + (y * U - U) + Waiting(a) <= BufferSize(a)
        BY <2>3, <2>5, <2>6, <3>2
      <4> QED
        BY <2>1, <2>4, <3>2, <3>4, <4>1
    <3> QED
      BY <3>1, <3>3, <3>4
  <2> QED
    BY <2>7, <2>8
<1> QED
  BY <1>2, <1>3 DEF WriteBufferNotOverCommitted, BufferSize

SpaceInv == IInv /\ PagesWhole /\ WriteBufferNotOverCommitted

(* Every command and every writeback keeps the space accounted for.         *)
LEMMA StepSpace == UnitsOfPages /\ SpaceInv /\ [Next]_vars => SpaceInv'
<1> SUFFICES ASSUME UnitsOfPages, SpaceInv, [Next]_vars
             PROVE  PagesWhole' /\ WriteBufferNotOverCommitted'
  BY StepIInv DEF SpaceInv
<1>1. /\ zone_descs \in ZoneType /\ remaining \in [Buffers -> Nat] /\ pending \in PendingType
      /\ WritePointerMatchesState /\ PagesWhole /\ WriteBufferNotOverCommitted /\ IInv
      /\ loop.zid \in Zones
  BY DEF SpaceInv, IInv, TypeOK, ZoneType, PendingType
<1>2. zone_descs' \in ZoneType /\ remaining' \in [Buffers -> Nat]
  <2>1. IInv'
    BY <1>1, StepIInv
  <2> QED
    BY <2>1 DEF IInv, TypeOK, ZoneType
<1>3. ASSUME NEW z \in Zones, SpaceKept(z), UNCHANGED pending
      PROVE  PagesWhole' /\ WriteBufferNotOverCommitted'
  <2>1. \A b \in WriteBuffers : remaining'[b] <= remaining[b] /\ pending'[b] = pending[b]
    BY <1>1, <1>3 DEF SpaceKept, Buffers
  <2> QED
    BY <1>1, <1>2, <1>3, <2>1, NothingWaitsKeeps DEF SpaceKept
<1>4. 0 \in Zones
  BY ZoneCountAssumption DEF Zones
<1>5. ASSUME UNCHANGED zone_descs,
             \A b \in WriteBuffers : remaining'[b] <= remaining[b] /\ pending'[b] = pending[b]
      PROVE  PagesWhole' /\ WriteBufferNotOverCommitted'
  <2>1. NothingWaits(0) /\ \A y \in Zones \ {0} : zone_descs'[y] = zone_descs[y]
    BY <1>5 DEF NothingWaits
  <2> QED
    BY <1>1, <1>2, <1>4, <1>5, <2>1, NothingWaitsKeeps
<1>6. \A b \in WriteBuffers : b \in Buffers /\ remaining[b] \in Nat
  BY <1>1 DEF Buffers
<1>7. ASSUME NEW z \in Zones, NEW c \in Commands, ZmgmtSend(z, c[1], c[2], c[3])
      PROVE  PagesWhole' /\ WriteBufferNotOverCommitted'
  BY <1>1, <1>3, <1>7, ZmgmtSpace DEF ZmgmtSend
<1>8. ASSUME NEW c \in Commands, SelectAll(c[2], c[3])
      PROVE  PagesWhole' /\ WriteBufferNotOverCommitted'
  BY <1>1, <1>3, <1>4, <1>8, ZmgmtSpace DEF SelectAll, AllZonesStep
<1>9. ASSUME SelectAllStep
      PROVE  PagesWhole' /\ WriteBufferNotOverCommitted'
  BY <1>1, <1>3, <1>9, ZmgmtSpace DEF SelectAllStep, AllZonesStep
<1>10. ASSUME NEW z \in Zones, NEW n \in Lengths, WriteNoBuffer(z, n)
       PROVE  PagesWhole' /\ WriteBufferNotOverCommitted'
  BY <1>5, <1>6, <1>10 DEF WriteNoBuffer, zoneVars, bufVars
<1>11. ASSUME NEW z \in Zones, NEW n \in Lengths, NEW off, WriteRefuse(z, off, n)
       PROVE  PagesWhole' /\ WriteBufferNotOverCommitted'
  <2>1. UNCHANGED zone_descs /\ UNCHANGED pending /\ n \in Nat
        /\ remaining' = [remaining EXCEPT ![write_buffer(z)] = @ - n]
    BY <1>11 DEF WriteRefuse, zoneVars, Lengths
  <2>2. \A b \in WriteBuffers : remaining'[b] <= remaining[b]
    BY <1>1, <1>6, <2>1
  <2> QED
    BY <1>5, <2>1, <2>2
<1>12. ASSUME NEW z \in Zones, NEW n \in Lengths, NEW off \in Offsets \cup {zone_descs[z].wp},
              Write(z, off, n)
       PROVE  PagesWhole' /\ WriteBufferNotOverCommitted'
  <2>1. ZoneInv
    BY <1>1, <1>12, ZoneInvFromIInv DEF Write, Idle
  <2> QED
    BY <1>1, <1>2, <1>12, <2>1, WriteSpace
<1>13. ASSUME NEW z \in Zones, NEW off \in Offsets, NEW n \in Lengths,
              ZrwaWriteRefuse(z, off, n) \/ ZrwaWriteBug(z, off, n)
       PROVE  PagesWhole' /\ WriteBufferNotOverCommitted'
  BY <1>5, <1>6, <1>13 DEF ZrwaWriteRefuse, ZrwaWriteBug, zoneVars, bufVars
<1>14. ASSUME NEW z \in Zones
       PROVE  \A b \in WriteBuffers : b # zwra_buffer(z)
  BY DEF WriteBuffers, zwra_buffer
<1>15. ASSUME NEW z \in Zones, NEW off \in Offsets, NEW n \in Lengths,
              ZrwaWriteNoBuffer(z, off, n) \/ ZrwaWrite(z, off, n)
       PROVE  PagesWhole' /\ WriteBufferNotOverCommitted'
  <2>1. /\ zone_descs'[z].zrwav
        /\ \A y \in Zones \ {z} : zone_descs'[y] = zone_descs[y]
    BY <1>1, <1>15 DEF ZrwaWriteNoBuffer, ZrwaWrite, IncreaseWp, ZoneType
  <2>2. \A b \in WriteBuffers : remaining'[b] = remaining[b]
    <3>1. \E left : remaining' = [remaining EXCEPT ![zwra_buffer(z)] = left]
      BY <1>15 DEF ZrwaWriteNoBuffer, ZrwaWrite
    <3> QED
      BY <1>1, <1>6, <1>14, <3>1
  <2>3. \A b \in WriteBuffers : pending'[b] = pending[b]
    <3>1. UNCHANGED pending \/ \E e : pending' = [pending EXCEPT ![zwra_buffer(z)] = e]
      BY <1>15 DEF ZrwaWriteNoBuffer, ZrwaWrite, Enqueue
    <3> QED
      BY <1>1, <1>6, <1>14, <3>1 DEF PendingType
  <2>4. NothingWaits(z)
    BY <2>1 DEF NothingWaits
  <2>5. \A b \in WriteBuffers : remaining'[b] <= remaining[b] /\ pending'[b] = pending[b]
    BY <1>6, <2>2, <2>3
  <2> QED
    BY <1>1, <1>2, <2>1, <2>4, <2>5, NothingWaitsKeeps
<1>16. ASSUME NEW b \in Buffers, WritebackDone(b)
       PROVE  PagesWhole' /\ WriteBufferNotOverCommitted'
  BY <1>1, <1>16, WritebackSpace
<1>17. CASE UNCHANGED vars
  BY <1>5, <1>6, <1>17 DEF vars
<1> QED
  BY <1>7, <1>8, <1>9, <1>10, <1>11, <1>12, <1>13, <1>15, <1>16, <1>17 DEF Next

(* Write buffer space is never counted twice, through buffer_allocate, the  *)
(* writebacks of one-shots and zone tails and buffer_release, for every     *)
(* geometry in which a write unit is of whole logical pages.                *)
THEOREM WriteBufferSpaceKept ==
  ASSUME UnitsOfPages
  PROVE  Spec => []WriteBufferNotOverCommitted
<1>1. Init => SpaceInv
  BY InitIInv, InitSpace DEF SpaceInv
<1>2. SpaceInv /\ [Next]_vars => SpaceInv'
  BY StepSpace
<1>3. SpaceInv => WriteBufferNotOverCommitted
  BY DEF SpaceInv
<1> QED
  BY <1>1, <1>2, <1>3, PTL DEF Spec
=============================================================================
