------------------------------ MODULE Selection_proofs ------------------------------
(***************************************************************************)
(* Theorems about Selection, for any devices, tables of any size and any   *)
(* number of capabilities.                                                 *)
(***************************************************************************)
EXTENDS Selection, SequenceTheorems, FiniteSetTheorems, WellFoundedInduction, TLAPS

----------------------------------------------------------------------------
(* Operators. *)

\* The first of some places in a list is one of them.
LEMMA FirstIsOne ==
  ASSUME NEW S, S # {}, S \subseteq Nat PROVE Min(S) \in S /\ \A y \in S : Min(S) <= y
<1> DEFINE Less == OpToRel(<, Nat)
<1>1. \A x, y : <<x, y>> \in Less <=> x \in Nat /\ y \in Nat /\ x < y
  BY Zenon DEF OpToRel
<1>2. PICK x \in S : \A y \in S : <<y, x>> \notin Less
  BY Zenon, WFMin, NatLessThanWellFounded
<1>3. \A y \in S : ~(y < x)
  BY Zenon, <1>1, <1>2
<1> HIDE DEF Less
<1>4. \A y \in S : x <= y
  BY <1>3
<1>5. \E z \in S : \A y \in S : z <= y
  BY Zenon, <1>4
<1> QED BY Zenon, <1>5 DEF Min

\* What f ++ g has.
LEMMA OverParts ==
  ASSUME NEW f, NEW g
  PROVE  /\ DOMAIN (f ++ g) = DOMAIN f \cup DOMAIN g
         /\ \A k \in DOMAIN f : (f ++ g)[k] = f[k]
         /\ \A k \in DOMAIN g \ DOMAIN f : (f ++ g)[k] = g[k]
BY DEF ++

\* Two lists, the one merged over the other.
LEMMA OverLists ==
  ASSUME NEW S, NEW f \in Seq(S), NEW g \in Seq(S) PROVE f ++ g \in Seq(S)
<1>1. /\ Len(f) \in Nat /\ DOMAIN f = 1 .. Len(f) /\ \A k \in DOMAIN f : f[k] \in S
      /\ Len(g) \in Nat /\ DOMAIN g = 1 .. Len(g) /\ \A k \in DOMAIN g : g[k] \in S
  OBVIOUS
<1>2. PICK n \in Nat : DOMAIN f \cup DOMAIN g = 1 .. n
  <2>1. CASE Len(f) <= Len(g)
    <3>1. DOMAIN f \cup DOMAIN g = 1 .. Len(g)
      BY <1>1, <2>1
    <3> QED BY <1>1, <3>1
  <2>2. CASE Len(g) <= Len(f)
    <3>1. DOMAIN f \cup DOMAIN g = 1 .. Len(f)
      BY <1>1, <2>2
    <3> QED BY <1>1, <3>1
  <2> QED BY <1>1, <2>1, <2>2
<1>3. f ++ g = [k \in 1 .. n |-> IF k \in DOMAIN f THEN f[k] ELSE g[k]]
  BY <1>2 DEF ++
<1>4. \A k \in 1 .. n : (IF k \in DOMAIN f THEN f[k] ELSE g[k]) \in S
  BY <1>1, <1>2
<1> QED BY <1>3, <1>4

\* Merging once more changes nothing.
LEMMA OverTwice == ASSUME NEW f, NEW g PROVE f ++ (f ++ g) = f ++ g
<1>1. DOMAIN (f ++ g) = DOMAIN f \cup DOMAIN g
  BY DEF ++
<1> DEFINE h == f ++ g
<1>2. \A k \in DOMAIN f \cup DOMAIN g : h[k] = IF k \in DOMAIN f THEN f[k] ELSE g[k]
  BY DEF ++
<1>3. h = [k \in DOMAIN f \cup DOMAIN g |-> IF k \in DOMAIN f THEN f[k] ELSE g[k]]
  BY DEF ++
<1> HIDE DEF h
<1>4. f ++ h = [k \in DOMAIN f \cup DOMAIN g |-> IF k \in DOMAIN f THEN f[k] ELSE h[k]]
  BY <1>1 DEF ++, h
<1> QED BY <1>2, <1>3, <1>4 DEF h

----------------------------------------------------------------------------
(* Types. *)

\* What a capability may say.
FarmValues ==
  [udids |-> SUBSET Udids, iPadOnly |-> BOOLEAN, iPhoneOnly |-> BOOLEAN, minSDK |-> Nat,
   maxSDK |-> Nat, filterByHost |-> Places \cup {None, Ip["hub"], Ip["node"]},
   tags |-> Seq(STRING), liveVideo |-> {"default", "no"}]

MatchValues ==
  [udid |-> Udids, platformVersion |-> Nat \ {0}, app |-> {"simulatorApp", "realApp", "undefined"},
   mjpegServerPort |-> Places \cup {"client"}, skipReport |-> {TRUE}, systemPort |-> Places,
   chromeDriverPort |-> Places, wdaLocalPort |-> Places, deviceName |-> {Rows[u].name : u \in Udids}]

IsFarm(f) ==
  DOMAIN f = DOMAIN Absent /\ \A k \in DOMAIN Absent : f[k] \in FarmValues[k]

IsMatch(f) == \A k \in DOMAIN f : k \in DOMAIN MatchValues /\ f[k] \in MatchValues[k]

\* A capability has one place in a request, which Appium requires.
Wellformed(c) ==
  /\ DOMAIN c = {"alwaysMatch", "firstMatch", "own", "options"}
  /\ IsFarm(c.own) /\ IsFarm(c.options)
  /\ IsMatch(c.alwaysMatch) /\ IsMatch(c.firstMatch)
  /\ DOMAIN c.alwaysMatch \cap DOMAIN c.firstMatch = {}

\* A process lists a device once.
ListsOnce(t) == \A i, j \in DOMAIN t : t[i].udid = t[j].udid => i = j

Listed(p, u) == \E i \in DOMAIN table[p] : table[p][i].udid = u

SelTyped ==
  /\ SelectionTypeOK
  /\ Wellformed(caps) /\ Wellformed(asked)
  /\ DOMAIN setup = {"iosDeviceType", "inDatabase", "udids", "tagged"}
  /\ setup.iosDeviceType \in {"both", "real", "simulated"}
  /\ setup.inDatabase \in BOOLEAN /\ setup.tagged \in BOOLEAN
  /\ setup.udids \in [Places -> SUBSET Udids]
  /\ \A p \in Places : ListsOnce(table[p])
  /\ \A p \in Places : chosen[p] # None => Listed(p, chosen[p])
  /\ stage \in {"chosen", "built", "started"} => chosen[place] # None
  /\ stage = "asking" => place = "hub" /\ chosen["hub"] = None
  /\ place = "hub" => chosen["node"] = None /\ setup.tagged = TRUE

LEMMA OverMatch ==
  ASSUME NEW f, NEW g, IsMatch(f), IsMatch(g) PROVE IsMatch(f ++ g)
<1> SUFFICES ASSUME NEW k \in DOMAIN (f ++ g)
             PROVE  k \in DOMAIN MatchValues /\ (f ++ g)[k] \in MatchValues[k]
  BY DEF IsMatch
<1>1. CASE k \in DOMAIN f
  BY <1>1 DEF ++, IsMatch
<1>2. CASE k \in DOMAIN g \ DOMAIN f
  BY <1>2 DEF ++, IsMatch
<1> QED BY <1>1, <1>2 DEF ++

LEMMA WithoutMatch ==
  ASSUME NEW f, NEW keys, IsMatch(f) PROVE IsMatch(Without(f, keys))
<1> SUFFICES ASSUME NEW k \in DOMAIN Without(f, keys)
             PROVE  k \in DOMAIN MatchValues /\ Without(f, keys)[k] \in MatchValues[k]
  BY DEF IsMatch
<1> QED BY DEF Without, IsMatch

\* What findAppPath returns.
LEMMA AppPathParts ==
  ASSUME Wellformed(caps)
  PROVE  /\ DOMAIN AppPath = IF "app" \in DOMAIN Merged(caps) /\ "skipReport" \notin DOMAIN Merged(caps)
                             THEN {"app"} ELSE {}
         /\ DOMAIN AppPath # {} =>
              AppPath["app"] = IF setup.inDatabase THEN Merged(caps)["app"] ELSE "undefined"
         /\ IsMatch(AppPath)
<1>1. IsMatch(Merged(caps))
  BY OverMatch DEF Wellformed, Merged
<1>2. DOMAIN <<>> = {}
  OBVIOUS
<1>3. CASE "app" \in DOMAIN Merged(caps) /\ "skipReport" \notin DOMAIN Merged(caps)
  <2>1. AppPath = [app |-> IF setup.inDatabase THEN Merged(caps).app ELSE "undefined"]
    BY <1>3 DEF AppPath
  <2>2. Merged(caps)["app"] \in MatchValues["app"]
    BY <1>1, <1>3 DEF IsMatch
  <2>3. DOMAIN AppPath = {"app"}
    BY <2>1
  <2>4. AppPath["app"] = IF setup.inDatabase THEN Merged(caps)["app"] ELSE "undefined"
    BY <2>1
  <2>5. AppPath["app"] \in MatchValues["app"] /\ "app" \in DOMAIN MatchValues
    BY <2>2, <2>4 DEF MatchValues
  <2> QED BY <1>3, <2>3, <2>4, <2>5 DEF IsMatch
<1>4. CASE ~("app" \in DOMAIN Merged(caps) /\ "skipReport" \notin DOMAIN Merged(caps))
  BY <1>2, <1>4 DEF AppPath, IsMatch
<1> QED BY <1>3, <1>4

LEMMA CommonParts ==
  ASSUME Wellformed(caps), NEW u \in Udids
  PROVE  /\ DOMAIN Common(u) = DOMAIN AppPath \cup {"udid"}
         /\ \A k \in DOMAIN AppPath : Common(u)[k] = AppPath[k]
         /\ Common(u)["udid"] = u
         /\ IsMatch(Common(u))
<1> DEFINE g == [udid |-> u]
<1>1. DOMAIN g = {"udid"} /\ g["udid"] = u
  OBVIOUS
<1>2. IsMatch(g)
  BY <1>1 DEF IsMatch, MatchValues
<1>3. "udid" \notin DOMAIN AppPath
  BY AppPathParts
<1> HIDE DEF g
<1>4. Common(u) = AppPath ++ g
  BY DEF Common, g
<1>5. /\ DOMAIN (AppPath ++ g) = DOMAIN AppPath \cup DOMAIN g
      /\ \A k \in DOMAIN AppPath : (AppPath ++ g)[k] = AppPath[k]
      /\ \A k \in DOMAIN g \ DOMAIN AppPath : (AppPath ++ g)[k] = g[k]
  BY Zenon, OverParts
<1>6. IsMatch(AppPath ++ g)
  BY Zenon, <1>2, OverMatch, AppPathParts
<1> QED BY <1>1, <1>3, <1>4, <1>5, <1>6
----------------------------------------------------------------------------
(* The capabilities that are written for the drivers. *)

LEMMA AndroidFirstParts ==
  ASSUME Wellformed(caps), place \in Places, NEW u \in Udids
  PROVE  LET r == AndroidFirst(u)
         IN /\ DOMAIN r = DOMAIN AppPath \cup {"udid", "systemPort", "chromeDriverPort"}
                            \cup (IF ~PortAsked /\ LiveVideo THEN {"mjpegServerPort"} ELSE {})
                            \cup (DOMAIN caps.firstMatch \ {"app"})
            /\ IsMatch(r)
            /\ \A k \in DOMAIN AppPath : r[k] = AppPath[k]
            /\ r["udid"] = u /\ r["systemPort"] = place /\ r["chromeDriverPort"] = place
            /\ \A k \in DOMAIN caps.firstMatch
                 \ {"app", "udid", "systemPort", "chromeDriverPort", "mjpegServerPort"} :
                 r[k] = caps.firstMatch[k]
<1> DEFINE first == Common(u)
           second == [systemPort |-> place, chromeDriverPort |-> place]
           p == [mjpegServerPort |-> place]
           third == Only(~PortAsked /\ LiveVideo, p)
           fourth == Without(caps.firstMatch, {"app"})
           r == first ++ second ++ third ++ fourth
<1>1. AndroidFirst(u) = r
  BY DEF AndroidFirst
<1>2. DOMAIN second = {"systemPort", "chromeDriverPort"} /\ second["systemPort"] = place
      /\ second["chromeDriverPort"] = place
  OBVIOUS
<1>3. DOMAIN p = {"mjpegServerPort"} /\ p["mjpegServerPort"] = place
  OBVIOUS
<1>4. IsMatch(second) /\ IsMatch(p)
  <2>1. IsMatch(p)
    BY <1>3 DEF IsMatch, MatchValues
  <2> HIDE DEF second, p
  <2>2. \A k \in DOMAIN second : k \in DOMAIN MatchValues /\ second[k] \in MatchValues[k]
    BY <1>2 DEF MatchValues
  <2> QED BY <2>1, <2>2 DEF IsMatch
<1>5. /\ DOMAIN third = IF ~PortAsked /\ LiveVideo THEN {"mjpegServerPort"} ELSE {}
      /\ IsMatch(third)
  <2>1. DOMAIN <<>> = {}
    OBVIOUS
  <2> HIDE DEF p
  <2> QED BY <1>3, <1>4, <2>1 DEF Only, IsMatch
<1>6. DOMAIN fourth = DOMAIN caps.firstMatch \ {"app"} /\ IsMatch(fourth)
      /\ \A k \in DOMAIN fourth : fourth[k] = caps.firstMatch[k]
  <2>1. IsMatch(caps.firstMatch)
    BY DEF Wellformed
  <2>2. IsMatch(fourth)
    BY Zenon, <2>1, WithoutMatch
  <2> QED BY <2>2 DEF Without
<1>7. /\ DOMAIN first = DOMAIN AppPath \cup {"udid"} /\ first["udid"] = u /\ IsMatch(first)
      /\ \A k \in DOMAIN AppPath : first[k] = AppPath[k]
  BY CommonParts
<1>8. DOMAIN AppPath \subseteq {"app"}
  BY AppPathParts
<1> HIDE DEF first, second, third, fourth, r, p
<1>9. /\ DOMAIN r = DOMAIN first \cup DOMAIN second \cup DOMAIN third \cup DOMAIN fourth
      /\ \A k \in DOMAIN first : r[k] = first[k]
      /\ \A k \in DOMAIN second \ DOMAIN first : r[k] = second[k]
      /\ \A k \in DOMAIN third \ (DOMAIN first \cup DOMAIN second) : r[k] = third[k]
      /\ \A k \in DOMAIN fourth \ (DOMAIN first \cup DOMAIN second \cup DOMAIN third) : r[k] = fourth[k]
  BY DEF r, ++
<1>10. IsMatch(r)
  BY <1>4, <1>5, <1>6, <1>7, OverMatch DEF r
<1>11. DOMAIN r = DOMAIN AppPath \cup {"udid", "systemPort", "chromeDriverPort"}
                    \cup (IF ~PortAsked /\ LiveVideo THEN {"mjpegServerPort"} ELSE {})
                    \cup (DOMAIN caps.firstMatch \ {"app"})
  BY <1>2, <1>5, <1>6, <1>7, <1>9
<1>12. r["udid"] = u /\ r["systemPort"] = place /\ r["chromeDriverPort"] = place
  BY <1>2, <1>7, <1>8, <1>9
<1>13. \A k \in DOMAIN caps.firstMatch
         \ {"app", "udid", "systemPort", "chromeDriverPort", "mjpegServerPort"} :
         r[k] = caps.firstMatch[k]
  BY <1>2, <1>5, <1>6, <1>7, <1>8, <1>9
<1> QED BY <1>1, <1>7, <1>9, <1>10, <1>11, <1>12, <1>13

LEMMA IosFirstParts ==
  ASSUME Wellformed(caps), place \in Places, SelectionAssumption, NEW u \in Udids
  PROVE  LET r == IosFirst(u)
         IN /\ DOMAIN r = DOMAIN AppPath \cup {"udid", "deviceName", "platformVersion", "wdaLocalPort"}
                            \cup (IF LiveVideo THEN {"mjpegServerPort"} ELSE {})
                            \cup (DOMAIN caps.firstMatch \ {"app", "mjpegServerPort"})
            /\ IsMatch(r)
            /\ \A k \in DOMAIN AppPath : r[k] = AppPath[k]
            /\ r["udid"] = u /\ r["platformVersion"] = Rows[u].sdk /\ r["wdaLocalPort"] = place
            /\ LiveVideo => r["mjpegServerPort"] = place
            /\ \A k \in DOMAIN caps.firstMatch
                 \ {"app", "udid", "deviceName", "platformVersion", "wdaLocalPort", "mjpegServerPort"} :
                 r[k] = caps.firstMatch[k]
<1> DEFINE first == Common(u)
           second == [deviceName |-> Rows[u].name, platformVersion |-> Rows[u].sdk,
                 wdaLocalPort |-> place]
           p == [mjpegServerPort |-> place]
           third == Only(LiveVideo, p)
           fourth == Without(caps.firstMatch, {"app", "mjpegServerPort"})
           r == first ++ second ++ third ++ fourth
<1>1. IosFirst(u) = r
  BY DEF IosFirst
<1>2. /\ DOMAIN second = {"deviceName", "platformVersion", "wdaLocalPort"}
      /\ second["deviceName"] = Rows[u].name /\ second["platformVersion"] = Rows[u].sdk
      /\ second["wdaLocalPort"] = place
  OBVIOUS
<1>3. DOMAIN p = {"mjpegServerPort"} /\ p["mjpegServerPort"] = place
  OBVIOUS
<1>4. IsMatch(second) /\ IsMatch(p)
  <2>1. Rows[u].sdk \in Nat \ {0} /\ Rows[u].name \in {Rows[v].name : v \in Udids}
    BY DEF SelectionAssumption
  <2>2. IsMatch(p)
    BY <1>3 DEF IsMatch, MatchValues
  <2> HIDE DEF second, p
  <2>3. \A k \in DOMAIN second : k \in DOMAIN MatchValues /\ second[k] \in MatchValues[k]
    BY <1>2, <2>1 DEF MatchValues
  <2> QED BY <2>2, <2>3 DEF IsMatch
<1>5. /\ DOMAIN third = IF LiveVideo THEN {"mjpegServerPort"} ELSE {}
      /\ IsMatch(third) /\ (LiveVideo => third["mjpegServerPort"] = place)
  <2>1. DOMAIN <<>> = {}
    OBVIOUS
  <2> HIDE DEF p
  <2> QED BY <1>3, <1>4, <2>1 DEF Only, IsMatch
<1>6. DOMAIN fourth = DOMAIN caps.firstMatch \ {"app", "mjpegServerPort"} /\ IsMatch(fourth)
      /\ \A k \in DOMAIN fourth : fourth[k] = caps.firstMatch[k]
  <2>1. IsMatch(caps.firstMatch)
    BY DEF Wellformed
  <2>2. IsMatch(fourth)
    BY Zenon, <2>1, WithoutMatch
  <2> QED BY <2>2 DEF Without
<1>7. /\ DOMAIN first = DOMAIN AppPath \cup {"udid"} /\ first["udid"] = u /\ IsMatch(first)
      /\ \A k \in DOMAIN AppPath : first[k] = AppPath[k]
  BY CommonParts
<1>8. DOMAIN AppPath \subseteq {"app"}
  BY AppPathParts
<1> HIDE DEF first, second, third, fourth, r, p
<1>9. /\ DOMAIN r = DOMAIN first \cup DOMAIN second \cup DOMAIN third \cup DOMAIN fourth
      /\ \A k \in DOMAIN first : r[k] = first[k]
      /\ \A k \in DOMAIN second \ DOMAIN first : r[k] = second[k]
      /\ \A k \in DOMAIN third \ (DOMAIN first \cup DOMAIN second) : r[k] = third[k]
      /\ \A k \in DOMAIN fourth \ (DOMAIN first \cup DOMAIN second \cup DOMAIN third) : r[k] = fourth[k]
  BY DEF r, ++
<1>10. IsMatch(r)
  BY <1>4, <1>5, <1>6, <1>7, OverMatch DEF r
<1>11. DOMAIN r = DOMAIN AppPath \cup {"udid", "deviceName", "platformVersion", "wdaLocalPort"}
                    \cup (IF LiveVideo THEN {"mjpegServerPort"} ELSE {})
                    \cup (DOMAIN caps.firstMatch \ {"app", "mjpegServerPort"})
  BY <1>2, <1>5, <1>6, <1>7, <1>9
<1>12. r["udid"] = u /\ r["platformVersion"] = Rows[u].sdk /\ r["wdaLocalPort"] = place
  BY <1>2, <1>7, <1>8, <1>9
<1>13. LiveVideo => r["mjpegServerPort"] = place
  BY <1>2, <1>5, <1>7, <1>8, <1>9
<1>14. \A k \in DOMAIN caps.firstMatch
         \ {"app", "udid", "deviceName", "platformVersion", "wdaLocalPort", "mjpegServerPort"} :
         r[k] = caps.firstMatch[k]
  BY <1>2, <1>5, <1>6, <1>7, <1>8, <1>9
<1> QED BY <1>1, <1>7, <1>9, <1>10, <1>11, <1>12, <1>13, <1>14

\* alwaysMatch loses what the plugin writes into firstMatch.
LEMMA AlwaysParts ==
  ASSUME Wellformed(caps)
  PROVE  /\ DOMAIN AndroidAlways =
              DOMAIN caps.alwaysMatch \ ({"udid", "systemPort", "chromeDriverPort", "app"}
                                           \cup (IF LiveVideo THEN {} ELSE {"mjpegServerPort"}))
         /\ \A k \in DOMAIN AndroidAlways : AndroidAlways[k] = caps.alwaysMatch[k]
         /\ IsMatch(AndroidAlways)
         /\ DOMAIN IosAlways =
              DOMAIN caps.alwaysMatch \ {"platformVersion", "wdaLocalPort", "mjpegServerPort",
                                         "udid", "deviceName", "app"}
         /\ \A k \in DOMAIN IosAlways : IosAlways[k] = caps.alwaysMatch[k]
         /\ IsMatch(IosAlways)
<1>1. IsMatch(caps.alwaysMatch)
  BY DEF Wellformed
<1>2. IsMatch(AndroidAlways) /\ IsMatch(IosAlways)
  BY <1>1, WithoutMatch DEF AndroidAlways, IosAlways
<1> QED BY <1>2 DEF AndroidAlways, IosAlways, Without

\* The result is a request again.
LEMMA BuildWellformed ==
  ASSUME SelectionAssumption, Wellformed(caps), place \in Places, chosen[place] \in Udids,
         platform \in {"android", "ios"}, Build
  PROVE  Wellformed(caps')
<1> DEFINE u == chosen[place]
<1>1. DOMAIN AppPath \subseteq {"app"} /\ u \in Udids
  BY AppPathParts
<1>2. DOMAIN Merged(caps) = DOMAIN caps.alwaysMatch \cup DOMAIN caps.firstMatch
  BY DEF Merged, ++
<1> HIDE DEF u
<1>3. CASE platform = "android"
  <2>1. caps' = [caps EXCEPT !.firstMatch = AndroidFirst(u), !.alwaysMatch = AndroidAlways]
    BY <1>3 DEF Build, u
  <2>2. /\ DOMAIN caps' = DOMAIN caps /\ caps'.own = caps.own /\ caps'.options = caps.options
        /\ caps'.firstMatch = AndroidFirst(u) /\ caps'.alwaysMatch = AndroidAlways
    BY <2>1 DEF Wellformed
  <2>3. IsMatch(AndroidFirst(u)) /\ IsMatch(AndroidAlways)
    BY <1>1, AndroidFirstParts, AlwaysParts
  <2>4. DOMAIN AndroidAlways \cap DOMAIN AndroidFirst(u) = {}
    BY <1>1, <1>2, AndroidFirstParts, AlwaysParts DEF Wellformed, PortAsked
  <2> QED BY <2>2, <2>3, <2>4 DEF Wellformed
<1>4. CASE platform = "ios"
  <2>1. caps' = [caps EXCEPT !.firstMatch = IosFirst(u), !.alwaysMatch = IosAlways]
    BY <1>4 DEF Build, u
  <2>2. /\ DOMAIN caps' = DOMAIN caps /\ caps'.own = caps.own /\ caps'.options = caps.options
        /\ caps'.firstMatch = IosFirst(u) /\ caps'.alwaysMatch = IosAlways
    BY <2>1 DEF Wellformed
  <2>3. IsMatch(IosFirst(u)) /\ IsMatch(IosAlways)
    BY <1>1, IosFirstParts, AlwaysParts
  <2>4. DOMAIN IosAlways \cap DOMAIN IosFirst(u) = {}
    BY <1>1, <1>2, IosFirstParts, AlwaysParts DEF Wellformed
  <2> QED BY <2>2, <2>3, <2>4 DEF Wellformed
<1> QED BY <1>3, <1>4

----------------------------------------------------------------------------
(* Type correctness. *)

LEMMA AskFarmWellformed ==
  ASSUME Wellformed(caps), NEW key \in DOMAIN Absent, NEW values,
         values \subseteq FarmValues[key], AskFarm(key, values)
  PROVE  Wellformed(caps')
<1>1. PICK part \in {"own", "options"}, v \in values :
        caps' = [caps EXCEPT ![part] = [@ EXCEPT ![key] = v]]
  BY DEF AskFarm
<1> DEFINE c == [caps[part] EXCEPT ![key] = v]
<1>2. /\ DOMAIN caps' = DOMAIN caps /\ caps'[part] = c
      /\ \A k \in DOMAIN caps \ {part} : caps'[k] = caps[k]
  BY <1>1 DEF Wellformed
<1>3. IsFarm(caps[part])
  BY DEF Wellformed
<1>4. IsFarm(c)
  BY <1>3 DEF IsFarm
<1> HIDE DEF c
<1> QED BY <1>2, <1>4 DEF Wellformed

LEMMA AskAppiumWellformed ==
  ASSUME Wellformed(caps), NEW key \in DOMAIN MatchValues, NEW values,
         values \subseteq MatchValues[key], AskAppium(key, values)
  PROVE  Wellformed(caps')
<1>1. PICK match \in {"alwaysMatch", "firstMatch"}, v \in values :
        /\ key \notin DOMAIN caps.alwaysMatch \cup DOMAIN caps.firstMatch
        /\ caps' = [caps EXCEPT ![match] = [k \in {key} |-> v] ++ @]
  BY DEF AskAppium
<1> DEFINE new == [k \in {key} |-> v]
           c == new ++ caps[match]
<1>2. /\ DOMAIN caps' = DOMAIN caps /\ caps'[match] = c
      /\ \A k \in DOMAIN caps \ {match} : caps'[k] = caps[k]
  BY <1>1 DEF Wellformed
<1>3. IsMatch(caps[match]) /\ IsMatch(new)
  BY DEF Wellformed, IsMatch
<1>4. IsMatch(c)
  BY Zenon, <1>3, OverMatch
<1>5. DOMAIN c = {key} \cup DOMAIN caps[match]
  BY DEF ++
<1> HIDE DEF c
<1> QED BY <1>1, <1>2, <1>4, <1>5 DEF Wellformed

LEMMA AskWellformed ==
  ASSUME SelectionAssumption, Wellformed(caps), Ask PROVE Wellformed(caps')
<1>1. OfPlatform \subseteq Udids /\ Sdks \subseteq Nat \ {0}
  BY DEF OfPlatform, Sdks, SelectionAssumption
<1>2. \A f \in SUBSET OfPlatform : f \in FarmValues["udids"]
  BY <1>1 DEF FarmValues
<1>3. /\ {TRUE} \subseteq FarmValues["iPadOnly"] /\ {TRUE} \subseteq FarmValues["iPhoneOnly"]
      /\ Sdks \subseteq FarmValues["minSDK"] /\ Sdks \subseteq FarmValues["maxSDK"]
      /\ Places \cup {Ip["node"]} \subseteq FarmValues["filterByHost"]
      /\ TagLists \subseteq FarmValues["tags"]
      /\ {"no"} \subseteq FarmValues["liveVideo"]
  BY <1>1 DEF FarmValues, SelectionAssumption
<1>4. /\ OfPlatform \subseteq MatchValues["udid"] /\ Sdks \subseteq MatchValues["platformVersion"]
      /\ {"simulatorApp", "realApp"} \subseteq MatchValues["app"]
      /\ {"client"} \subseteq MatchValues["mjpegServerPort"]
      /\ {TRUE} \subseteq MatchValues["skipReport"]
  BY <1>1 DEF MatchValues
<1>5. DOMAIN Absent = {"udids", "iPadOnly", "iPhoneOnly", "minSDK", "maxSDK", "filterByHost",
                       "tags", "liveVideo"}
  BY DEF Absent
<1>6. {"udid", "platformVersion", "app", "mjpegServerPort", "skipReport"} \subseteq DOMAIN MatchValues
  BY DEF MatchValues
<1> QED BY <1>2, <1>3, <1>4, <1>5, <1>6, AskFarmWellformed, AskAppiumWellformed DEF Ask

\* Tables list rows.
LEMMA TablesTyped ==
  ASSUME SelectionAssumption, NEW rows, rows \subseteq Row, NEW t \in Tables(rows)
  PROVE  /\ t \in Seq(Row) /\ ListsOnce(t) /\ Len(t) \in Nat
         /\ DOMAIN t = 1 .. Len(t) /\ \A i \in DOMAIN t : t[i] \in rows
<1>1. PICK n \in 0 .. MaxRows : t \in [1 .. n -> {r \in rows : FlagsOf(r) \in Flags}]
  BY DEF Tables
<1>2. ListsOnce(t)
  BY DEF Tables, ListsOnce
<1>3. n \in Nat /\ DOMAIN t = 1 .. n /\ \A i \in 1 .. n : t[i] \in rows /\ t[i] \in Row
  BY <1>1 DEF SelectionAssumption
<1>4. t = [i \in 1 .. n |-> t[i]]
  BY <1>1
<1>5. t \in Seq(Row)
  BY <1>3, <1>4
<1>6. Len(t) = n
  BY <1>3, <1>4, <1>5
<1> QED BY <1>2, <1>3, <1>5, <1>6

\* The first of some of a process's rows.
LEMMA FirstPlace ==
  ASSUME SelectionTypeOK, NEW p \in Places, NEW S, S # {}, S \subseteq DOMAIN table[p]
  PROVE  Min(S) \in S /\ Min(S) \in DOMAIN table[p] /\ table[p][Min(S)] \in Row
<1>1. table[p] \in Seq(Row) /\ DOMAIN table[p] = 1 .. Len(table[p]) /\ Len(table[p]) \in Nat
  BY DEF SelectionTypeOK
<1>2. S \subseteq Nat
  BY <1>1
<1>3. Min(S) \in S
  BY <1>2, FirstIsOne
<1> QED BY <1>1, <1>3

\* What Choose takes.
LEMMA FirstDevice ==
  ASSUME SelectionTypeOK, NEW f, Devices(f) # {}
  PROVE  /\ Min(Devices(f)) \in Devices(f) /\ Min(Devices(f)) \in DOMAIN table[place]
         /\ table[place][Min(Devices(f))].udid \in Udids
<1>1. Devices(f) \subseteq DOMAIN table[place]
  BY DEF Devices
<1>2. place \in Places
  BY DEF SelectionTypeOK
<1>3. Min(Devices(f)) \in Devices(f) /\ table[place][Min(Devices(f))] \in Row
  BY <1>1, <1>2, FirstPlace
<1> QED BY <1>1, <1>3 DEF Row

\* The row of a device is the one that lists it.
LEMMA RowOf ==
  ASSUME SelectionTypeOK, NEW p \in Places, ListsOnce(table[p]), NEW i \in DOMAIN table[p],
         NEW u, table[p][i].udid = u
  PROVE  Min(PlacesOf(p, {u})) = i
<1>1. i \in PlacesOf(p, {u}) /\ PlacesOf(p, {u}) \subseteq DOMAIN table[p]
  BY DEF PlacesOf
<1>2. Min(PlacesOf(p, {u})) \in PlacesOf(p, {u})
  BY <1>1, FirstPlace
<1> QED BY <1>1, <1>2 DEF PlacesOf, ListsOnce

LEMMA InitTyped == ASSUME SelectionAssumption, Init PROVE SelTyped
<1>1. IsFarm(Absent)
  <2>1. DOMAIN Absent = {"udids", "iPadOnly", "iPhoneOnly", "minSDK", "maxSDK", "filterByHost",
                         "tags", "liveVideo"}
    BY DEF Absent
  <2>2. /\ Absent["udids"] = {} /\ Absent["iPadOnly"] = FALSE /\ Absent["iPhoneOnly"] = FALSE
        /\ Absent["minSDK"] = 0 /\ Absent["maxSDK"] = 0 /\ Absent["filterByHost"] = None
        /\ Absent["tags"] = <<>> /\ Absent["liveVideo"] = "default"
    BY DEF Absent
  <2>3. /\ {} \in FarmValues["udids"] /\ FALSE \in FarmValues["iPadOnly"]
        /\ FALSE \in FarmValues["iPhoneOnly"] /\ 0 \in FarmValues["minSDK"]
        /\ 0 \in FarmValues["maxSDK"] /\ None \in FarmValues["filterByHost"]
        /\ <<>> \in FarmValues["tags"] /\ "default" \in FarmValues["liveVideo"]
    BY DEF FarmValues
  <2> QED BY <2>1, <2>2, <2>3 DEF IsFarm
<1>2. DOMAIN <<>> = {}
  OBVIOUS
<1>3. IsMatch(<<>>)
  BY <1>2 DEF IsMatch
<1>4. Wellformed(caps) /\ Wellformed(asked)
  BY <1>1, <1>2, <1>3 DEF Init, Wellformed
<1>5. \A p \in Places : table[p] = <<>> /\ chosen[p] = None
  BY DEF Init
<1>6. SelectionTypeOK
  <2>1. table \in [Places -> Seq(Row)]
    BY DEF Init
  <2>2. chosen \in [Places -> Udids \cup {None}]
    BY DEF Init
  <2>3. asks \in 0 .. MaxAsked
    BY DEF Init, SelectionAssumption
  <2>4. platform \in {"android", "ios"} /\ place \in Places /\ stage = "asking"
    BY DEF Init, Places
  <2>5. DOMAIN caps.own = DOMAIN Absent /\ DOMAIN caps.options = DOMAIN Absent
    BY <1>4 DEF Wellformed, IsFarm
  <2> QED BY <1>4, <2>1, <2>2, <2>3, <2>4, <2>5 DEF SelectionTypeOK, Wellformed
<1>7. /\ DOMAIN setup = {"iosDeviceType", "inDatabase", "udids", "tagged"}
      /\ setup.iosDeviceType = "both" /\ setup.inDatabase = TRUE /\ setup.tagged = TRUE
      /\ setup.udids \in [Places -> SUBSET Udids]
  BY DEF Init
<1>8. ListsOnce(<<>>)
  BY <1>2 DEF ListsOnce
<1>9. stage = "asking" /\ place = "hub" /\ chosen["node"] = None /\ chosen["hub"] = None
  BY <1>5 DEF Init, Places
<1> QED BY <1>4, <1>5, <1>6, <1>7, <1>8, <1>9 DEF SelTyped

LEMMA AskTyped == ASSUME SelectionAssumption, SelTyped, Ask PROVE SelTyped'
<1>1. Wellformed(caps')
  BY AskWellformed DEF SelTyped
<1>2. asks' \in 0 .. MaxAsked
  BY DEF Ask, SelTyped, SelectionTypeOK, SelectionAssumption
<1>3. UNCHANGED <<platform, asked, place, stage, table, setup, chosen>>
  BY DEF Ask
<1>4. SelectionTypeOK'
  BY <1>1, <1>2, <1>3 DEF SelTyped, SelectionTypeOK, Wellformed, IsFarm
<1> QED BY <1>1, <1>3, <1>4 DEF SelTyped, Listed

LEMMA SubmitTyped == ASSUME SelectionAssumption, SelTyped, Submit PROVE SelTyped'
<1>1. PICK t \in Tables({r \in Row : r.udid \in OfPlatform}),
           i \in {"both", "real", "simulated"}, db \in BOOLEAN, us \in UdidsVar :
        /\ table' = [table EXCEPT !["hub"] = t]
        /\ setup' = [setup EXCEPT !.iosDeviceType = i, !.inDatabase = db,
                                  !.udids = [@ EXCEPT !["hub"] = us]]
  BY DEF Submit
<1>2. t \in Seq(Row) /\ ListsOnce(t)
  BY TablesTyped
<1>3. /\ UNCHANGED <<platform, caps, asks, place, chosen>>
      /\ stage = "asking" /\ stage' = "asked" /\ asked' = caps
  BY DEF Submit
<1>4. /\ DOMAIN setup' = DOMAIN setup /\ setup'.iosDeviceType = i /\ setup'.inDatabase = db
      /\ setup'.udids \in [Places -> SUBSET Udids] /\ setup'.tagged = setup.tagged
  BY <1>1 DEF SelTyped, SelectionAssumption
<1>5. table' \in [Places -> Seq(Row)] /\ \A p \in Places : ListsOnce(table'[p])
  BY <1>1, <1>2 DEF SelTyped, SelectionTypeOK
<1>6. SelectionTypeOK'
  BY <1>3, <1>5 DEF SelTyped, SelectionTypeOK
<1>7. chosen["hub"] = None /\ chosen["node"] = None
  BY <1>3 DEF SelTyped
<1> QED BY <1>3, <1>4, <1>5, <1>6, <1>7 DEF SelTyped, Listed, Places

\* The farm's capabilities of any request.
LEMMA FarmTyped ==
  ASSUME NEW c, IsFarm(c.own), IsFarm(c.options) PROVE IsFarm(DeviceFarmCapabilities(c))
<1>1. c.own["tags"] ++ c.options["tags"] \in Seq(STRING)
  BY OverLists DEF IsFarm, FarmValues, Absent
<1>2. FarmValues["tags"] = Seq(STRING)
  BY DEF FarmValues
<1> QED BY <1>1, <1>2 DEF IsFarm, DeviceFarmCapabilities

LEMMA ChooseTyped == ASSUME SelectionAssumption, SelTyped, Choose PROVE SelTyped'
<1> DEFINE f == Filters(caps)
           u == table[place][Min(Devices(f))].udid
<1>1. /\ Devices(f) # {} /\ stage = "asked" /\ stage' = "chosen"
      /\ chosen' = [chosen EXCEPT ![place] = u]
      /\ UNCHANGED <<platform, asked, asks, place, table, setup>>
  BY DEF Choose
<1>2. Min(Devices(f)) \in DOMAIN table[place] /\ u \in Udids /\ place \in Places
  BY <1>1, FirstDevice DEF SelTyped, SelectionTypeOK
<1>3. Listed(place, u)
  BY <1>2 DEF Listed
<1>4. Wellformed(caps')
  <2> DEFINE d == DeviceFarmCapabilities(caps)
  <2>1. CASE caps.options = Absent
    BY <2>1 DEF Choose, SelTyped
  <2>2. CASE caps.options # Absent
    <3>1. caps' = [caps EXCEPT !.options = d]
      BY <2>2 DEF Choose
    <3>2. IsFarm(d)
      BY FarmTyped DEF SelTyped, Wellformed
    <3> HIDE DEF d
    <3>3. /\ DOMAIN caps' = DOMAIN caps /\ caps'.alwaysMatch = caps.alwaysMatch
          /\ caps'.firstMatch = caps.firstMatch /\ caps'.own = caps.own /\ caps'.options = d
      BY <3>1 DEF SelTyped, Wellformed
    <3> QED BY <3>2, <3>3 DEF SelTyped, Wellformed
  <2> QED BY <2>1, <2>2
<1> HIDE DEF f, u
<1>5. chosen' \in [Places -> Udids \cup {None}] /\ chosen'[place] = u
      /\ \A p \in Places \ {place} : chosen'[p] = chosen[p]
  BY <1>1, <1>2 DEF SelTyped, SelectionTypeOK
<1>6. SelectionTypeOK'
  BY <1>1, <1>4, <1>5 DEF SelTyped, SelectionTypeOK, Wellformed, IsFarm
<1>7. u # None
  BY <1>2 DEF SelectionAssumption
<1>8. \A p \in Places : chosen'[p] # None => Listed(p, chosen[p])'
  BY <1>1, <1>3, <1>5 DEF SelTyped, Listed
<1>9. place = "hub" => chosen'["node"] = None
  BY <1>5 DEF SelTyped, Places
<1> QED BY <1>1, <1>4, <1>5, <1>6, <1>7, <1>8, <1>9 DEF SelTyped

LEMMA BuildTyped == ASSUME SelectionAssumption, SelTyped, Build PROVE SelTyped'
<1>1. /\ stage = "chosen" /\ stage' = "built"
      /\ UNCHANGED <<platform, asked, asks, place, table, setup, chosen>>
  BY DEF Build
<1>2. chosen[place] \in Udids /\ place \in Places
  BY <1>1 DEF SelTyped, SelectionTypeOK
<1>3. Wellformed(caps')
  BY <1>2, BuildWellformed DEF SelTyped, SelectionTypeOK
<1>4. SelectionTypeOK'
  BY <1>1, <1>3 DEF SelTyped, SelectionTypeOK, Wellformed, IsFarm
<1> QED BY <1>1, <1>3, <1>4 DEF SelTyped, Listed

LEMMA ForwardTyped == ASSUME SelectionAssumption, SelTyped, Forward PROVE SelTyped'
<1>1. PICK t \in Tables({r \in Row : r.host = "node" /\ r.udid \in OfPlatform}),
           tagged \in BOOLEAN, us \in UdidsVar :
        /\ table' = [table EXCEPT !["node"] = t]
        /\ setup' = [setup EXCEPT !.iosDeviceType = "both", !.tagged = tagged,
                                  !.udids = [@ EXCEPT !["node"] = us]]
  BY DEF Forward
<1>2. t \in Seq(Row) /\ ListsOnce(t)
  BY TablesTyped
<1>3. /\ UNCHANGED <<platform, asked, caps, asks, chosen>>
      /\ stage = "built" /\ stage' = "asked" /\ place = "hub" /\ place' = "node"
  BY DEF Forward
<1>4. us \subseteq Udids
  BY DEF SelectionAssumption
<1>5. /\ DOMAIN setup' = DOMAIN setup /\ setup'.iosDeviceType = "both"
      /\ setup'.inDatabase = setup.inDatabase
      /\ setup'.udids \in [Places -> SUBSET Udids] /\ setup'.tagged = tagged
  BY <1>1, <1>4 DEF SelTyped
<1>6. /\ table' \in [Places -> Seq(Row)] /\ \A p \in Places : ListsOnce(table'[p])
      /\ table'["hub"] = table["hub"]
  BY <1>1, <1>2 DEF SelTyped, SelectionTypeOK, Places
<1>7. SelectionTypeOK'
  BY <1>3, <1>6 DEF SelTyped, SelectionTypeOK, Places
<1>8. chosen["node"] = None
  BY <1>3 DEF SelTyped
<1>9. \A p \in Places : chosen'[p] # None => Listed(p, chosen[p])'
  BY <1>3, <1>6, <1>8 DEF SelTyped, Listed, Places
<1> QED BY <1>3, <1>4, <1>5, <1>6, <1>7, <1>9 DEF SelTyped

LEMMA NextTyped == ASSUME SelectionAssumption, SelTyped, [Next]_vars PROVE SelTyped'
<1>1. CASE Refuse \/ Start \/ UNCHANGED vars
  <2>1. /\ UNCHANGED <<platform, asked, caps, asks, place, table, setup, chosen>>
        /\ stage' \in {stage, "refused"} \/ (stage = "built" /\ stage' = "started")
        /\ stage' = "asking" => stage = "asking"
    BY <1>1 DEF Refuse, Start, vars
  <2>2. SelectionTypeOK'
    BY <2>1 DEF SelTyped, SelectionTypeOK
  <2> QED BY <2>1, <2>2 DEF SelTyped, Listed
<1> QED BY <1>1, AskTyped, SubmitTyped, ChooseTyped, BuildTyped, ForwardTyped DEF Next

\* Types, for any devices, tables and capabilities.
THEOREM SelectionTypes == Spec => []SelectionTypeOK
<1>1. Init => SelTyped
  BY InitTyped, SelectionAssumption
<1>2. SelTyped /\ [Next]_vars => SelTyped'
  BY NextTyped, SelectionAssumption
<1>3. SelTyped => SelectionTypeOK
  BY DEF SelTyped
<1> QED BY <1>1, <1>2, <1>3, PTL DEF Spec

----------------------------------------------------------------------------
(* Names and ports in the capabilities for the drivers. *)

\* What a client asks for names no port of a driver.
IsClients(c) ==
  \A m \in {"alwaysMatch", "firstMatch"} :
    /\ DOMAIN c[m] \subseteq {"udid", "platformVersion", "app", "mjpegServerPort", "skipReport"}
    /\ "app" \in DOMAIN c[m] => c[m]["app"] \in {"simulatorApp", "realApp"}

Clients == IsClients(asked) /\ (stage = "asking" => IsClients(caps))

\* Ports have names by platform.
PortKeys ==
  \A m \in {"alwaysMatch", "firstMatch"} :
    /\ platform = "ios" => DOMAIN caps[m] \cap {"systemPort", "chromeDriverPort"} = {}
    /\ platform = "android" => "wdaLocalPort" \notin DOMAIN caps[m]

PortNames == {"systemPort", "chromeDriverPort", "wdaLocalPort", "mjpegServerPort"}

PortsFound ==
  \A c \in {caps.alwaysMatch, caps.firstMatch} :
    \A k \in DOMAIN c \cap PortNames :
      c[k] = place \/ (k = "mjpegServerPort" /\ platform = "android")

\* What Build leaves.
Built ==
  /\ stage \in {"built", "started"} => PortsFound
  /\ stage = "built" => caps.firstMatch["udid"] = chosen[place]

BuiltInv == SelTyped /\ Clients /\ PortKeys /\ Built

LEMMA InitClients == ASSUME Init PROVE Clients /\ PortKeys /\ Built
<1>1. DOMAIN <<>> = {}
  OBVIOUS
<1>2. \A m \in {"alwaysMatch", "firstMatch"} : DOMAIN caps[m] = {} /\ DOMAIN asked[m] = {}
  BY <1>1 DEF Init
<1>3. stage = "asking"
  BY DEF Init
<1> QED BY <1>2, <1>3 DEF Clients, IsClients, PortKeys, Built

LEMMA AskAppiumClients ==
  ASSUME Wellformed(caps), IsClients(caps), NEW key, NEW values, AskAppium(key, values),
         key \in {"udid", "platformVersion", "app", "mjpegServerPort", "skipReport"},
         key = "app" => values \subseteq {"simulatorApp", "realApp"}
  PROVE  IsClients(caps')
<1>1. PICK match \in {"alwaysMatch", "firstMatch"}, v \in values :
        /\ key \notin DOMAIN caps.alwaysMatch \cup DOMAIN caps.firstMatch
        /\ caps' = [caps EXCEPT ![match] = [k \in {key} |-> v] ++ @]
  BY DEF AskAppium
<1> DEFINE c == [k \in {key} |-> v] ++ caps[match]
<1>2. /\ DOMAIN c = {key} \cup DOMAIN caps[match] /\ c[key] = v
      /\ \A k \in DOMAIN caps[match] \ {key} : c[k] = caps[match][k]
  BY DEF ++
<1>3. caps'[match] = c /\ \A k \in {"alwaysMatch", "firstMatch"} \ {match} : caps'[k] = caps[k]
  BY <1>1 DEF Wellformed
<1> HIDE DEF c
<1>4. SUFFICES ASSUME NEW m \in {"alwaysMatch", "firstMatch"}
               PROVE  /\ DOMAIN caps'[m] \subseteq
                           {"udid", "platformVersion", "app", "mjpegServerPort", "skipReport"}
                      /\ "app" \in DOMAIN caps'[m] => caps'[m]["app"] \in {"simulatorApp", "realApp"}
  BY DEF IsClients
<1>5. CASE m = match
  BY <1>2, <1>3, <1>5 DEF IsClients
<1>6. CASE m # match
  BY <1>3, <1>6 DEF IsClients
<1> QED BY <1>5, <1>6

LEMMA AskFarmClients ==
  ASSUME Wellformed(caps), IsClients(caps), NEW key, NEW values, AskFarm(key, values)
  PROVE  IsClients(caps')
<1>1. caps'.alwaysMatch = caps.alwaysMatch /\ caps'.firstMatch = caps.firstMatch
  BY DEF AskFarm, Wellformed
<1> QED BY <1>1 DEF IsClients

LEMMA AskClients == ASSUME SelTyped, Clients, Ask PROVE Clients' /\ IsClients(caps')
<1>1. Wellformed(caps) /\ IsClients(caps) /\ stage = "asking" /\ asked' = asked
  BY DEF Ask, Clients, SelTyped
<1>2. IsClients(caps')
  BY <1>1, AskAppiumClients, AskFarmClients DEF Ask
<1> QED BY <1>1, <1>2 DEF Clients

LEMMA NextClients == ASSUME SelTyped, Clients, [Next]_vars PROVE Clients'
<1>1. CASE Submit
  BY <1>1 DEF Submit, Clients
<1>2. CASE Choose \/ Refuse \/ Build \/ Start \/ Forward
  BY <1>2 DEF Choose, Refuse, Build, Start, Forward, Clients
<1>3. CASE UNCHANGED vars
  BY <1>3 DEF vars, Clients
<1> QED BY <1>1, <1>2, <1>3, AskClients DEF Next

\* Clients ask for no port of either platform.
LEMMA ClientsPorts == ASSUME IsClients(caps) PROVE PortKeys
BY DEF IsClients, PortKeys

LEMMA BuildPorts ==
  ASSUME SelectionAssumption, SelTyped, PortKeys, Build
  PROVE  PortKeys' /\ PortsFound' /\ caps'.firstMatch["udid"] = chosen[place]
<1> DEFINE u == chosen[place]
<1>1. /\ stage = "chosen" /\ UNCHANGED <<platform, place>>
      /\ platform \in {"android", "ios"} /\ place \in Places /\ Wellformed(caps) /\ u \in Udids
  BY DEF Build, SelTyped, SelectionTypeOK
<1>2. DOMAIN AppPath \subseteq {"app"}
  BY <1>1, AppPathParts
<1> HIDE DEF u
<1>3. CASE platform = "android"
  <2>1. caps' = [caps EXCEPT !.firstMatch = AndroidFirst(u), !.alwaysMatch = AndroidAlways]
    BY <1>3 DEF Build, u
  <2>2. caps'.firstMatch = AndroidFirst(u) /\ caps'.alwaysMatch = AndroidAlways
    BY <1>1, <2>1 DEF Wellformed
  <2>3. /\ DOMAIN AndroidFirst(u) \cap PortNames \subseteq
             {"systemPort", "chromeDriverPort", "mjpegServerPort"}
        /\ AndroidFirst(u)["systemPort"] = place /\ AndroidFirst(u)["chromeDriverPort"] = place
        /\ AndroidFirst(u)["udid"] = u
    BY <1>1, <1>2, <1>3, AndroidFirstParts DEF PortKeys, PortNames
  <2>4. DOMAIN AndroidAlways \cap PortNames \subseteq {"mjpegServerPort"}
    BY <1>1, <1>3, AlwaysParts DEF PortKeys, PortNames
  <2>5. PortKeys'
    BY <1>1, <1>3, <2>2, <2>3, <2>4 DEF PortKeys, PortNames
  <2>6. PortsFound'
    BY <1>1, <1>3, <2>2, <2>3, <2>4 DEF PortsFound
  <2> QED BY <2>2, <2>3, <2>5, <2>6 DEF u
<1>4. CASE platform = "ios"
  <2>1. caps' = [caps EXCEPT !.firstMatch = IosFirst(u), !.alwaysMatch = IosAlways]
    BY <1>4 DEF Build, u
  <2>2. caps'.firstMatch = IosFirst(u) /\ caps'.alwaysMatch = IosAlways
    BY <1>1, <2>1 DEF Wellformed
  <2>3. /\ DOMAIN IosFirst(u) \cap PortNames \subseteq {"wdaLocalPort", "mjpegServerPort"}
        /\ IosFirst(u)["wdaLocalPort"] = place /\ IosFirst(u)["udid"] = u
        /\ "mjpegServerPort" \in DOMAIN IosFirst(u) => IosFirst(u)["mjpegServerPort"] = place
    BY <1>1, <1>2, <1>4, IosFirstParts DEF PortKeys, PortNames
  <2>4. DOMAIN IosAlways \cap PortNames = {}
    BY <1>1, <1>4, AlwaysParts DEF PortKeys, PortNames
  <2>5. PortKeys'
    BY <1>1, <1>4, <2>2, <2>3, <2>4 DEF PortKeys, PortNames
  <2>6. PortsFound'
    BY <1>1, <1>4, <2>2, <2>3, <2>4 DEF PortsFound
  <2> QED BY <2>2, <2>3, <2>5, <2>6 DEF u
<1> QED BY <1>1, <1>3, <1>4

LEMMA NextBuilt ==
  ASSUME SelectionAssumption, BuiltInv, [Next]_vars PROVE BuiltInv'
<1>1. SelTyped' /\ Clients'
  BY NextTyped, NextClients DEF BuiltInv
<1>2. PortKeys' /\ Built'
  <2>1. CASE Ask
    <3>1. IsClients(caps') /\ stage' = "asking"
      BY <2>1, AskClients DEF BuiltInv, Ask
    <3>2. PortKeys'
      BY <3>1, ClientsPorts DEF IsClients, PortKeys
    <3> QED BY <3>1, <3>2 DEF Built
  <2>2. CASE Build
    BY <2>2, BuildPorts DEF BuiltInv, Built, Build
  <2>3. CASE Submit \/ Refuse \/ Forward
    BY <2>3 DEF Submit, Refuse, Forward, BuiltInv, PortKeys, Built
  <2>4. CASE Choose
    <3>1. caps'.alwaysMatch = caps.alwaysMatch /\ caps'.firstMatch = caps.firstMatch
      BY <2>4 DEF Choose, BuiltInv, SelTyped, Wellformed
    <3> QED BY <2>4, <3>1 DEF Choose, BuiltInv, PortKeys, Built
  <2>5. CASE Start
    BY <2>5 DEF Start, BuiltInv, PortKeys, Built, PortsFound
  <2>6. CASE UNCHANGED vars
    BY <2>6 DEF vars, BuiltInv, PortKeys, Built, PortsFound
  <2> QED BY <2>1, <2>2, <2>3, <2>4, <2>5, <2>6 DEF Next
<1> QED BY <1>1, <1>2 DEF BuiltInv

LEMMA BuiltIsInvariant == Spec => []BuiltInv
<1>1. Init => BuiltInv
  BY InitTyped, InitClients, SelectionAssumption DEF BuiltInv
<1>2. BuiltInv /\ [Next]_vars => BuiltInv'
  BY NextBuilt, SelectionAssumption
<1> QED BY <1>1, <1>2, PTL DEF Spec

\* What is handed to Appium has a capability in one place only and names the device
\* that this process has blocked, at the hub and at the node.
THEOREM DriversAreNamed == Spec => []DriverNamesDevice
<1>1. BuiltInv => DriverNamesDevice
  BY DEF BuiltInv, Built, SelTyped, Wellformed, DriverNamesDevice
<1> QED BY <1>1, BuiltIsInvariant, PTL

\* A driver gets ports that were found free where it runs, but for the mjpegServerPort
\* on Android.
THEOREM PortsAreFoundHere == Spec => []PortsAreLocal
<1>1. BuiltInv => PortsAreLocal
  BY DEF BuiltInv, Built, PortsFound, PortNames, PortsAreLocal
<1> QED BY <1>1, BuiltIsInvariant, PTL

----------------------------------------------------------------------------
(* What the request says, from the client to the node. *)

\* The farm's capabilities are what the client asked for, wherever they stand now.
FarmAsked ==
  stage # "asking" => \A k \in DOMAIN Absent : DeviceFarmCapabilities(caps)[k] = Wanted(k)

\* The others are, too, until the hub writes its own.
Unwritten ==
  place = "hub" /\ stage \in {"asked", "chosen", "refused"} =>
    caps.alwaysMatch = asked.alwaysMatch /\ caps.firstMatch = asked.firstMatch

Skips == "skipReport" \in DOMAIN Merged(asked)

\* The capabilities are the ones that the hub has written.
Written ==
  \/ place = "hub" /\ stage \in {"built", "started"}
  \/ place = "node" /\ stage \in {"asked", "chosen", "refused"}

\* They name the hub's choice, and say what the client asked for: on iOS the version
\* is the device's, and the app is gone when no report is wanted.
NamesChoice ==
  LET m == Merged(caps)
  IN /\ Get(m, "udid", None) = chosen["hub"]
     /\ platform = "ios" => Get(m, "platformVersion", 0) = Rows[chosen["hub"]].sdk
     /\ platform = "android" =>
          Get(m, "platformVersion", 0) = WantedOf("platformVersion", 0)
     /\ Skips => Get(m, "app", None) = None
     /\ ~Skips /\ setup.inDatabase => Get(m, "app", None) = WantedOf("app", None)

RequestInv == SelTyped /\ Clients /\ FarmAsked /\ Unwritten /\ (Written => NamesChoice)

\* The client's capabilities, looked up as the plugin does.
LEMMA MergedAsked ==
  ASSUME NEW key, NEW default
  PROVE  Get(Merged(asked), key, default) = WantedOf(key, default)
BY DEF Get, Merged, ++, WantedOf

LEMMA NextFarm == ASSUME SelTyped, FarmAsked, [Next]_vars PROVE FarmAsked'
<1>1. CASE Submit
  BY <1>1 DEF Submit, FarmAsked, DeviceFarmCapabilities, Wanted
<1>2. CASE Ask
  BY <1>2 DEF Ask, FarmAsked
<1>3. CASE Choose \/ Build
  <2>1. stage # "asking" /\ asked' = asked /\ caps'.own = caps.own
    BY <1>3 DEF Choose, Build, SelTyped, Wellformed
  <2>2. caps'.options = caps.options \/ caps'.options = DeviceFarmCapabilities(caps)
    BY <1>3 DEF Choose, Build, SelTyped, Wellformed
  <2>3. ASSUME NEW k \in DOMAIN Absent
        PROVE  DeviceFarmCapabilities(caps')[k] = DeviceFarmCapabilities(caps)[k]
    <3>1. CASE k = "tags"
      <4>1. caps.own.tags ++ (caps.own.tags ++ caps.options.tags) =
              caps.own.tags ++ caps.options.tags
        BY Zenon, OverTwice
      <4>2. /\ DeviceFarmCapabilities(caps)["tags"] = caps.own.tags ++ caps.options.tags
            /\ DeviceFarmCapabilities(caps')["tags"] = caps'.own.tags ++ caps'.options.tags
        BY <3>1 DEF DeviceFarmCapabilities
      <4>3. DeviceFarmCapabilities(caps).tags = caps.own.tags ++ caps.options.tags
        BY <4>2
      <4> QED BY Zenon, <2>1, <2>2, <3>1, <4>1, <4>2, <4>3
    <3>2. CASE k # "tags"
      BY <2>1, <2>2, <3>2 DEF DeviceFarmCapabilities
    <3> QED BY <3>1, <3>2
  <2>4. \A k \in DOMAIN Absent : Wanted(k)' = Wanted(k)
    BY <2>1 DEF Wanted
  <2> QED BY <2>1, <2>3, <2>4 DEF FarmAsked
<1>4. CASE Refuse \/ Start \/ Forward
  BY <1>4 DEF Refuse, Start, Forward, FarmAsked, Wanted
<1>5. CASE UNCHANGED vars
  BY <1>5 DEF vars, FarmAsked, Wanted
<1> QED BY <1>1, <1>2, <1>3, <1>4, <1>5 DEF Next

LEMMA NextUnwritten == ASSUME SelTyped, Unwritten, [Next]_vars PROVE Unwritten'
<1>1. CASE Choose
  <2>1. caps'.alwaysMatch = caps.alwaysMatch /\ caps'.firstMatch = caps.firstMatch
    BY <1>1 DEF Choose, SelTyped, Wellformed
  <2> QED BY <1>1, <2>1 DEF Choose, Unwritten
<1>2. CASE Ask \/ Submit \/ Build \/ Refuse \/ Start \/ Forward
  BY <1>2 DEF Ask, Submit, Build, Refuse, Start, Forward, Unwritten
<1>3. CASE UNCHANGED vars
  BY <1>3 DEF vars, Unwritten
<1> QED BY <1>1, <1>2, <1>3 DEF Next

\* What the hub writes names its choice.
LEMMA BuildNames ==
  ASSUME SelectionAssumption, RequestInv, place = "hub", Build PROVE NamesChoice'
<1> DEFINE u == chosen["hub"]
<1>1. /\ stage = "chosen" /\ UNCHANGED <<platform, place, asked, chosen, setup>>
      /\ platform \in {"android", "ios"} /\ place \in Places /\ Wellformed(caps) /\ u \in Udids
  BY DEF Build, RequestInv, SelTyped, SelectionTypeOK
<1>2. caps.alwaysMatch = asked.alwaysMatch /\ caps.firstMatch = asked.firstMatch
  BY <1>1 DEF RequestInv, Unwritten
<1>3. Merged(caps) = Merged(asked)
  BY <1>2 DEF Merged
<1>4. DOMAIN caps.alwaysMatch \cap DOMAIN caps.firstMatch = {}
  BY <1>1 DEF Wellformed
<1> HIDE DEF u
<1>5. /\ DOMAIN AppPath = IF "app" \in DOMAIN Merged(asked) /\ ~Skips THEN {"app"} ELSE {}
      /\ DOMAIN AppPath # {} =>
           AppPath["app"] = IF setup.inDatabase THEN Merged(asked)["app"] ELSE "undefined"
  BY <1>1, <1>3, AppPathParts DEF Skips
<1> DEFINE first == caps'.firstMatch
           always == caps'.alwaysMatch
           m == Merged(caps')
<1>6. /\ "udid" \notin DOMAIN always /\ "app" \notin DOMAIN always
      /\ "udid" \in DOMAIN first /\ first["udid"] = u
      /\ "app" \in DOMAIN first <=> "app" \in DOMAIN AppPath
      /\ "app" \in DOMAIN AppPath => first["app"] = AppPath["app"]
      /\ platform = "ios" => /\ "platformVersion" \notin DOMAIN always
                             /\ "platformVersion" \in DOMAIN first
                             /\ first["platformVersion"] = Rows[u].sdk
      /\ platform = "android" => /\ Get(always, "platformVersion", 0) = Get(caps.alwaysMatch, "platformVersion", 0)
                                 /\ Get(first, "platformVersion", 0) = Get(caps.firstMatch, "platformVersion", 0)
                                 /\ "platformVersion" \in DOMAIN always <=> "platformVersion" \in DOMAIN caps.alwaysMatch
  <2>1. CASE platform = "android"
    <3>1. caps' = [caps EXCEPT !.firstMatch = AndroidFirst(u), !.alwaysMatch = AndroidAlways]
      BY <1>1, <2>1 DEF Build, u
    <3>2. first = AndroidFirst(u) /\ always = AndroidAlways
      BY <1>1, <3>1 DEF Wellformed
    <3> HIDE DEF first, always
    <3>3. /\ "udid" \in DOMAIN first /\ first["udid"] = u
          /\ "app" \in DOMAIN first <=> "app" \in DOMAIN AppPath
          /\ "app" \in DOMAIN AppPath => first["app"] = AppPath["app"]
      BY <1>1, <3>2, AndroidFirstParts
    <3>4. /\ "udid" \notin DOMAIN always /\ "app" \notin DOMAIN always
          /\ "platformVersion" \in DOMAIN always <=> "platformVersion" \in DOMAIN caps.alwaysMatch
          /\ Get(always, "platformVersion", 0) = Get(caps.alwaysMatch, "platformVersion", 0)
      BY <1>1, <3>2, AlwaysParts DEF Get
    <3>5. Get(first, "platformVersion", 0) = Get(caps.firstMatch, "platformVersion", 0)
      <4>1. "platformVersion" \in DOMAIN first <=> "platformVersion" \in DOMAIN caps.firstMatch
        BY <1>1, <1>5, <3>2, AndroidFirstParts
      <4>2. "platformVersion" \in DOMAIN caps.firstMatch =>
              first["platformVersion"] = caps.firstMatch["platformVersion"]
        BY <1>1, <3>2, AndroidFirstParts
      <4> QED BY <4>1, <4>2 DEF Get
    <3> QED BY <2>1, <3>3, <3>4, <3>5
  <2>2. CASE platform = "ios"
    <3>1. caps' = [caps EXCEPT !.firstMatch = IosFirst(u), !.alwaysMatch = IosAlways]
      BY <1>1, <2>2 DEF Build, u
    <3>2. first = IosFirst(u) /\ always = IosAlways
      BY <1>1, <3>1 DEF Wellformed
    <3> HIDE DEF first, always
    <3>3. /\ "udid" \in DOMAIN first /\ first["udid"] = u
          /\ "app" \in DOMAIN first <=> "app" \in DOMAIN AppPath
          /\ "app" \in DOMAIN AppPath => first["app"] = AppPath["app"]
          /\ "platformVersion" \in DOMAIN first /\ first["platformVersion"] = Rows[u].sdk
      BY <1>1, <3>2, IosFirstParts
    <3>4. /\ "udid" \notin DOMAIN always /\ "app" \notin DOMAIN always
          /\ "platformVersion" \notin DOMAIN always
      BY <1>1, <3>2, AlwaysParts
    <3> QED BY <2>2, <3>3, <3>4
  <2> QED BY <1>1, <2>1, <2>2
<1>7. \A key, default : Get(m, key, default) =
        IF key \in DOMAIN always THEN always[key] ELSE Get(first, key, default)
  BY DEF Merged, Get, ++
<1>8. \A key, default : WantedOf(key, default) =
        IF key \in DOMAIN caps.alwaysMatch THEN caps.alwaysMatch[key]
        ELSE Get(caps.firstMatch, key, default)
  BY <1>2 DEF WantedOf
<1> HIDE DEF first, always, m
<1>9. Get(m, "udid", None) = u
  BY <1>6, <1>7 DEF Get
<1>10. platform = "ios" => Get(m, "platformVersion", 0) = Rows[u].sdk
  BY <1>6, <1>7 DEF Get
<1>11. platform = "android" => Get(m, "platformVersion", 0) = WantedOf("platformVersion", 0)
  BY <1>6, <1>7, <1>8 DEF Get
<1>12. Skips => Get(m, "app", None) = None
  BY <1>5, <1>6, <1>7 DEF Get
<1>13. ~Skips /\ setup.inDatabase => Get(m, "app", None) = WantedOf("app", None)
  <2>1. Get(m, "app", None) = IF "app" \in DOMAIN AppPath THEN AppPath["app"] ELSE None
    BY <1>6, <1>7 DEF Get
  <2>2. WantedOf("app", None) = Get(Merged(asked), "app", None)
    BY MergedAsked
  <2> QED BY <1>5, <2>1, <2>2 DEF Get
<1>14. /\ Skips' <=> Skips
       /\ \A key, default : WantedOf(key, default)' = WantedOf(key, default)
  BY <1>1 DEF Skips, WantedOf
<1> QED BY <1>1, <1>9, <1>10, <1>11, <1>12, <1>13, <1>14 DEF NamesChoice, m, u

LEMMA NextRequest == ASSUME SelectionAssumption, RequestInv, [Next]_vars PROVE RequestInv'
<1>1. SelTyped' /\ Clients' /\ FarmAsked' /\ Unwritten'
  BY NextTyped, NextClients, NextFarm, NextUnwritten DEF RequestInv
<1>2. Written' => NamesChoice'
  <2>1. CASE Ask \/ Submit
    <3>1. stage = "asking" /\ place' = place /\ stage' \in {"asking", "asked"}
      BY <2>1 DEF Ask, Submit
    <3> QED BY <3>1 DEF RequestInv, SelTyped, Written
  <2>2. CASE Build
    BY <2>2, BuildNames DEF Build, Written
  <2>3. CASE Choose
    <3>1. place = "hub" => ~Written'
      BY <2>3 DEF Choose, Written
    <3>2. ASSUME place # "hub" PROVE NamesChoice'
      <4>1. place = "node" /\ stage = "asked" /\ UNCHANGED <<platform, asked, setup>>
            /\ chosen'["hub"] = chosen["hub"]
        BY <2>3, <3>2 DEF Choose, RequestInv, SelTyped, SelectionTypeOK, Places
      <4>2. caps'.alwaysMatch = caps.alwaysMatch /\ caps'.firstMatch = caps.firstMatch
        BY <2>3 DEF Choose, RequestInv, SelTyped, Wellformed
      <4>3. Merged(caps') = Merged(caps)
        BY <4>2 DEF Merged
      <4>4. NamesChoice
        BY <4>1 DEF RequestInv, Written
      <4>5. /\ Skips' <=> Skips
            /\ \A key, default : WantedOf(key, default)' = WantedOf(key, default)
        BY <4>1 DEF Skips, WantedOf
      <4> QED BY <4>1, <4>3, <4>4, <4>5 DEF NamesChoice
    <3> QED BY <3>1, <3>2
  <2>4. CASE Refuse \/ Start \/ Forward \/ UNCHANGED vars
    <3>1. /\ UNCHANGED <<platform, asked, caps, chosen>>
          /\ setup'.inDatabase = setup.inDatabase
      BY <2>4 DEF Refuse, Start, Forward, vars, RequestInv, SelTyped
    <3>2. Written' => Written
      BY <2>4 DEF Refuse, Start, Forward, vars, Written
    <3>3. /\ Skips' <=> Skips
          /\ \A key, default : WantedOf(key, default)' = WantedOf(key, default)
      BY <3>1 DEF Skips, WantedOf
    <3> QED BY <3>1, <3>2, <3>3 DEF NamesChoice, RequestInv
  <2> QED BY <2>1, <2>2, <2>3, <2>4 DEF Next
<1> QED BY <1>1, <1>2 DEF RequestInv

----------------------------------------------------------------------------
(* The filters and what the client asked for. *)

\* What is wanted is typed.
LEMMA WantedTyped ==
  ASSUME SelTyped PROVE \A k \in DOMAIN Absent : Wanted(k) \in FarmValues[k]
<1>1. asked.own.tags ++ asked.options.tags \in Seq(STRING)
  BY OverLists DEF SelTyped, Wellformed, IsFarm, FarmValues, Absent
<1>2. FarmValues["tags"] = Seq(STRING)
  BY DEF FarmValues
<1> QED BY <1>1, <1>2 DEF SelTyped, Wellformed, IsFarm, Wanted

LEMMA FarmFilters ==
  ASSUME FarmAsked, stage = "asked"
  PROVE  LET f == Filters(caps)
         IN /\ f.platformVersion = Get(Merged(caps), "platformVersion", 0)
            /\ f.name = IF Wanted("iPadOnly") THEN "iPad"
                        ELSE IF Wanted("iPhoneOnly") THEN "iPhone" ELSE None
            /\ f.deviceType = TypeAsked(caps)
            /\ f.udid = UdidsAsked(caps)
            /\ f.filterByHost = Wanted("filterByHost")
            /\ f.minSDK = Wanted("minSDK") /\ f.maxSDK = Wanted("maxSDK")
            /\ f.tags = Wanted("tags")
<1> DEFINE df == DeviceFarmCapabilities(caps)
<1>1. {"iPadOnly", "iPhoneOnly", "filterByHost", "minSDK", "maxSDK", "tags"} \subseteq DOMAIN Absent
  BY DEF Absent
<1>2. /\ df["iPadOnly"] = Wanted("iPadOnly") /\ df["iPhoneOnly"] = Wanted("iPhoneOnly")
      /\ df["filterByHost"] = Wanted("filterByHost") /\ df["minSDK"] = Wanted("minSDK")
      /\ df["maxSDK"] = Wanted("maxSDK") /\ df["tags"] = Wanted("tags")
  BY <1>1 DEF FarmAsked
<1> QED BY <1>2 DEF Filters

\* The conditions on what the farm's capabilities say are those of Fits.
LEMMA FarmSuits ==
  ASSUME SelectionAssumption, SelTyped, FarmAsked, stage = "asked", NEW r \in Row
  PROVE  LET f == Filters(caps)
             is == Rows[r.udid]
         IN /\ (f.name # None => is.name = f.name) <=>
                 /\ Wanted("iPadOnly") => is.name = "iPad"
                 /\ Wanted("iPhoneOnly") /\ ~Wanted("iPadOnly") => is.name = "iPhone"
            /\ (f.filterByHost # None => r.host = f.filterByHost) <=>
                 Wanted("filterByHost") \in {None, r.host}
            /\ (f.minSDK # 0 => is.sdk >= f.minSDK) <=> is.sdk >= Wanted("minSDK")
            /\ (f.maxSDK # 0 => is.sdk <= f.maxSDK) <=>
                 Wanted("maxSDK") = 0 \/ is.sdk <= Wanted("maxSDK")
<1> DEFINE f == Filters(caps)
           is == Rows[r.udid]
<1>1. r.udid \in Udids /\ is.sdk \in Nat \ {0}
  BY DEF Row, SelectionAssumption
<1>2. /\ Wanted("iPadOnly") \in BOOLEAN /\ Wanted("iPhoneOnly") \in BOOLEAN
      /\ Wanted("minSDK") \in Nat /\ Wanted("maxSDK") \in Nat
  <2>1. {"iPadOnly", "iPhoneOnly", "minSDK", "maxSDK"} \subseteq DOMAIN Absent
    BY DEF Absent
  <2>2. /\ Wanted("iPadOnly") \in FarmValues["iPadOnly"]
        /\ Wanted("iPhoneOnly") \in FarmValues["iPhoneOnly"]
        /\ Wanted("minSDK") \in FarmValues["minSDK"] /\ Wanted("maxSDK") \in FarmValues["maxSDK"]
    BY <2>1, WantedTyped
  <2> QED BY <2>2 DEF FarmValues
<1>3. /\ f.name = IF Wanted("iPadOnly") THEN "iPad"
                  ELSE IF Wanted("iPhoneOnly") THEN "iPhone" ELSE None
      /\ f.filterByHost = Wanted("filterByHost")
      /\ f.minSDK = Wanted("minSDK") /\ f.maxSDK = Wanted("maxSDK")
  BY FarmFilters
<1>4. None = "none"
  BY DEF None
<1> HIDE DEF f, is
<1>5. (f.name # None => is.name = f.name) <=>
        /\ Wanted("iPadOnly") => is.name = "iPad"
        /\ Wanted("iPhoneOnly") /\ ~Wanted("iPadOnly") => is.name = "iPhone"
  BY <1>2, <1>3, <1>4
<1>6. (f.filterByHost # None => r.host = f.filterByHost) <=>
        Wanted("filterByHost") \in {None, r.host}
  BY <1>3
<1>7. (f.minSDK # 0 => is.sdk >= f.minSDK) <=> is.sdk >= Wanted("minSDK")
  BY <1>1, <1>2, <1>3
<1>8. (f.maxSDK # 0 => is.sdk <= f.maxSDK) <=> Wanted("maxSDK") = 0 \/ is.sdk <= Wanted("maxSDK")
  BY <1>1, <1>2, <1>3
<1> QED BY <1>5, <1>6, <1>7, <1>8 DEF f, is

\* The conditions on the others are those of Fits while the capabilities say what the
\* client asked for.
LEMMA AppSuits ==
  ASSUME IsClients(asked), Get(Merged(caps), "app", None) = WantedOf("app", None), NEW is
  PROVE  (TypeAsked(caps) # None => is.type = TypeAsked(caps)) <=>
         /\ platform = "ios" /\ WantedOf("app", None) = "simulatorApp" => is.type = "simulator"
         /\ platform = "ios" /\ WantedOf("app", None) = "realApp" => is.type = "real"
<1>1. WantedOf("app", None) \in {"simulatorApp", "realApp", None}
  BY DEF IsClients, WantedOf, Get
<1>2. None = "none"
  BY DEF None
<1> QED BY <1>1, <1>2 DEF TypeAsked, TypeFromApp

LEMMA VersionSuits ==
  ASSUME SelTyped, NEW sdk \in Nat \ {0}, NEW version, version = WantedOf("platformVersion", 0)
  PROVE  (version # 0 => sdk = version) <=> WantedOf("platformVersion", sdk) = sdk
<1>1. \A m \in {"alwaysMatch", "firstMatch"} :
        "platformVersion" \in DOMAIN asked[m] => asked[m]["platformVersion"] # 0
  <2>1. IsMatch(asked.alwaysMatch) /\ IsMatch(asked.firstMatch)
    BY DEF SelTyped, Wellformed
  <2>2. 0 \notin MatchValues["platformVersion"]
    BY DEF MatchValues
  <2> QED BY <2>1, <2>2 DEF IsMatch
<1> QED BY <1>1 DEF WantedOf, Get

\* The hub looks for the udids that count there.
LEMMA UdidsAtHub ==
  ASSUME SelectionAssumption, RequestInv, stage = "asked", place = "hub"
  PROVE  UdidsAsked(caps) = Sought("hub")
<1>1. caps.alwaysMatch = asked.alwaysMatch /\ caps.firstMatch = asked.firstMatch
  BY DEF RequestInv, Unwritten
<1>2. DeviceFarmCapabilities(caps)["udids"] = Wanted("udids")
  BY DEF RequestInv, FarmAsked, Absent
<1>3. \A u \in Udids : Get(Merged(caps), "udid", None) = u <=>
        \E c \in {asked.alwaysMatch, asked.firstMatch} : Get(c, "udid", None) = u
  <2>1. Get(Merged(caps), "udid", None) =
          IF "udid" \in DOMAIN asked.alwaysMatch THEN asked.alwaysMatch["udid"]
          ELSE Get(asked.firstMatch, "udid", None)
    BY <1>1 DEF Get, Merged, ++
  <2>2. ~("udid" \in DOMAIN asked.alwaysMatch /\ "udid" \in DOMAIN asked.firstMatch)
    BY DEF RequestInv, SelTyped, Wellformed
  <2>3. None \notin Udids
    BY DEF SelectionAssumption
  <2> QED BY <2>1, <2>2, <2>3 DEF Get
<1> QED BY <1>2, <1>3 DEF UdidsAsked, Sought

\* The node looks for the list of udids, or for its UDIDS, or for the hub's choice.
LEMMA UdidsAtNode ==
  ASSUME SelectionAssumption, RequestInv, stage = "asked", place = "node",
         chosen["hub"] \in Udids
  PROVE  UdidsAsked(caps) = IF Wanted("udids") # {} THEN Wanted("udids")
                            ELSE IF setup.udids["node"] # {} THEN setup.udids["node"]
                            ELSE {chosen["hub"]}
<1>1. DeviceFarmCapabilities(caps)["udids"] = Wanted("udids")
  BY DEF RequestInv, FarmAsked, Absent
<1>2. Get(Merged(caps), "udid", None) = chosen["hub"]
  BY DEF RequestInv, Written, NamesChoice
<1>3. {u \in Udids : Get(Merged(caps), "udid", None) = u} = {chosen["hub"]}
  BY <1>2
<1>4. UdidsAsked(caps) =
        IF DeviceFarmCapabilities(caps)["udids"] # {} THEN DeviceFarmCapabilities(caps)["udids"]
        ELSE IF setup.udids["node"] # {} THEN setup.udids["node"]
        ELSE {u \in Udids : Get(Merged(caps), "udid", None) = u}
  BY Zenon DEF UdidsAsked
<1> QED BY ONLY <1>1, <1>3, <1>4

\* At the hub, a row suits the filters if and only if it fits the request.
LEMMA SuitsAtHub ==
  ASSUME SelectionAssumption, RequestInv, stage = "asked", place = "hub", NEW r \in Row
  PROVE  Suits(r, Filters(caps)) <=> Fits(r, "hub")
<1> DEFINE f == Filters(caps)
           is == Rows[r.udid]
<1>1. is.sdk \in Nat \ {0} /\ SelTyped /\ IsClients(asked) /\ FarmAsked
  BY DEF Row, SelectionAssumption, RequestInv, Clients
<1>2. Merged(caps) = Merged(asked)
  BY DEF RequestInv, Unwritten, Merged
<1>3. (f.deviceType # None => is.type = f.deviceType) <=>
        /\ platform = "ios" /\ WantedOf("app", None) = "simulatorApp" => is.type = "simulator"
        /\ platform = "ios" /\ WantedOf("app", None) = "realApp" => is.type = "real"
  <2>1. Get(Merged(caps), "app", None) = WantedOf("app", None)
    BY <1>2, MergedAsked
  <2>2. f.deviceType = TypeAsked(caps)
    BY DEF Filters
  <2> QED BY <1>1, <2>1, <2>2, AppSuits
<1>4. (f.platformVersion # 0 => is.sdk = f.platformVersion) <=>
      WantedOf("platformVersion", is.sdk) = is.sdk
  <2>1. f.platformVersion = WantedOf("platformVersion", 0)
    BY <1>2, MergedAsked DEF Filters
  <2> QED BY <1>1, <2>1, VersionSuits
<1>5. (f.udid # {} => r.udid \in f.udid) <=> (Sought("hub") = {} \/ r.udid \in Sought("hub"))
  BY UdidsAtHub DEF Filters
<1>6. f.tags = Wanted("tags") /\ TagsOf(r) = is.tags
  BY <1>1, FarmFilters DEF TagsOf
<1>7. /\ (f.name # None => is.name = f.name) <=>
           /\ Wanted("iPadOnly") => is.name = "iPad"
           /\ Wanted("iPhoneOnly") /\ ~Wanted("iPadOnly") => is.name = "iPhone"
      /\ (f.filterByHost # None => r.host = f.filterByHost) <=>
           Wanted("filterByHost") \in {None, r.host}
      /\ (f.minSDK # 0 => is.sdk >= f.minSDK) <=> is.sdk >= Wanted("minSDK")
      /\ (f.maxSDK # 0 => is.sdk <= f.maxSDK) <=>
           Wanted("maxSDK") = 0 \/ is.sdk <= Wanted("maxSDK")
  BY <1>1, FarmSuits
<1> HIDE DEF f
<1>8. Suits(r, f) <=>
        /\ is.platform = platform
        /\ f.platformVersion # 0 => is.sdk = f.platformVersion
        /\ f.name # None => is.name = f.name
        /\ f.deviceType # None => is.type = f.deviceType
        /\ f.udid # {} => r.udid \in f.udid
        /\ f.filterByHost # None => r.host = f.filterByHost
        /\ f.minSDK # 0 => is.sdk >= f.minSDK
        /\ f.maxSDK # 0 => is.sdk <= f.maxSDK
        /\ f.tags # <<>> => TagsOf(r) \cap Range(f.tags) # {}
  BY DEF Suits
<1>9. Fits(r, "hub") <=>
        /\ is.platform = platform
        /\ Sought("hub") = {} \/ r.udid \in Sought("hub")
        /\ Wanted("iPadOnly") => is.name = "iPad"
        /\ Wanted("iPhoneOnly") /\ ~Wanted("iPadOnly") => is.name = "iPhone"
        /\ WantedOf("platformVersion", is.sdk) = is.sdk
        /\ is.sdk >= Wanted("minSDK")
        /\ Wanted("maxSDK") = 0 \/ is.sdk <= Wanted("maxSDK")
        /\ Wanted("filterByHost") \in {None, r.host}
        /\ Wanted("tags") = <<>> \/ is.tags \cap Range(Wanted("tags")) # {}
        /\ platform = "ios" /\ WantedOf("app", None) = "simulatorApp" => is.type = "simulator"
        /\ platform = "ios" /\ WantedOf("app", None) = "realApp" => is.type = "real"
  BY DEF Fits, FitsRest
<1> HIDE DEF is
<1> QED BY Zenon, <1>3, <1>4, <1>5, <1>6, <1>7, <1>8, <1>9 DEF f

\* FitsRest looks at what a row says of its device and at the host.
LEMMA FitsAlike ==
  ASSUME NEW r, NEW s, r.udid = s.udid, r.host = s.host, FitsRest(r) PROVE FitsRest(s)
BY DEF FitsRest

\* What the node accepts fits the request, when the hub's choice did and the app was kept.
LEMMA SuitsAtNode ==
  ASSUME SelectionAssumption, RequestInv, stage = "asked", place = "node",
         setup.inDatabase, ~Skips,
         NEW h \in Row, h.udid = chosen["hub"], h.host = "node", Fits(h, "hub"),
         NEW r \in Row, r.host = "node", Suits(r, Filters(caps))
  PROVE  Fits(r, "node")
<1> DEFINE f == Filters(caps)
           is == Rows[r.udid]
<1>1. is.sdk \in Nat \ {0} /\ SelTyped /\ IsClients(asked) /\ FarmAsked /\ NamesChoice
  BY DEF Row, SelectionAssumption, RequestInv, Clients, Written
<1>2. chosen["hub"] \in Udids
  BY DEF Row
<1>3. /\ is.platform = platform
      /\ f.platformVersion # 0 => is.sdk = f.platformVersion
      /\ f.name # None => is.name = f.name
      /\ f.deviceType # None => is.type = f.deviceType
      /\ f.udid # {} => r.udid \in f.udid
      /\ f.filterByHost # None => r.host = f.filterByHost
      /\ f.minSDK # 0 => is.sdk >= f.minSDK
      /\ f.maxSDK # 0 => is.sdk <= f.maxSDK
      /\ f.tags # <<>> => TagsOf(r) \cap Range(f.tags) # {}
  BY DEF Suits
<1>0. Sought("node") = {} \/ r.udid \in Sought("node")
  <2>1. f.udid = IF Wanted("udids") # {} THEN Wanted("udids")
                 ELSE IF setup.udids["node"] # {} THEN setup.udids["node"]
                 ELSE {chosen["hub"]}
    BY <1>2, UdidsAtNode DEF Filters
  <2>2. CASE Wanted("udids") # {} \/ setup.udids["node"] # {}
    BY <1>3, <2>1, <2>2 DEF Sought
  <2>3. CASE Wanted("udids") = {} /\ setup.udids["node"] = {}
    <3>1. Sought("node") = Sought("hub")
      BY <2>3 DEF Sought
    <3>4. f.udid # {} => r.udid \in f.udid
      BY Zenon, <1>3
    <3>5. f.udid = {chosen["hub"]}
      BY <2>1, <2>3
    <3>6. h.udid = chosen["hub"]
      OBVIOUS
    <3> HIDE DEF f
    <3>2. r.udid = h.udid
      BY ONLY <3>4, <3>5, <3>6
    <3>3. Sought("hub") = {} \/ h.udid \in Sought("hub")
      BY Zenon DEF Fits
    <3> QED BY ONLY <3>1, <3>2, <3>3
  <2> QED BY <2>2, <2>3
<1>4. CASE r.udid = h.udid
  BY <1>0, <1>4, FitsAlike DEF Fits
<1>5. CASE r.udid # h.udid
  <2>2. WantedOf("platformVersion", is.sdk) = is.sdk
    <3>1. f.platformVersion = Get(Merged(caps), "platformVersion", 0)
      BY DEF Filters
    <3>2. CASE platform = "ios"
      <4>1. Rows[h.udid].sdk # 0
        BY DEF SelectionAssumption, Row
      <4>2. is.sdk = Rows[h.udid].sdk
        BY <1>1, <1>3, <3>1, <3>2, <4>1 DEF NamesChoice
      <4>3. WantedOf("platformVersion", Rows[h.udid].sdk) = Rows[h.udid].sdk
        BY DEF Fits, FitsRest
      <4> QED BY Zenon, <4>2, <4>3
    <3>3. CASE platform = "android"
      <4>1. f.platformVersion = WantedOf("platformVersion", 0)
        BY <1>1, <3>1, <3>3 DEF NamesChoice
      <4> QED BY <1>1, <1>3, <4>1, VersionSuits
    <3> QED BY <1>1, <3>2, <3>3 DEF SelTyped, SelectionTypeOK
  <2>3. /\ platform = "ios" /\ WantedOf("app", None) = "simulatorApp" => is.type = "simulator"
        /\ platform = "ios" /\ WantedOf("app", None) = "realApp" => is.type = "real"
    <3>1. Get(Merged(caps), "app", None) = WantedOf("app", None)
      BY <1>1 DEF NamesChoice
    <3>2. f.deviceType = TypeAsked(caps)
      BY DEF Filters
    <3> QED BY <1>1, <1>3, <3>1, <3>2, AppSuits
  <2>4. Wanted("tags") = <<>> \/ is.tags \cap Range(Wanted("tags")) # {}
    <3>1. f.tags = Wanted("tags")
      BY <1>1, FarmFilters
    <3> QED BY <1>3, <3>1 DEF TagsOf
  <2>5. /\ Wanted("iPadOnly") => is.name = "iPad"
        /\ Wanted("iPhoneOnly") /\ ~Wanted("iPadOnly") => is.name = "iPhone"
        /\ Wanted("filterByHost") \in {None, r.host}
        /\ is.sdk >= Wanted("minSDK")
        /\ Wanted("maxSDK") = 0 \/ is.sdk <= Wanted("maxSDK")
    BY <1>1, <1>3, FarmSuits
  <2> HIDE DEF f
  <2> QED BY <1>0, <1>3, <2>2, <2>3, <2>4, <2>5 DEF Fits, FitsRest
<1> QED BY <1>4, <1>5

\* The hub's choice suits the node's filters, when the node knows its tags and the app
\* was kept or removed.
LEMMA ChoiceSuitsNode ==
  ASSUME SelectionAssumption, RequestInv, stage = "asked", place = "node",
         Wanted("udids") # {} \/ setup.udids["node"] = {}, setup.inDatabase, setup.tagged,
         NEW h \in Row, h.udid = chosen["hub"], h.host = "node", Fits(h, "hub"),
         NEW r \in Row, r.udid = chosen["hub"], r.host = "node"
  PROVE  Suits(r, Filters(caps))
<1> DEFINE f == Filters(caps)
           is == Rows[r.udid]
<1>1. is.sdk \in Nat \ {0} /\ SelTyped /\ IsClients(asked) /\ FarmAsked /\ NamesChoice
  BY DEF Row, SelectionAssumption, RequestInv, Clients, Written
<1>2. chosen["hub"] \in Udids
  BY DEF Row
<1>3. FitsRest(r)
  BY FitsAlike DEF Fits
<1>4. f.platformVersion # 0 => is.sdk = f.platformVersion
  <2>1. f.platformVersion = Get(Merged(caps), "platformVersion", 0)
    BY DEF Filters
  <2>2. CASE platform = "ios"
    BY <1>1, <2>1, <2>2 DEF NamesChoice
  <2>3. CASE platform = "android"
    <3>1. f.platformVersion = WantedOf("platformVersion", 0)
      BY <1>1, <2>1, <2>3 DEF NamesChoice
    <3>2. WantedOf("platformVersion", is.sdk) = is.sdk
      BY <1>3 DEF FitsRest
    <3> QED BY <1>1, <3>1, <3>2, VersionSuits
  <2> QED BY <1>1, <2>2, <2>3 DEF SelTyped, SelectionTypeOK
<1>5. f.deviceType # None => is.type = f.deviceType
  <2>1. f.deviceType = TypeAsked(caps)
    BY DEF Filters
  <2>2. CASE Skips
    <3>1. Get(Merged(caps), "app", None) = None
      BY <1>1, <2>2 DEF NamesChoice
    <3> QED BY <2>1, <3>1 DEF TypeAsked, TypeFromApp
  <2>3. CASE ~Skips
    <3>1. Get(Merged(caps), "app", None) = WantedOf("app", None)
      BY <1>1, <2>3 DEF NamesChoice
    <3>2. /\ platform = "ios" /\ WantedOf("app", None) = "simulatorApp" => is.type = "simulator"
          /\ platform = "ios" /\ WantedOf("app", None) = "realApp" => is.type = "real"
      BY <1>3 DEF FitsRest
    <3> QED BY <1>1, <2>1, <3>1, <3>2, AppSuits
  <2> QED BY <2>2, <2>3
<1>6. f.udid # {} => r.udid \in f.udid
  <2>1. f.udid = IF Wanted("udids") # {} THEN Wanted("udids") ELSE {chosen["hub"]}
    BY <1>2, UdidsAtNode DEF Filters
  <2> QED BY <2>1 DEF Fits, Sought
<1>7. f.tags # <<>> => TagsOf(r) \cap Range(f.tags) # {}
  <2>1. f.tags = Wanted("tags")
    BY <1>1, FarmFilters
  <2> QED BY <1>3, <2>1 DEF TagsOf, FitsRest
<1>8. /\ f.name # None => is.name = f.name
      /\ f.filterByHost # None => r.host = f.filterByHost
      /\ f.minSDK # 0 => is.sdk >= f.minSDK
      /\ f.maxSDK # 0 => is.sdk <= f.maxSDK
  <2>1. /\ Wanted("iPadOnly") => is.name = "iPad"
        /\ Wanted("iPhoneOnly") /\ ~Wanted("iPadOnly") => is.name = "iPhone"
        /\ Wanted("filterByHost") \in {None, r.host}
        /\ is.sdk >= Wanted("minSDK")
        /\ Wanted("maxSDK") = 0 \/ is.sdk <= Wanted("maxSDK")
    BY <1>3 DEF FitsRest
  <2> QED BY <1>1, <2>1, FarmSuits
<1>9. is.platform = platform
  BY <1>3 DEF FitsRest
<1> HIDE DEF f
<1> QED BY <1>4, <1>5, <1>6, <1>7, <1>8, <1>9 DEF Suits, f

----------------------------------------------------------------------------
(* What is chosen. *)

ChosenFits(p) ==
  \E i \in DOMAIN table[p] : table[p][i].udid = chosen[p] /\ Fits(table[p][i], p)

HubFits == chosen["hub"] # None => ChosenFits("hub")

\* The node is asked for one of its own devices, which the hub has found to fit.
AtNode ==
  place = "node" =>
    /\ setup.iosDeviceType = "both"
    /\ \E i \in DOMAIN table["hub"] : LET h == table["hub"][i]
                                      IN h.udid = chosen["hub"] /\ h.host = "node" /\ Fits(h, "hub")
    /\ \A i \in DOMAIN table["node"] : table["node"][i].host = "node"

NodeFits ==
  chosen["node"] # None /\ setup.inDatabase /\ ~Skips => ChosenFits("node")

ChoiceInv == RequestInv /\ HubFits /\ AtNode /\ NodeFits /\ NodeTakesHubsChoice

\* A request asks for the same from its submission on.
LEMMA FitsStays ==
  ASSUME UNCHANGED <<platform, asked>>, NEW p \in Places,
         setup'.udids[p] = setup.udids[p], setup'.udids["hub"] = setup.udids["hub"]
  PROVE  /\ \A r : Fits(r, p)' <=> Fits(r, p)
         /\ Skips' <=> Skips
         /\ Wanted("udids")' = Wanted("udids") /\ Sought(p)' = Sought(p)
BY DEF Fits, FitsRest, Skips, Wanted, Sought, WantedOf

LEMMA PlaceStays ==
  ASSUME UNCHANGED <<platform, asked, table, setup>>
  PROVE  /\ Min(PlacesOf("hub", Sought("hub")))' = Min(PlacesOf("hub", Sought("hub")))
         /\ Sought("hub")' = Sought("hub")
<1>1. Sought("hub")' = Sought("hub")
  BY FitsStays DEF Places
<1>2. PlacesOf("hub", Sought("hub"))' = PlacesOf("hub", Sought("hub"))
  <2> DEFINE S == Sought("hub")
  <2>1. S' = S
    BY <1>1
  <2> HIDE DEF S
  <2> QED BY <2>1 DEF PlacesOf, S
<1> QED BY <1>1, <1>2

LEMMA ChooseAtHub ==
  ASSUME SelectionAssumption, ChoiceInv, place = "hub", Choose PROVE HubFits'
<1> DEFINE f == Filters(caps)
           i == Min(Devices(f))
<1>1. /\ Devices(f) # {} /\ stage = "asked"
      /\ chosen' = [chosen EXCEPT !["hub"] = table["hub"][i].udid]
      /\ UNCHANGED <<platform, asked, table, setup>> /\ SelectionTypeOK
  BY DEF Choose, ChoiceInv, RequestInv, SelTyped
<1>2. i \in Devices(f) /\ i \in DOMAIN table["hub"] /\ table["hub"][i].udid \in Udids
  BY <1>1, FirstDevice
<1>3. table["hub"][i] \in Row
  BY <1>1, <1>2 DEF SelectionTypeOK, Places
<1>4. Suits(table["hub"][i], f)
  BY <1>2 DEF Devices
<1>5. Fits(table["hub"][i], "hub")
  BY <1>1, <1>3, <1>4, SuitsAtHub DEF ChoiceInv
<1> HIDE DEF f, i
<1>6. chosen'["hub"] = table["hub"][i].udid
  BY <1>1 DEF SelectionTypeOK, Places
<1> QED BY <1>1, <1>2, <1>5, <1>6, FitsStays DEF HubFits, ChosenFits, Places

\* What the node takes.
LEMMA NodesDevice ==
  ASSUME SelectionAssumption, ChoiceInv, place = "node", Choose
  PROVE  \E i \in DOMAIN table["node"] :
           /\ chosen' = [chosen EXCEPT !["node"] = table["node"][i].udid]
           /\ table["node"][i] \in Row /\ table["node"][i].host = "node"
           /\ Suits(table["node"][i], Filters(caps))
<1> DEFINE f == Filters(caps)
           i == Min(Devices(f))
<1>1. /\ Devices(f) # {} /\ SelectionTypeOK
      /\ chosen' = [chosen EXCEPT !["node"] = table["node"][i].udid]
  BY DEF Choose, ChoiceInv, RequestInv, SelTyped
<1>2. i \in Devices(f) /\ i \in DOMAIN table["node"]
  BY <1>1, FirstDevice
<1>3. table["node"][i] \in Row
  BY <1>1, <1>2 DEF SelectionTypeOK, Places
<1>4. table["node"][i].host = "node"
  BY <1>2 DEF ChoiceInv, AtNode
<1>5. Suits(table["node"][i], f)
  BY <1>2 DEF Devices
<1> HIDE DEF f, i
<1> QED BY <1>1, <1>2, <1>3, <1>4, <1>5 DEF f

LEMMA ChooseAtNode ==
  ASSUME SelectionAssumption, ChoiceInv, place = "node", Choose
  PROVE  HubFits' /\ AtNode' /\ NodeFits' /\ NodeTakesHubsChoice'
<1>1. PICK i \in DOMAIN table["node"] :
        /\ chosen' = [chosen EXCEPT !["node"] = table["node"][i].udid]
        /\ table["node"][i] \in Row /\ table["node"][i].host = "node"
        /\ Suits(table["node"][i], Filters(caps))
  BY NodesDevice
<1>2. PICK j \in DOMAIN table["hub"] : LET h == table["hub"][j]
                                       IN h.udid = chosen["hub"] /\ h.host = "node" /\ Fits(h, "hub")
  BY DEF ChoiceInv, AtNode
<1> DEFINE r == table["node"][i]
           h == table["hub"][j]
<1>3. /\ UNCHANGED <<platform, asked, table, setup, place>> /\ stage = "asked"
      /\ SelTyped /\ RequestInv
  BY DEF Choose, ChoiceInv, RequestInv
<1>4. h \in Row /\ chosen'["hub"] = chosen["hub"] /\ chosen'["node"] = r.udid
  BY <1>1, <1>3 DEF SelTyped, SelectionTypeOK, Places
<1>5. HubFits' /\ AtNode'
  BY <1>3, <1>4, FitsStays DEF ChoiceInv, HubFits, AtNode, ChosenFits, Places
<1>6. NodeFits'
  <2>1. ASSUME setup.inDatabase, ~Skips PROVE Fits(r, "node")
    BY <1>1, <1>2, <1>3, <1>4, <2>1, SuitsAtNode
  <2> QED BY <1>3, <1>4, <2>1, FitsStays DEF NodeFits, ChosenFits, Places
<1>7. NodeTakesHubsChoice'
  <2>1. SUFFICES ASSUME \/ Cardinality(Wanted("udids")) = 1
                        \/ Wanted("udids") = {} /\ setup.udids["node"] = {}
                 PROVE  r.udid = chosen["hub"]
    BY <1>3, <1>4, FitsStays DEF NodeTakesHubsChoice, Places
  <2>2. chosen["hub"] \in Udids
    BY <1>2, <1>4 DEF Row
  <2> DEFINE us == IF Wanted("udids") # {} THEN Wanted("udids") ELSE {chosen["hub"]}
  <2>9. Wanted("udids") # {} \/ setup.udids["node"] = {}
    <3>1. Wanted("udids") = {} => Cardinality(Wanted("udids")) = 0
      BY FS_EmptySet
    <3>2. ~(0 = 1)
      OBVIOUS
    <3> QED BY ONLY Zenon, <2>1, <3>1, <3>2
  <2>3. UdidsAsked(caps) = us
    <3>1. UdidsAsked(caps) = IF Wanted("udids") # {} THEN Wanted("udids")
                             ELSE IF setup.udids["node"] # {} THEN setup.udids["node"]
                             ELSE {chosen["hub"]}
      BY <1>3, <2>2, UdidsAtNode
    <3> QED BY <2>9, <3>1
  <2>4. us # {} => r.udid \in us
    BY <1>1, <2>3 DEF Suits, Filters
  <2>5. chosen["hub"] \in us
    BY <1>2 DEF Fits, Sought
  <2>6. CASE Wanted("udids") = {}
    BY <2>4, <2>6
  <2>7. CASE Wanted("udids") # {}
    <3>1. Wanted("udids") \subseteq Udids
      <4>1. Wanted("udids") \in FarmValues["udids"]
        BY <1>3, WantedTyped DEF Absent
      <4> QED BY <4>1 DEF FarmValues
    <3>2. IsFiniteSet(Wanted("udids"))
      BY <3>1, FS_Subset DEF SelectionAssumption
    <3>4. \E x : Wanted("udids") = {x}
      BY <2>1, <2>7, <3>2, FS_Singleton
    <3> QED BY <2>4, <2>5, <2>7, <3>4
  <2> QED BY <2>6, <2>7
<1> QED BY <1>5, <1>6, <1>7

\* The hub forwards a request for its choice to the node whose device this is.
LEMMA ForwardChoice ==
  ASSUME SelectionAssumption, ChoiceInv, Forward
  PROVE  HubFits' /\ AtNode' /\ NodeFits' /\ NodeTakesHubsChoice'
<1>1. PICK t \in Tables({r \in Row : r.host = "node" /\ r.udid \in OfPlatform}),
           tagged \in BOOLEAN, us \in UdidsVar :
        /\ table' = [table EXCEPT !["node"] = t]
        /\ setup' = [setup EXCEPT !.iosDeviceType = "both", !.tagged = tagged,
                                  !.udids = [@ EXCEPT !["node"] = us]]
  BY DEF Forward
<1>2. /\ UNCHANGED <<platform, asked, chosen>> /\ stage = "built" /\ place = "hub"
      /\ place' = "node" /\ ChosenRow.host = "node" /\ SelTyped
  BY DEF Forward, ChoiceInv, RequestInv
<1>3. chosen["hub"] # None /\ chosen["node"] = None
  BY <1>2 DEF SelTyped
<1>4. /\ table'["hub"] = table["hub"] /\ table'["node"] = t /\ setup'.iosDeviceType = "both"
      /\ setup'.udids["hub"] = setup.udids["hub"]
  BY <1>1, <1>2 DEF SelTyped, SelectionTypeOK, Places
<1>5. PICK i \in DOMAIN table["hub"] :
        table["hub"][i].udid = chosen["hub"] /\ Fits(table["hub"][i], "hub")
  BY <1>3 DEF ChoiceInv, HubFits, ChosenFits
<1>6. table["hub"][i].host = "node"
  <2>1. Min(PlacesOf("hub", {chosen["hub"]})) = i
    BY <1>2, <1>5, RowOf DEF SelTyped, Places
  <2> QED BY <1>2, <2>1 DEF ChosenRow
<1>8. \A j \in DOMAIN t : t[j].host = "node"
  BY TablesTyped
<1>9. AtNode'
  BY <1>2, <1>4, <1>5, <1>6, <1>8, FitsStays DEF AtNode, Places
<1>10. HubFits'
  BY <1>2, <1>4, <1>5, FitsStays DEF HubFits, ChosenFits, Places
<1> QED BY <1>2, <1>3, <1>9, <1>10 DEF NodeFits, NodeTakesHubsChoice

LEMMA NextChoice == ASSUME SelectionAssumption, ChoiceInv, [Next]_vars PROVE ChoiceInv'
<1>1. RequestInv'
  BY NextRequest DEF ChoiceInv
<1>2. HubFits' /\ AtNode' /\ NodeFits' /\ NodeTakesHubsChoice'
  <2>1. CASE Ask \/ Submit
    <3>1. stage = "asking" /\ place' = place /\ chosen' = chosen
      BY <2>1 DEF Ask, Submit
    <3>2. place = "hub" /\ chosen["hub"] = None /\ chosen["node"] = None
      BY <3>1 DEF ChoiceInv, RequestInv, SelTyped
    <3> QED BY <3>1, <3>2 DEF HubFits, AtNode, NodeFits, NodeTakesHubsChoice
  <2>2. CASE Choose /\ place = "hub"
    <3>1. HubFits'
      BY <2>2, ChooseAtHub
    <3>2. place' = "hub" /\ chosen'["node"] = None
      BY <1>1, <2>2 DEF Choose, RequestInv, SelTyped
    <3> QED BY <3>1, <3>2 DEF AtNode, NodeFits, NodeTakesHubsChoice
  <2>3. CASE Choose /\ place = "node"
    BY <2>3, ChooseAtNode
  <2>4. CASE Refuse \/ Build \/ Start \/ UNCHANGED vars
    <3>1. UNCHANGED <<platform, asked, place, table, setup, chosen>>
      BY <2>4 DEF Refuse, Build, Start, vars
    <3> QED BY <3>1, FitsStays
            DEF ChoiceInv, HubFits, AtNode, NodeFits, NodeTakesHubsChoice, ChosenFits, Places
  <2>5. CASE Forward
    BY <2>5, ForwardChoice
  <2>6. place \in {"hub", "node"}
    BY DEF ChoiceInv, RequestInv, SelTyped, SelectionTypeOK, Places
  <2> QED BY <2>1, <2>2, <2>3, <2>4, <2>5, <2>6 DEF Next
<1> QED BY <1>1, <1>2 DEF ChoiceInv

LEMMA ChoiceIsInvariant == Spec => []ChoiceInv
<1>1. ASSUME Init PROVE ChoiceInv
  <2>1. SelTyped /\ Clients
    BY <1>1, InitTyped, InitClients, SelectionAssumption
  <2>2. stage = "asking" /\ place = "hub" /\ chosen["hub"] = None /\ chosen["node"] = None
    BY <1>1 DEF Init, Places
  <2> QED BY <2>1, <2>2 DEF ChoiceInv, RequestInv, FarmAsked, Unwritten, Written, HubFits, AtNode,
                            NodeFits, NodeTakesHubsChoice
<1>2. ChoiceInv /\ [Next]_vars => ChoiceInv'
  BY NextChoice, SelectionAssumption
<1> QED BY <1>1, <1>2, PTL DEF Spec

\* The node takes the device that the hub has blocked, except for a list of udids or
\* for the node's own UDIDS.
THEOREM NodeTakesTheHubsChoice == Spec => []NodeTakesHubsChoice
<1>1. ChoiceInv => NodeTakesHubsChoice
  BY DEF ChoiceInv
<1> QED BY <1>1, ChoiceIsInvariant, PTL

\* The device that a driver runs on fits what the client asked for, through both
\* processes' filters and whatever they have written over the client's capabilities.
THEOREM DriversFit == Spec => []DriverFitsRequest
<1>1. ASSUME ChoiceInv PROVE DriverFitsRequest
  <2>1. SUFFICES ASSUME stage = "started", setup.inDatabase, ~WantedOf("skipReport", FALSE)
                 PROVE  Fits(ChosenRow, place)
    BY DEF DriverFitsRequest
  <2>2. SelTyped
    BY <1>1 DEF ChoiceInv, RequestInv
  <2>3. ~Skips
    <3>1. \A m \in {"alwaysMatch", "firstMatch"} :
            "skipReport" \in DOMAIN asked[m] => asked[m]["skipReport"] = TRUE
      <4>1. IsMatch(asked.alwaysMatch) /\ IsMatch(asked.firstMatch)
        BY <2>2 DEF SelTyped, Wellformed
      <4>2. MatchValues["skipReport"] = {TRUE}
        BY DEF MatchValues
      <4> QED BY <4>1, <4>2 DEF IsMatch
    <3> QED BY <2>1, <3>1 DEF Skips, Merged, ++, WantedOf, Get
  <2>4. place \in {"hub", "node"} /\ chosen[place] # None
    BY <2>1, <2>2 DEF SelTyped, SelectionTypeOK, Places
  <2>5. ChosenFits(place)
    BY <1>1, <2>1, <2>3, <2>4 DEF ChoiceInv, HubFits, NodeFits
  <2>6. PICK i \in DOMAIN table[place] :
          table[place][i].udid = chosen[place] /\ Fits(table[place][i], place)
    BY <2>5 DEF ChosenFits
  <2>7. Min(PlacesOf(place, {chosen[place]})) = i
    BY <2>2, <2>4, <2>6, RowOf DEF SelTyped, Places
  <2> QED BY <2>6, <2>7 DEF ChosenRow
<1> QED BY <1>1, ChoiceIsInvariant, PTL

----------------------------------------------------------------------------
(* What is refused, and what is free. *)

\* A free row whose device suits the filters is among the devices.
LEMMA FreeIsFound ==
  ASSUME NEW f, NEW i \in DOMAIN table[place], Suits(table[place][i], f),
         ~table[place][i].busy, ~table[place][i].userBlocked
  PROVE  i \in Devices(f)
BY DEF Devices

LEMMA NodeRefuses ==
  ASSUME SelectionAssumption, ChoiceInv, place = "node", Refuse PROVE NodeRefusesForReason'
<1> DEFINE f == Filters(caps)
<1>1. /\ UNCHANGED <<platform, asked, place, table, setup, chosen>> /\ stage = "asked"
      /\ WrongApp(f) \/ AskedUnknown(f) \/ Devices(f) = {}
      /\ SelTyped /\ RequestInv
  BY DEF Refuse, ChoiceInv, RequestInv
<1>2. SUFFICES ASSUME setup.tagged, setup.inDatabase, ChoiceIsFree,
                      Wanted("udids") # {} \/ setup.udids["node"] = {}
               PROVE  FALSE
  <2>1. (ChoiceIsFree' <=> ChoiceIsFree) /\ Wanted("udids")' = Wanted("udids")
    BY <1>1, FitsStays DEF ChoiceIsFree, Places
  <2> QED BY <1>1, <2>1 DEF NodeRefusesForReason
<1>3. PICK j \in DOMAIN table["hub"] : LET h == table["hub"][j]
                                       IN h.udid = chosen["hub"] /\ h.host = "node" /\ Fits(h, "hub")
  BY DEF ChoiceInv, AtNode
<1>4. PICK i \in DOMAIN table["node"] :
        /\ table["node"][i].udid = chosen["hub"]
        /\ ~table["node"][i].busy /\ ~table["node"][i].userBlocked
  BY <1>2 DEF ChoiceIsFree, Range
<1>5. table["hub"][j] \in Row /\ table["node"][i] \in Row /\ table["node"][i].host = "node"
  BY <1>1 DEF SelTyped, SelectionTypeOK, Places, ChoiceInv, AtNode
<1>6. ~WrongApp(f)
  BY DEF WrongApp, ChoiceInv, AtNode
<1>7. ~AskedUnknown(f)
  <2>1. chosen["hub"] \in Udids
    BY <1>3, <1>5 DEF Row
  <2>2. f.udid = IF Wanted("udids") # {} THEN Wanted("udids") ELSE {chosen["hub"]}
    BY <1>1, <1>2, <2>1, UdidsAtNode DEF Filters
  <2>3. chosen["hub"] \in f.udid
    BY <1>3, <2>2 DEF Fits, Sought
  <2> HIDE DEF f
  <2>4. i \in PlacesOf("node", f.udid)
    BY <1>4, <2>3 DEF PlacesOf
  <2> QED BY <2>4 DEF AskedUnknown
<1>8. Suits(table["node"][i], f)
  BY <1>1, <1>2, <1>3, <1>4, <1>5, ChoiceSuitsNode
<1>9. i \in Devices(f)
  BY <1>4, <1>8, FreeIsFound
<1> QED BY <1>1, <1>6, <1>7, <1>9

LEMMA HubRefuses ==
  ASSUME SelectionAssumption, ChoiceInv, place = "hub", Refuse PROVE HubTakesFree'
<1> DEFINE f == Filters(caps)
<1>1. /\ UNCHANGED <<platform, asked, place, table, setup>> /\ stage = "asked" /\ stage' = "refused"
      /\ WrongApp(f) \/ AskedUnknown(f) \/ Devices(f) = {}
      /\ SelTyped /\ RequestInv
  BY DEF Refuse, ChoiceInv, RequestInv
<1>2. SUFFICES ASSUME setup.iosDeviceType = "both", NEW i \in DOMAIN table["hub"],
                      ~table["hub"][i].busy, ~table["hub"][i].userBlocked,
                      Fits(table["hub"][i], "hub")
               PROVE  FALSE
  BY <1>1, FitsStays DEF HubTakesFree, FreeAtHub, Range, Places
<1>3. table["hub"][i] \in Row
  BY <1>1 DEF SelTyped, SelectionTypeOK, Places
<1>4. Suits(table["hub"][i], f)
  BY <1>1, <1>2, <1>3, SuitsAtHub
<1>5. ~WrongApp(f)
  BY <1>2 DEF WrongApp
<1> HIDE DEF f
<1>6. ~AskedUnknown(f)
  <2>1. f.udid # {} => i \in PlacesOf("hub", f.udid)
    BY <1>4 DEF PlacesOf, Suits
  <2> QED BY <2>1 DEF AskedUnknown
<1>7. i \in Devices(f)
  BY <1>2, <1>4, FreeIsFound
<1> QED BY <1>1, <1>5, <1>6, <1>7

LEMMA HubChooses ==
  ASSUME SelectionAssumption, ChoiceInv, place = "hub", Choose PROVE HubTakesFree'
<1> DEFINE f == Filters(caps)
           i == Min(Devices(f))
<1>1. /\ UNCHANGED <<platform, asked, place, table, setup>> /\ stage = "asked" /\ stage' = "chosen"
      /\ Devices(f) # {} /\ SelTyped /\ RequestInv
      /\ chosen' = [chosen EXCEPT !["hub"] = table["hub"][i].udid]
  BY DEF Choose, ChoiceInv, RequestInv
<1>2. i \in Devices(f) /\ i \in DOMAIN table["hub"]
  BY <1>1, FirstDevice DEF SelTyped
<1>3. ASSUME Sought("hub") # {} => ~table["hub"][Min(PlacesOf("hub", Sought("hub")))].userBlocked
      PROVE  ~table["hub"][i].busy /\ ~table["hub"][i].userBlocked
  <2>1. f.udid = Sought("hub")
    BY <1>1, UdidsAtHub DEF Filters
  <2> HIDE DEF f
  <2>2. FlagsCount(f)
    BY <1>3, <2>1 DEF FlagsCount
  <2> QED BY <1>2, <2>2 DEF Devices
<1> HIDE DEF f, i
<1>4. chosen'["hub"] = table["hub"][i].udid
  BY <1>1 DEF SelTyped, SelectionTypeOK, Places
<1>5. Min(PlacesOf("hub", {chosen'["hub"]})) = i
  BY <1>1, <1>2, <1>4, RowOf DEF SelTyped, Places
<1>6. ChosenRow' = table["hub"][i]
  BY <1>1, <1>5 DEF ChosenRow, PlacesOf
<1>7. /\ Min(PlacesOf("hub", Sought("hub")))' = Min(PlacesOf("hub", Sought("hub")))
      /\ Sought("hub")' = Sought("hub")
  BY <1>1, PlaceStays
<1> QED BY <1>1, <1>2, <1>3, <1>6, <1>7 DEF HubTakesFree, FreeAtHub, Range

LEMMA NextAnswer ==
  ASSUME SelectionAssumption, ChoiceInv, NodeRefusesForReason, HubTakesFree, [Next]_vars
  PROVE  NodeRefusesForReason' /\ HubTakesFree'
<1>1. place \in {"hub", "node"}
  BY DEF ChoiceInv, RequestInv, SelTyped, SelectionTypeOK, Places
<1>2. CASE Ask \/ Submit \/ Build \/ Start \/ Forward
  <2>1. stage' \notin {"refused", "chosen"}
    BY <1>2 DEF Ask, Submit, Build, Start, Forward
  <2> QED BY <2>1 DEF NodeRefusesForReason, HubTakesFree
<1>3. CASE Choose
  <2>1. stage' = "chosen" /\ place' = place
    BY <1>3 DEF Choose
  <2>2. NodeRefusesForReason'
    BY <2>1 DEF NodeRefusesForReason
  <2>3. place = "node" => HubTakesFree'
    BY <2>1 DEF HubTakesFree
  <2> QED BY <1>1, <1>3, <2>2, <2>3, HubChooses
<1>4. CASE Refuse
  <2>1. stage' = "refused" /\ place' = place
    BY <1>4 DEF Refuse
  <2>2. place = "hub" => NodeRefusesForReason'
    BY <2>1 DEF NodeRefusesForReason
  <2>3. place = "node" => HubTakesFree'
    BY <2>1 DEF HubTakesFree
  <2> QED BY <1>1, <1>4, <2>2, <2>3, NodeRefuses, HubRefuses
<1>5. CASE UNCHANGED vars
  <2>1. NodeRefusesForReason'
    BY <1>5, FitsStays DEF vars, NodeRefusesForReason, ChoiceIsFree, Places
  <2>2. /\ Sought("hub")' = Sought("hub")
        /\ Min(PlacesOf("hub", Sought("hub")))' = Min(PlacesOf("hub", Sought("hub")))
    BY <1>5, PlaceStays DEF vars
  <2>4. ChosenRow' = ChosenRow
    BY <1>5 DEF vars, ChosenRow, PlacesOf
  <2>3. HubTakesFree'
    BY <1>5, <2>2, <2>4, FitsStays DEF vars, HubTakesFree, FreeAtHub, Places
  <2> QED BY <2>1, <2>3
<1> QED BY <1>2, <1>3, <1>4, <1>5 DEF Next

LEMMA AnswersAreInvariant == Spec => [](NodeRefusesForReason /\ HubTakesFree)
<1>1. Init => NodeRefusesForReason /\ HubTakesFree
  BY DEF Init, NodeRefusesForReason, HubTakesFree
<1>2. ChoiceInv /\ NodeRefusesForReason /\ HubTakesFree /\ [Next]_vars =>
        (NodeRefusesForReason /\ HubTakesFree)'
  BY NextAnswer, SelectionAssumption
<1> QED BY <1>1, <1>2, ChoiceIsInvariant, PTL DEF Spec

\* A node that refuses what the hub sent it has a reason which the hub could not know:
\* its device is not free or not tagged there, or the app was not in the database, or
\* UDIDS names other devices.  It never refuses because of what the hub has rewritten.
THEOREM NodesRefuseForReason == Spec => []NodeRefusesForReason
BY AnswersAreInvariant, PTL

\* The hub refuses no request for which it has a free device, and blocks a free one
\* unless the user has blocked the first device of those asked for.
THEOREM HubTakesFreeDevices == Spec => []HubTakesFree
BY AnswersAreInvariant, PTL
====
