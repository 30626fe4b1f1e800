------------------------------- MODULE Selection -------------------------------
(***************************************************************************)
(* What becomes of the capabilities of a session request: the filters read *)
(* from them, the device these select, and the capabilities written back   *)
(* for the driver - and all of it once more when the hub forwards the      *)
(* request to the device's node, whose plugin knows of the hub's choice    *)
(* only what the capabilities say.                                         *)
(*                                                                         *)
(* alwaysMatch and firstMatch[0] are functions from the keys that are      *)
(* present (prefixes left out).  The farm's own capabilities are records   *)
(* in which absent keys have the value of Absent: the code tells them      *)
(* apart by truth only.  A port is named by the process that chose it.     *)
(***************************************************************************)
EXTENDS Naturals, Sequences, FiniteSets, FiniteSetsExt, Functions

CONSTANTS
  Rows,     \* [Udids -> [platform, type, name, sdk, tags]]: what a row says
  MaxAsked, \* bound: capabilities in a request; UDIDS counts as one
  MaxRows,  \* bound: rows in a table
  Flags,    \* bound: what a row's flags may be
  UdidsVar, \* bound: what the variable UDIDS of a process may list, {} when it is unset
  TagLists  \* bound: the lists of tags a client may ask for

Udids == DOMAIN Rows
Places == {"hub", "node"}
None == "none"

\* The address in the URL that the rows of a process have as their host.
Ip == [hub |-> "hub's IP", node |-> "node's IP"]

ASSUME SelectionAssumption ==
  /\ \A u \in Udids : /\ Rows[u].platform \in {"android", "ios"}
                      /\ Rows[u].type \in {"real", "simulator"}
                      /\ Rows[u].sdk \in Nat \ {0}
  /\ IsFiniteSet(Udids) /\ None \notin Udids
  /\ MaxAsked \in Nat /\ MaxRows \in Nat
  /\ Flags \subseteq [busy : BOOLEAN, userBlocked : BOOLEAN]
  /\ UdidsVar \subseteq SUBSET Udids
  /\ \A tags \in TagLists : tags \in Seq(STRING) /\ tags # <<>>

VARIABLES
  platform, \* the platform the client asked for
  asked,    \* the client's capabilities (a history variable once they are sent)
  caps,     \* the capabilities as they are now
  asks,     \* how many the client has asked for
  place,    \* the process that handles the request
  stage,    \* where the request stands there
  table,    \* the rows of each process, in their order
  setup,    \* settings and databases of the processes, see Submit and Forward
  chosen    \* the device each process chose

vars == <<platform, asked, caps, asks, place, stage, table, setup, chosen>>

Absent == [udids |-> {}, iPadOnly |-> FALSE, iPhoneOnly |-> FALSE, minSDK |-> 0, maxSDK |-> 0,
           filterByHost |-> None, tags |-> <<>>, liveVideo |-> "default"]

Row == [udid : Udids, host : Places, busy : BOOLEAN, userBlocked : BOOLEAN]

SelectionTypeOK ==
  /\ platform \in {"android", "ios"}
  /\ DOMAIN caps = {"alwaysMatch", "firstMatch", "own", "options"}
  /\ DOMAIN caps.own = DOMAIN Absent /\ DOMAIN caps.options = DOMAIN Absent
  /\ asks \in 0 .. MaxAsked
  /\ place \in Places
  /\ stage \in {"asking", "asked", "chosen", "built", "started", "refused"}
  /\ table \in [Places -> Seq(Row)]
  /\ chosen \in [Places -> Udids \cup {None}]

Init ==
  /\ platform \in {"android", "ios"}
  /\ caps = [alwaysMatch |-> <<>>, firstMatch |-> <<>>, own |-> Absent, options |-> Absent]
  /\ asked = caps
  /\ asks = 0
  /\ place = "hub" /\ stage = "asking"
  /\ table = [p \in Places |-> <<>>]
  /\ setup = [iosDeviceType |-> "both", inDatabase |-> TRUE, tagged |-> TRUE,
              udids |-> [p \in Places |-> {}]]
  /\ chosen = [p \in Places |-> None]

----------------------------------------------------------------------------
(* The client's request. *)

\* The fields of both; those of f win.
f ++ g == [k \in DOMAIN f \cup DOMAIN g |-> IF k \in DOMAIN f THEN f[k] ELSE g[k]]

\* One of the farm's capabilities, by itself or within df:options.
AskFarm(key, values) ==
  \E part \in {"own", "options"}, v \in values :
    /\ caps[part][key] = Absent[key]
    /\ caps' = [caps EXCEPT ![part] = [@ EXCEPT ![key] = v]]

\* Any other capability; Appium refuses a key that is in both places.
AskAppium(key, values) ==
  \E match \in {"alwaysMatch", "firstMatch"}, v \in values :
    /\ key \notin DOMAIN caps.alwaysMatch \cup DOMAIN caps.firstMatch
    /\ caps' = [caps EXCEPT ![match] = [k \in {key} |-> v] ++ @]

Sdks == {Rows[u].sdk : u \in Udids}
OfPlatform == {u \in Udids : Rows[u].platform = platform}

Ask ==
  /\ stage = "asking" /\ asks < MaxAsked
  /\ asks' = asks + 1
  /\ \/ AskFarm("udids", SUBSET OfPlatform \ {{}})
     \/ AskFarm("iPadOnly", {TRUE})
     \/ AskFarm("iPhoneOnly", {TRUE})
     \/ AskFarm("minSDK", Sdks)
     \/ AskFarm("maxSDK", Sdks)
     \/ AskFarm("filterByHost", Places \cup {Ip["node"]})
     \/ AskFarm("tags", TagLists)
     \/ AskFarm("liveVideo", {"no"})
     \/ AskAppium("udid", OfPlatform)
     \/ AskAppium("platformVersion", Sdks)
     \/ AskAppium("app", {"simulatorApp", "realApp"})
     \/ AskAppium("mjpegServerPort", {"client"})
     \/ AskAppium("skipReport", {TRUE})
  /\ UNCHANGED <<platform, asked, place, stage, table, setup, chosen>>

FlagsOf(r) == [busy |-> r.busy, userBlocked |-> r.userBlocked]

\* Some of the rows, in any order; a process lists a device once.
Tables(rows) ==
  {t \in UNION {[1 .. n -> {r \in rows : FlagsOf(r) \in Flags}] : n \in 0 .. MaxRows} :
     \A i, j \in DOMAIN t : t[i].udid = t[j].udid => i = j}

\* The request reaches the hub, which may have the variable UDIDS.
Submit ==
  /\ stage = "asking" /\ stage' = "asked"
  /\ asked' = caps
  /\ \E t \in Tables({r \in Row : r.udid \in OfPlatform}),
        i \in {"both", "real", "simulated"}, db \in BOOLEAN, us \in UdidsVar :
       /\ i = "both" \/ (platform = "ios" /\ "app" \in DOMAIN caps.alwaysMatch)
       /\ db \/ "app" \in DOMAIN caps.firstMatch
       /\ us = {} \/ asks < MaxAsked
       /\ table' = [table EXCEPT !["hub"] = t]
       /\ setup' = [setup EXCEPT !.iosDeviceType = i, !.inDatabase = db,
                                 !.udids = [@ EXCEPT !["hub"] = us]]
  /\ UNCHANGED <<platform, caps, asks, place, chosen>>

----------------------------------------------------------------------------
(* allocateDeviceForSession: filters and selection. *)

\* Object.assign: alwaysMatch wins.
Merged(c) == c.alwaysMatch ++ c.firstMatch

Get(f, key, default) == IF key \in DOMAIN f THEN f[key] ELSE default

\* A mutant: df:options wins.
OptionsWin(c) ==
  [k \in DOMAIN Absent |->
     IF k = "tags" THEN c.options.tags ++ c.own.tags
     ELSE IF c.options[k] # Absent[k] THEN c.options[k] ELSE c.own[k]]

\* _.merge: what is asked for by itself wins over df:options; in two lists of tags
\* it does so place by place.
DeviceFarmCapabilities(c) ==
  [k \in DOMAIN Absent |->
     IF k = "tags" THEN c.own.tags ++ c.options.tags
     ELSE IF c.own[k] # Absent[k] THEN c.own[k] ELSE c.options[k]]

TypeFromApp(app) ==
  IF app = None THEN None ELSE IF app = "simulatorApp" THEN "simulator" ELSE "real"

\* The device type asked for: by the app, and on iOS only.
TypeAsked(c) == IF platform = "ios" THEN TypeFromApp(Get(Merged(c), "app", None)) ELSE None

\* A mutant: the udid is looked up where the client puts it.
UdidsAskedAlways(c) ==
  LET df == DeviceFarmCapabilities(c)
  IN IF df.udids # {} THEN df.udids
     ELSE IF setup.udids[place] # {} THEN setup.udids[place]
     ELSE {u \in Udids : Get(c.alwaysMatch, "udid", None) = u}

\* A mutant: the variable UDIDS goes before df:udids.
UdidsVarFirst(c) ==
  LET df == DeviceFarmCapabilities(c)
  IN IF setup.udids[place] # {} THEN setup.udids[place]
     ELSE IF df.udids # {} THEN df.udids
     ELSE {u \in Udids : Get(Merged(c), "udid", None) = u}

\* df:udids, then the variable UDIDS of this process, then appium:udid.
UdidsAsked(c) ==
  LET df == DeviceFarmCapabilities(c)
  IN IF df.udids # {} THEN df.udids
     ELSE IF setup.udids[place] # {} THEN setup.udids[place]
     ELSE {u \in Udids : Get(Merged(c), "udid", None) = u}

Filters(c) ==
  LET df == DeviceFarmCapabilities(c)
  IN [platformVersion |-> Get(Merged(c), "platformVersion", 0),
      name |-> IF df.iPadOnly THEN "iPad" ELSE IF df.iPhoneOnly THEN "iPhone" ELSE None,
      deviceType |-> TypeAsked(c),
      udid |-> UdidsAsked(c),
      filterByHost |-> df.filterByHost,
      minSDK |-> df.minSDK,
      maxSDK |-> df.maxSDK,
      tags |-> df.tags]

\* The farm's setting contradicts the app.
WrongApp(f) ==
  \/ f.deviceType = "simulator" /\ setup.iosDeviceType = "real"
  \/ f.deviceType = "real" /\ setup.iosDeviceType = "simulated"

\* The tags of a row are those in its process's database.
TagsOf(r) == IF place = "node" /\ ~setup.tagged THEN {} ELSE Rows[r.udid].tags

\* The filters on what does not change in a row.  The host is compared with the
\* whole URL.
Suits(r, f) ==
  LET is == Rows[r.udid]
  IN /\ is.platform = platform
     /\ f.platformVersion # 0 => is.sdk = f.platformVersion
     /\ f.name # None => is.name = f.name
     /\ f.deviceType # None => is.type = f.deviceType
     /\ f.udid # {} => r.udid \in f.udid
     /\ f.filterByHost # None => r.host = f.filterByHost
     /\ f.minSDK # 0 => is.sdk >= f.minSDK
     /\ f.maxSDK # 0 => is.sdk <= f.maxSDK
     /\ f.tags # <<>> => TagsOf(r) \cap Range(f.tags) # {}

\* A mutant: the flags do not count once udids are asked for.
FlagsIgnored(f) == f.udid = {}

\* Where process p lists udids of us.
PlacesOf(p, us) == {i \in DOMAIN table[p] : table[p][i].udid \in us}

\* The first of the rows with a udid that is asked for says whether the flags
\* count.
FlagsCount(f) ==
  f.udid = {} \/ ~table[place][Min(PlacesOf(place, f.udid))].userBlocked

\* getDevices: where the rows are that it returns.
Devices(f) ==
  {i \in DOMAIN table[place] :
     LET r == table[place][i]
     IN Suits(r, f) /\ (FlagsCount(f) => ~r.busy /\ ~r.userBlocked)}

\* No row has a udid that is asked for: askedDevice[0] is undefined.
AskedUnknown(f) == f.udid # {} /\ PlacesOf(place, f.udid) = {}

\* A mutant: the name in the place of the udid.
ChooseName ==
  /\ stage = "asked" /\ stage' = "chosen"
  /\ LET f == Filters(caps)
     IN /\ ~WrongApp(f) /\ ~AskedUnknown(f) /\ Devices(f) # {}
        /\ chosen' = [chosen EXCEPT ![place] = Rows[table[place][Min(Devices(f))].udid].name]
  /\ UNCHANGED <<platform, asked, caps, asks, place, table, setup>>

\* The first device is chosen, and blocked.  getDeviceFarmCapabilities has
\* merged the farm's capabilities into df:options.
Choose ==
  /\ stage = "asked" /\ stage' = "chosen"
  /\ LET f == Filters(caps)
     IN /\ ~WrongApp(f) /\ ~AskedUnknown(f) /\ Devices(f) # {}
        /\ chosen' = [chosen EXCEPT ![place] = table[place][Min(Devices(f))].udid]
  /\ caps' = IF caps.options = Absent THEN caps
             ELSE [caps EXCEPT !.options = DeviceFarmCapabilities(caps)]
  /\ UNCHANGED <<platform, asked, asks, place, table, setup>>

\* An error, or no device until the wait ends.
Refuse ==
  /\ stage = "asked" /\ stage' = "refused"
  /\ LET f == Filters(caps) IN WrongApp(f) \/ AskedUnknown(f) \/ Devices(f) = {}
  /\ UNCHANGED <<platform, asked, caps, asks, place, table, setup, chosen>>

----------------------------------------------------------------------------
(* updateCapabilityForDevice, androidCapabilities, iOSCapabilities. *)

LiveVideo == DeviceFarmCapabilities(caps).liveVideo # "no"

Without(f, keys) == [k \in DOMAIN f \ keys |-> f[k]]

Only(condition, f) == IF condition THEN f ELSE <<>>

\* A mutant: the record's path without its ending.
AppPathBare ==
  LET m == Merged(caps)
  IN IF "skipReport" \in DOMAIN m \/ "app" \notin DOMAIN m THEN <<>>
     ELSE [app |-> "record"]

\* findAppPath: an uploaded app becomes the URL of its record, whose ending is
\* unknown when there is no record; no app for a request without report.
AppPath ==
  LET m == Merged(caps)
  IN IF "skipReport" \in DOMAIN m THEN <<>>
     ELSE IF "app" \notin DOMAIN m THEN <<>>
     ELSE [app |-> IF setup.inDatabase THEN m.app ELSE "undefined"]

\* What either platform writes into firstMatch[0].
Common(u) == AppPath ++ [udid |-> u]

PortAsked == "mjpegServerPort" \in DOMAIN Merged(caps)

AndroidFirst(u) ==
  Common(u) ++ [systemPort |-> place, chromeDriverPort |-> place]
            ++ Only(~PortAsked /\ LiveVideo, [mjpegServerPort |-> place])
            ++ Without(caps.firstMatch, {"app"})

\* A mutant: the udid stays.
AndroidAlwaysUdid ==
  Without(caps.alwaysMatch, {"systemPort", "chromeDriverPort", "app"})

AndroidAlways ==
  Without(caps.alwaysMatch, {"udid", "systemPort", "chromeDriverPort", "app"}
                              \cup (IF LiveVideo THEN {} ELSE {"mjpegServerPort"}))

\* A mutant: what is there is kept.
IosFirstKeeps(u) == Without(caps.firstMatch, {"app"}) ++
  Common(u) ++ [deviceName |-> Rows[u].name, platformVersion |-> Rows[u].sdk,
                wdaLocalPort |-> place]
            ++ Only(LiveVideo, [mjpegServerPort |-> place])

IosFirst(u) ==
  Common(u) ++ [deviceName |-> Rows[u].name, platformVersion |-> Rows[u].sdk,
                wdaLocalPort |-> place]
            ++ Only(LiveVideo, [mjpegServerPort |-> place])
            ++ Without(caps.firstMatch, {"app", "mjpegServerPort"})

IosAlways ==
  Without(caps.alwaysMatch, {"platformVersion", "wdaLocalPort", "mjpegServerPort", "udid",
                             "deviceName", "app"})

Build ==
  /\ stage = "chosen" /\ stage' = "built"
  /\ caps' = IF platform = "android"
             THEN [caps EXCEPT !.firstMatch = AndroidFirst(chosen[place]),
                               !.alwaysMatch = AndroidAlways]
             ELSE [caps EXCEPT !.firstMatch = IosFirst(chosen[place]),
                               !.alwaysMatch = IosAlways]
  /\ UNCHANGED <<platform, asked, asks, place, table, setup, chosen>>

----------------------------------------------------------------------------

ChosenRow == table[place][Min(PlacesOf(place, {chosen[place]}))]

\* The device is the process's own: next() starts the driver.
Start ==
  /\ stage = "built" /\ stage' = "started"
  /\ ChosenRow.host = place
  /\ UNCHANGED <<platform, asked, caps, asks, place, table, setup, chosen>>

\* forwardSessionRequest: the node has rows of its own, which need not be those
\* that the hub lists for it, its own database of tags, and maybe the variable
\* UDIDS.
Forward ==
  /\ stage = "built" /\ stage' = "asked"
  /\ place = "hub" /\ ChosenRow.host = "node"
  /\ place' = "node"
  /\ \E t \in Tables({r \in Row : r.host = "node" /\ r.udid \in OfPlatform}),
        tagged \in BOOLEAN, us \in UdidsVar :
       /\ tagged \/ DeviceFarmCapabilities(caps).tags # <<>>
       /\ us = {} \/ asks < MaxAsked
       /\ table' = [table EXCEPT !["node"] = t]
       /\ setup' = [setup EXCEPT !.iosDeviceType = "both", !.tagged = tagged,
                                 !.udids = [@ EXCEPT !["node"] = us]]
  /\ UNCHANGED <<platform, asked, caps, asks, chosen>>

Next == Ask \/ Submit \/ Choose \/ Refuse \/ Build \/ Start \/ Forward

Spec == Init /\ [][Next]_vars

----------------------------------------------------------------------------
(* Properties. *)

\* What the client asked for: capabilities by themselves or within df:options.
Wanted(key) ==
  IF key = "tags" THEN asked.own.tags ++ asked.options.tags
  ELSE IF asked.own[key] # Absent[key] THEN asked.own[key] ELSE asked.options[key]

\* The udids that count when the driver is to start on p: the client's list; or
\* the variable UDIDS, of p or else of the hub; or the client's appium:udid.
Sought(p) ==
  IF Wanted("udids") # {} THEN Wanted("udids")
  ELSE IF setup.udids[p] # {} THEN setup.udids[p]
  ELSE IF setup.udids["hub"] # {} THEN setup.udids["hub"]
  ELSE {u \in Udids : \E c \in {asked.alwaysMatch, asked.firstMatch} : Get(c, "udid", None) = u}

WantedOf(key, default) ==
  IF key \in DOMAIN asked.alwaysMatch THEN asked.alwaysMatch[key]
  ELSE Get(asked.firstMatch, key, default)

\* All but the udid.
FitsRest(r) ==
  LET is == Rows[r.udid]
  IN /\ is.platform = platform
     /\ Wanted("iPadOnly") => is.name = "iPad"
     /\ Wanted("iPhoneOnly") /\ ~Wanted("iPadOnly") => is.name = "iPhone"
     /\ WantedOf("platformVersion", is.sdk) = is.sdk
     /\ is.sdk >= Wanted("minSDK")
     /\ Wanted("maxSDK") = 0 \/ is.sdk <= Wanted("maxSDK")
     /\ Wanted("filterByHost") \in {None, r.host}
     /\ Wanted("tags") = <<>> \/ is.tags \cap Range(Wanted("tags")) # {}
     /\ platform = "ios" /\ WantedOf("app", None) = "simulatorApp" => is.type = "simulator"
     /\ platform = "ios" /\ WantedOf("app", None) = "realApp" => is.type = "real"

Fits(r, p) == (Sought(p) = {} \/ r.udid \in Sought(p)) /\ FitsRest(r)

\* The driver that is started, here or on the node, runs on a device that fits
\* what the client asked for, though the two processes between them have
\* rewritten it; UDIDS stands in the place of the client's appium:udid, but not
\* of its list of udids.  Not so when the hub has replaced the app by a URL
\* without an ending or by none.
DriverFitsRequest ==
  stage = "started" /\ setup.inDatabase /\ ~WantedOf("skipReport", FALSE) =>
    Fits(ChosenRow, place)

\* What the plugin hands to Appium has no capability in both alwaysMatch and
\* firstMatch, which Appium would refuse, and names the device that the same
\* process has blocked.
DriverNamesDevice ==
  stage = "built" =>
    /\ DOMAIN caps.alwaysMatch \cap DOMAIN caps.firstMatch = {}
    /\ caps.firstMatch.udid = chosen[place]

\* The node takes the device that the hub has blocked, and not another one -
\* unless the client has given a list of several udids, or it has given none and
\* the node has UDIDS in its environment: these go before the hub's choice.
NodeTakesHubsChoice ==
  chosen["node"] # None /\ (\/ Cardinality(Wanted("udids")) = 1
                            \/ Wanted("udids") = {} /\ setup.udids["node"] = {}) =>
    chosen["node"] = chosen["hub"]

\* The node lists the device that the hub chose, as free.
ChoiceIsFree ==
  \E r \in Range(table["node"]) : r.udid = chosen["hub"] /\ ~r.busy /\ ~r.userBlocked

\* When the node refuses what the hub sent it, the device that the hub chose is
\* not listed there or not free, or not tagged in the node's database, or the app
\* is unknown, or the node has UDIDS in its environment: the filters, applied to
\* capabilities that the hub has rewritten, still accept the hub's choice.
NodeRefusesForReason ==
  stage = "refused" /\ place = "node" =>
    \/ ~ChoiceIsFree \/ ~setup.tagged \/ ~setup.inDatabase
    \/ Wanted("udids") = {} /\ setup.udids["node"] # {}

\* The ports in the capabilities were found free by the process that starts the
\* driver.  Not so for the mjpegServerPort on Android, which is kept when the
\* hub or the client has given one.
PortsAreLocal ==
  stage = "started" =>
    \A c \in {caps.alwaysMatch, caps.firstMatch} :
      \A k \in DOMAIN c \cap {"systemPort", "chromeDriverPort", "wdaLocalPort", "mjpegServerPort"} :
        c[k] = place \/ (k = "mjpegServerPort" /\ platform = "android")

FreeAtHub == {r \in Range(table["hub"]) : ~r.busy /\ ~r.userBlocked}

\* The hub takes a free device and refuses no request for which there is one -
\* except for an app that contradicts its setting, and except when the user has
\* blocked the first device that has a udid which counts: then a device of these
\* is taken even when it is busy.  A host counts when it is given as its URL: a
\* request that names a node by its IP is refused.
HubTakesFree ==
  LET first == table["hub"][Min(PlacesOf("hub", Sought("hub")))]
  IN /\ stage = "refused" /\ place = "hub" /\ setup.iosDeviceType = "both" =>
          \A r \in FreeAtHub : ~Fits(r, "hub")
     /\ stage = "chosen" /\ place = "hub" /\ (Sought("hub") # {} => ~first.userBlocked) =>
          ChosenRow \in FreeAtHub
====
