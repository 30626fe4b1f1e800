\* Every request of two capabilities, or of one where the hub, the node or both
\* have UDIDS, for every table of two rows.
SPECIFICATION Spec
CONSTANTS
  Rows <- MCRows
  MaxAsked = 2
  MaxRows = 2
  Flags <- MCFlags
  UdidsVar <- MCUdidsVar
  TagLists <- MCTagLists
CHECK_DEADLOCK FALSE
INVARIANTS
  SelectionTypeOK
  DriverFitsRequest
  DriverNamesDevice
  NodeTakesHubsChoice
  NodeRefusesForReason
  PortsAreLocal
  HubTakesFree
