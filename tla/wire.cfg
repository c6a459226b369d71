\* A connection to a controller, or to a manager with instances to list.
SPECIFICATION FairSpec
CONSTANTS
  Texts <- MCTexts
  Requests <- MCRequests
  Replies <- MCReplies
  Numbers <- MCNumbers
  Stores <- MCStores
  Clouds <- MCClouds
  Templates <- MCTemplates
  Orders <- MCOrders
  None = none
INVARIANTS TypeOK NothingLeft NeitherWaits RecordsArrive
PROPERTIES ImplementsRpc CallsReturn
