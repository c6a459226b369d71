\* A connection to the manager.  It stops, which is what CallsReturn shows, so
\* TLC does not look for deadlocks.
SPECIFICATION FairSpec
CONSTANTS
  Texts <- MCTexts
  Requests <- MCRequests
  Replies <- ManagerReplies
  Numbers <- MCNumbers
  Stores <- MCStores
  Clouds <- MCClouds
  Templates <- MCTemplates
  Orders <- MCOrders
  None = none
CHECK_DEADLOCK FALSE
PROPERTIES CallsReturn
