\* One job that posts up to three times, with two handlers under way, a log of two
\* entries, every document of up to five lexemes under a limit of two elements and
\* two levels; the server and a backup on a database of either release, one killed.
SPECIFICATION DeliverySpec
CONSTANTS
    Server = server
    Backups = {backup}
    OrgIds = {0, 1}
    Endpoints = {"npm", "git"}
    OldRows = {"git"}
    MaxCrashes = 1
    Capacity = 2
    Entries = {202, 400, 413, 500}
    NoEntry = none
    maxIngestElements = 2
    maxIngestDepth = 2
    Jobs = {j1}
    JobRow <- RowOf
    Bodies <- Documents
    Requests = {r1, r2}
    MaxTries = 3
INVARIANTS OldRowsSurvive UpgradedInPlace AckMeansStored DuplicatesExplained ShapeExact LogIsRecent
PROPERTIES ServesAgain AtLeastOnceDelivery
CHECK_DEADLOCK FALSE
