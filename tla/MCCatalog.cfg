SPECIFICATION Spec
CONSTANTS
    Events = {e1}
    NoEvent = NoEvent
    Clients = {c1, c2}
    LIMIT = 1
    MaxActs = 3
    MAX_EXPRESSION_LEN = 3
    MAX_TEMPLATE_KEYS = 2
    MAX_FLOAT = 8
    Routes = {r1}
    NoRoute = NoRoute
    NoJob = NoJob
    Urls <- MCUrls
    Pipelines <- MCPipelines
    Filters <- MCFilters
    Updates <- MCUpdates
    Initial <- MCInitial
    NoUrl = NoUrl
    Requests <- MCRequests
    INSECURE = FALSE
    MAX_RETRIES = 2
SYMMETRY Symmetry
INVARIANTS CatalogTypeOK DiscardStamped PickedRowsHold CopiesAccounted StoredSettingsSound OneVersionPerMessage HistoryAnchored
PROPERTIES OtherFieldsKept
CHECK_DEADLOCK FALSE
