------------------------------ MODULE Catalog ------------------------------
(***************************************************************************)
(* An endpoint, its routes and what becomes of its events: the endpoint    *)
(* and route API (api/endpoints.py), the transform worker that applies a   *)
(* route's settings to an event, and the delivery attempts that are made   *)
(* with them, over the tables of Events.  The routes' settings are read by *)
(* the transform worker and travel in its messages, while the API goes on  *)
(* changing and deleting the rows.  Workers do not fail here, see Relay.   *)
(***************************************************************************)
EXTENDS Events, Transform

CONSTANTS
    Routes,      \* the routes the endpoint may have
    NoRoute,     \* there is no such row
    NoJob,       \* the transform worker has no event in hand
    Urls, Pipelines, Filters,  \* what a client may send as a route's settings
    Updates,     \* bodies of PUT /routes/{id}: some columns, each with a value
    NoUrl,       \* an explicit null for a column that is not nullable
    Initial,     \* settings a route may have from the start
    Requests,    \* bodies and headers of events
    INSECURE,    \* settings.allow_insecure_delivery_urls
    MAX_RETRIES  \* max_retries, of every route

ASSUME RetriesAssumption == MAX_RETRIES \in Nat /\ INSECURE \in BOOLEAN

VARIABLES
    endpoint,  \* "active", "inactive", or "deleted"
    route,     \* the committed routes
    versions,  \* history: the settings each route has had
    request,   \* body and headers of each event
    taken,     \* messages of raw-events the transform worker has taken
    job,       \* its event, with the settings of the routes it has read
    flights    \* deliveries under way, with the message they were made from

catalog == <<endpoint, route, versions, request>>
handling == <<taken, job, flights>>
catalogVars == <<eventVars, catalog, handling>>

Settings == [url : Urls, pipeline : Pipelines, filter : Filters, active : BOOLEAN]

ASSUME SettingsAssumption == NoRoute \notin Settings /\ Initial \subseteq Settings
ASSUME PipelinesAssumption ==
    \A p \in Pipelines :
        /\ Len(p) \in Nat /\ DOMAIN p = 1..Len(p)
        /\ \A i \in DOMAIN p : "expression" \in DOMAIN p[i] => p[i].expression.len \in Nat

ASSUME UpdatesAssumption ==
    \A body \in Updates :
        /\ DOMAIN body \subseteq {"url", "pipeline", "filter", "active"}
        /\ "url" \in DOMAIN body => body.url \in Urls \cup {NoUrl}
        /\ "pipeline" \in DOMAIN body => body.pipeline \in Pipelines
        /\ "filter" \in DOMAIN body => body.filter \in Filters
        /\ "active" \in DOMAIN body => body.active \in BOOLEAN

Exists(r) == route[r] # NoRoute

(* What RouteCreate and validate_delivery_url let pass. *)
AcceptsSettings(s) ==
    AcceptsUrl(s.url, INSECURE) /\ AcceptsPipeline(s.pipeline) /\ AcceptsFilter(s.filter)

CatalogTypeOK ==
    /\ EventsTypeOK
    /\ endpoint \in {"active", "inactive", "deleted"}
    /\ route \in [Routes -> Settings \cup {NoRoute}]
    /\ versions \in [Routes -> SUBSET Settings]
    /\ taken \in 0..Len(raw)
    /\ job = NoJob \/ (job.todo # {} /\ job.event \in Events /\ DOMAIN job.settings \subseteq Routes)
    /\ \A d \in flights : d.event \in Events /\ d.route \in Routes /\ d.number \in Nat

CatalogInit ==
    /\ EventsInit
    /\ endpoint = "active"
    /\ route \in [Routes -> {s \in Initial : AcceptsSettings(s)} \cup {NoRoute}]
    /\ versions = [r \in Routes |-> {route[r]} \ {NoRoute}]
    /\ request \in [Events -> Requests]
    /\ taken = 0 /\ job = NoJob /\ flights = {}

-----------------------------------------------------------------------------
OnlyCall == UNCHANGED <<event, attempts, raw, scheduling, history,
                        marks, lapses, catalog, handling>>

(* Its id is new: no route ever had it, and no other call is adding it. *)
BeginAddRoute(c, r, s) ==
    /\ endpoint # "deleted"
    /\ versions[r] = {} /\ \A d \in Clients : call[d].op = "add" => call[d].route # r
    /\ AcceptsSettings(s)
    /\ Begin(c, [op |-> "add", route |-> r, settings |-> s])
    /\ OnlyCall

(* RouteUpdate validates pipeline and filter; a url is validated unless it  *)
(* is null.                                                                 *)
AcceptsUpdate(body) ==
    /\ "url" \in DOMAIN body /\ body.url # NoUrl => AcceptsUrl(body.url, INSECURE)
    /\ "pipeline" \in DOMAIN body => AcceptsPipeline(body.pipeline)
    /\ "filter" \in DOMAIN body => AcceptsFilter(body.filter)

BeginUpdateRoute(c, r, body) ==
    /\ endpoint # "deleted" /\ Exists(r)
    /\ AcceptsUpdate(body)
    /\ Begin(c, [op |-> "update", route |-> r, body |-> body, seen |-> route[r]])
    /\ OnlyCall

BeginDeleteRoute(c, r) ==
    /\ endpoint # "deleted" /\ Exists(r)
    /\ Begin(c, [op |-> "delete route", route |-> r])
    /\ OnlyCall

(* update_endpoint with is_active, or delete_endpoint. *)
BeginEndpointCall(c, op) ==
    /\ endpoint # "deleted"
    /\ Begin(c, [op |-> op, seen |-> endpoint])
    /\ OnlyCall

-----------------------------------------------------------------------------
(* The route's row is written. *)
Write(r, s) ==
    /\ route' = [route EXCEPT ![r] = s]
    /\ versions' = [versions EXCEPT ![r] = @ \cup {s}]
    /\ UNCHANGED <<endpoint, request>>

(* The commit raises, a 500: an IntegrityError or a StaleDataError. *)
Refused == UNCHANGED catalog

CommitAddRoute(c) ==
    /\ call[c].op = "add"
    /\ IF endpoint # "deleted"
       THEN Write(call[c].route, call[c].settings) ELSE Refused

(* The columns that setattr has changed from what was read. *)
Changed(body, seen) == {f \in DOMAIN body : body[f] # seen[f]}

Overwritten(row, body, columns) ==
    [f \in DOMAIN row |-> IF f \in columns THEN body[f] ELSE row[f]]

Fits(body, columns) == "url" \in columns => body.url # NoUrl

(* The whole row as it was read is written back. *)
CommitWholeRow(c) ==
    /\ call[c].op = "update"
    /\ LET r == call[c].route
           body == call[c].body
           columns == Changed(body, call[c].seen)
       IN  IF Exists(r) /\ columns # {} /\ Fits(body, columns)
           THEN Write(r, Overwritten(call[c].seen, body, columns)) ELSE Refused

(* One commit writes all the columns given, those of them that differ from  *)
(* what was read; a row that is gone, or a null that its column refuses,    *)
(* makes it raise.                                                          *)
CommitUpdateRoute(c) ==
    /\ call[c].op = "update"
    /\ LET r == call[c].route
           body == call[c].body
           columns == Changed(body, call[c].seen)
       IN  IF Exists(r) /\ columns # {} /\ Fits(body, columns)
           THEN Write(r, Overwritten(route[r], body, columns)) ELSE Refused

AttemptsOf(r) == {a \in attempts : a.route = r}

RemoveRows(S) == route' = [r \in Routes |-> IF r \in S THEN NoRoute ELSE route[r]]

(* The row is deleted with no regard to the attempts that point to it. *)
CommitDeleteUnchecked(c) ==
    /\ call[c].op = "delete route"
    /\ RemoveRows({call[c].route}) /\ UNCHANGED <<endpoint, versions, request>>

(* delivery_attempts.route_id has no ON DELETE. *)
CommitDeleteRoute(c) ==
    /\ call[c].op = "delete route"
    /\ IF AttemptsOf(call[c].route) = {}
       THEN RemoveRows({call[c].route}) /\ UNCHANGED <<endpoint, versions, request>>
       ELSE Refused

(* The ORM deletes the routes with the endpoint; events.endpoint_id has no  *)
(* ON DELETE, so an endpoint that ever had an event cannot go.              *)
CommitEndpointCall(c) ==
    /\ call[c].op \in {"delete", "activate", "deactivate"}
    /\ CASE endpoint = "deleted" -> Refused
         [] endpoint # "deleted" /\ call[c].op = "delete" ->
                IF \A e \in Events : ~Stored(e)
                THEN /\ endpoint' = "deleted" /\ RemoveRows(Routes)
                     /\ UNCHANGED <<versions, request>>
                ELSE Refused
         [] OTHER ->
                LET wanted == IF call[c].op = "activate" THEN "active" ELSE "inactive"
                IN  /\ endpoint' = IF call[c].seen = wanted THEN endpoint ELSE wanted
                    /\ UNCHANGED <<route, versions, request>>

CommitCall(c) ==
    /\ \/ CommitAddRoute(c)
       \/ CommitUpdateRoute(c)
       \/ CommitDeleteRoute(c)
       \/ CommitEndpointCall(c)
    /\ Answer(c)
    /\ UNCHANGED <<event, attempts, raw, scheduling, history, eventBounds, handling>>

-----------------------------------------------------------------------------
(* The gateway takes events for an active endpoint only. *)
Ingest(e) ==
    /\ endpoint = "active"
    /\ Store(e)
    /\ UNCHANGED <<catalog, handling>>

(* An event without routes is kept in hand. *)
TakeUnchecked ==
    /\ job = NoJob /\ taken < Len(raw)
    /\ taken' = taken + 1
    /\ LET active == {r \in Routes : Exists(r) /\ route[r].active}
       IN  job' = [event |-> raw[taken + 1], todo |-> active,
                   settings |-> [r \in active |-> route[r]]]
    /\ UNCHANGED <<eventVars, catalog, flights>>

(* _process_event reads the event and its active routes; with none it is    *)
(* done.                                                                    *)
Take ==
    /\ job = NoJob /\ taken < Len(raw)
    /\ taken' = taken + 1
    /\ LET active == {r \in Routes : Exists(r) /\ route[r].active}
       IN  job' = IF active = {} THEN NoJob
                  ELSE [event |-> raw[taken + 1], todo |-> active,
                        settings |-> [r \in active |-> route[r]]]
    /\ UNCHANGED <<eventVars, catalog, flights>>

Message(r, s) ==
    [event |-> job.event, route |-> r, round |-> taken, url |-> s.url, pipeline |-> s.pipeline,
     body |-> ApplyPipeline(s.pipeline, request[job.event].body).value, number |-> 0]

Sends(r, s) ==
    LET body == request[job.event].body
    IN  /\ RouteMatches(s.filter, body, request[job.event].headers)
        /\ ApplyPipeline(s.pipeline, body).error = "none"

(* The url is read again when the message is put together. *)
DispatchRereading(r) ==
    /\ job # NoJob /\ r \in job.todo
    /\ LET s == IF Exists(r) THEN [job.settings[r] EXCEPT !.url = route[r].url]
                ELSE job.settings[r]
       IN  flights' = IF Sends(r, s) THEN flights \cup {Message(r, s)} ELSE flights
    /\ job' = IF job.todo = {r} THEN NoJob ELSE [job EXCEPT !.todo = @ \ {r}]
    /\ UNCHANGED <<eventVars, catalog, taken>>

(* _dispatch_route: the message carries the settings read by Take; a route  *)
(* that does not match, or whose pipeline raises, is passed over.           *)
Dispatch(r) ==
    /\ job # NoJob /\ r \in job.todo
    /\ LET s == job.settings[r]
       IN  flights' = IF Sends(r, s) THEN flights \cup {Message(r, s)} ELSE flights
    /\ job' = IF job.todo = {r} THEN NoJob ELSE [job EXCEPT !.todo = @ \ {r}]
    /\ UNCHANGED <<eventVars, catalog, taken>>

(* What the name of a url may resolve to at the moment. *)
Resolutions(url) == IF url.host = "name" THEN {{"public"}, {"private"}} ELSE {{url.host}}

(* One attempt of _deliver_with_retry: it fails on an error, a refused url  *)
(* among them, or a 5xx answer, and has not failed on any other answer.     *)
(* When the route is gone the row cannot be inserted and the delivery ends  *)
(* there with an exception.                                                 *)
Attempt(d, failed) ==
    /\ failed \/ \E addresses \in Resolutions(d.url) : AcceptsRequest(d.url, INSECURE, addresses)
    /\ LET row == [event |-> d.event, route |-> d.route, round |-> d.round,
                   number |-> d.number, failed |-> failed]
           again == Exists(d.route) /\ failed /\ d.number + 1 < MAX_RETRIES
       IN  /\ attempts' = IF Exists(d.route) THEN attempts \cup {row} ELSE attempts
           /\ flights' = (flights \ {d})
                    \cup IF again THEN {[d EXCEPT !.number = @ + 1]} ELSE {}
    /\ UNCHANGED <<event, raw, call, scheduling, history, eventBounds, catalog,
                   taken, job>>

-----------------------------------------------------------------------------
ApiStep(c) ==
    \/ \E r \in Routes, u \in Urls, p \in Pipelines, f \in Filters :
            BeginAddRoute(c, r, [url |-> u, pipeline |-> p, filter |-> f, active |-> TRUE])
    \/ \E r \in Routes, body \in Updates : BeginUpdateRoute(c, r, body)
    \/ \E r \in Routes : BeginDeleteRoute(c, r)
    \/ \E op \in {"delete", "activate", "deactivate"} : BeginEndpointCall(c, op)
    \/ CommitCall(c)

EventStep ==
    /\ \/ \E c \in Clients :
            \/ \E e \in Events : BeginEventCall(c, e)
            \/ CommitEventCall(c)
            \/ Replay(c)
            \/ ReplayFails(c)
       \/ StartScheduler
       \/ \E S \in SUBSET Events : Pick(S)
       \/ \E e \in Events : Send(e) \/ ComesDue(e) \/ MarkFailed(e)
       \/ CommitRequeues
       \/ LoseTransaction
    /\ UNCHANGED <<catalog, handling>>

Next ==
    \/ \E c \in Clients : ApiStep(c)
    \/ EventStep
    \/ \E e \in Events : Ingest(e)
    \/ Take
    \/ \E r \in Routes : Dispatch(r)
    \/ \E d \in flights, failed \in BOOLEAN : Attempt(d, failed)

Spec == CatalogInit /\ [][Next]_catalogVars

-----------------------------------------------------------------------------
(* What two calls that overlap leave in a row is still what the API would   *)
(* accept, and no event makes a stored pipeline fail for a reason that      *)
(* could have been found when it was stored: what is left are JMESPath on   *)
(* a value it does not take and the division of a number that is too large. *)
StoredSettingsSound ==
    \A r \in Routes : Exists(r) =>
        /\ AcceptsSettings(route[r])
        /\ \A q \in Requests :
                ApplyPipeline(route[r].pipeline, q.body).error
                    \in EventErrors(route[r].pipeline)

(* A message is made from one version of the route's settings, never from   *)
(* the url of one and the pipeline of another, whatever was edited between  *)
(* the lookup and the delivery.                                             *)
OneVersionPerMessage ==
    \A d \in flights : \E s \in versions[d.route] : s.url = d.url /\ s.pipeline = d.pipeline

(* The history of an event keeps its references: no deletion takes away an  *)
(* endpoint with events, or a route or an event with attempts.              *)
HistoryAnchored ==
    /\ \A a \in attempts : Stored(a.event) /\ Exists(a.route)
    /\ (\E e \in Events : Stored(e)) => endpoint # "deleted"

(* A column of a route changes only to what a client has sent for it, in    *)
(* the commit of that update.  An update that overlaps with another never   *)
(* takes back what the other has committed in the columns it does not name. *)
OtherFieldsKept ==
    [][\A r \in Routes : Exists(r) /\ route'[r] # NoRoute =>
          \A f \in DOMAIN route[r] : route'[r][f] # route[r][f] =>
              \E c \in Clients :
                  /\ call[c].op = "update" /\ call[c].route = r /\ call'[c] = Idle
                  /\ f \in DOMAIN call[c].body /\ route'[r][f] = call[c].body[f]]_route

=============================================================================
