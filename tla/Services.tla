------------------------------ MODULE Services ------------------------------
(* What the server does beside ingestion, each service in its own module:    *)
(* the maintenance of workflows, the search indexes, MCP's pages and calls,  *)
(* access, sessions, requests, configuration, debug bundles and the process  *)
(* itself.  They share no state that their properties speak of, so that a    *)
(* behaviour is one of any of them, and the others rest in an initial state. *)
EXTENDS WorkflowMaintenance, SearchIndexes, TaskSearch, McpPaging, McpInspections,
        Access, Requests, Sessions, Configuration, DebugBundles, ServerLifecycle

VARIABLE part       \* the service that works

services == <<maintenanceVars, searchVars, taskSearchVars, mcpVars, inspectionVars,
              accessVars, requestsVars, sessionsVars, configurationVars, bundlesVars, lifecycleVars, part>>

Service == {"maintenance", "search", "query", "mcp", "inspections", "access",
            "requests", "sessions", "configuration", "bundles", "lifecycle"}

(* Where a service may start in several ways, one at rest has started in one. *)
AtRest ==
    /\ part # "maintenance" => /\ taskRows = [t \in StoredTask |-> NoTask]
                               /\ retention = CHOOSE p \in Policy : TRUE
    /\ part # "search" => text = [t \in IndexedTask |-> NoText]
    /\ part # "inspections" => /\ members = [t \in Member |-> NoRow]
                               /\ inspection = CHOOSE w \in Inspected : TRUE
    /\ part # "access" => replays = FALSE
    /\ part # "requests" => entrance = [prefix |-> FALSE, mode |-> "basic"]
    /\ part # "sessions" => config = CHOOSE c \in Configs : TRUE
    /\ part # "lifecycle" => setup = [managed |-> FALSE, replay |-> FALSE]

ServicesInit ==
    /\ part \in Service
    /\ MaintenanceInit /\ SearchInit /\ TaskSearchInit /\ McpInit /\ InspectionsInit /\ AccessInit /\ RequestsInit
    /\ SessionsInit /\ ConfigurationInit /\ BundlesInit /\ LifecycleInit
    /\ AtRest

ServicesNext ==
    /\ UNCHANGED part
    /\ IF part = "maintenance" THEN MaintenanceNext ELSE UNCHANGED maintenanceVars
    /\ IF part = "search" THEN SearchNext ELSE UNCHANGED searchVars
    /\ IF part = "query" THEN TaskSearchNext ELSE UNCHANGED taskSearchVars
    /\ IF part = "mcp" THEN McpNext ELSE UNCHANGED mcpVars
    /\ IF part = "inspections" THEN InspectionsNext ELSE UNCHANGED inspectionVars
    /\ IF part = "access" THEN AccessNext ELSE UNCHANGED accessVars
    /\ IF part = "requests" THEN RequestsNext ELSE UNCHANGED requestsVars
    /\ IF part = "sessions" THEN SessionsNext ELSE UNCHANGED sessionsVars
    /\ IF part = "configuration" THEN ConfigurationNext ELSE UNCHANGED configurationVars
    /\ IF part = "bundles" THEN BundlesNext ELSE UNCHANGED bundlesVars
    /\ IF part = "lifecycle" THEN LifecycleNext ELSE UNCHANGED lifecycleVars

ServicesSpec == ServicesInit /\ [][ServicesNext]_services

-----------------------------------------------------------------------------
(* A search finds what is there: the projections keep every task from being  *)
(* missed, whatever runs beside them, and so do the terms and the patterns   *)
(* that a typed pair becomes (search-indexes.ts:77-106,                      *)
(* task-search.ts:231-297; where no search is typed, none changes).          *)
SearchFinds == SearchMissesNothing /\ (part = "query" => PairsAreFound)
=============================================================================
