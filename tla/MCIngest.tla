------------------------------ MODULE MCIngest ------------------------------
(***************************************************************************)
(* Two slices of Ingest, which together are too many states: "tables",     *)
(* where administrators do anything and one handler finds Redis working,   *)
(* and "queue", where one service exists and the requests of all handlers, *)
(* their retries and what Redis does late meet in every order.  Refreshes  *)
(* and crashes come in both.                                               *)
(***************************************************************************)
EXTENDS Ingest

VARIABLE slice

mcVars == <<ingestVars, slice>>

MCIngestInit == IngestInit /\ slice \in {"tables", "queue"}

MCAdmin ==
    \/ slice = "tables" /\ Admin
    \/ slice = "queue" /\ CreateService(CHOOSE s \in Service : TRUE, MaxDays)

MCHandle ==
    \/ slice = "tables" /\ Handle(CHOOSE h \in Handler : TRUE)
                        /\ \A h \in Handler : req'[h].status # 503
                                              /\ req'[h].retries = MaxRetries
    \/ slice = "queue" /\ \E h \in Handler : Handle(h)

MCIngestNext ==
    /\ \/ MCAdmin
       \/ StartIngest \/ QueryRows \/ SwapEntries \/ CrashIngest
       \/ MCHandle
       \/ \E p \in strays : StrayExecuted(p)
    /\ UNCHANGED slice

MCIngestSpec ==
    /\ MCIngestInit /\ [][MCIngestNext]_mcVars
    /\ WF_mcVars(StartIngest /\ UNCHANGED slice)
    /\ WF_mcVars(QueryRows /\ UNCHANGED slice)
    /\ WF_mcVars(SwapEntries /\ UNCHANGED slice)
=============================================================================
