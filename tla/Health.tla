--------------------------------- MODULE Health ---------------------------------
(***************************************************************************)
(* The public probe and the operators' report: the state of the process,   *)
(* read first, and a ping of the database racing a timer of one second.    *)
(***************************************************************************)
EXTENDS RequestPipeline

VARIABLES
  appState,  \* worker -> its request saw the process shutting down
  reported   \* worker -> status in the body its request answered with

healthVars == <<appState, reported>>

InitHealth ==
  /\ appState = [w \in Workers |-> FALSE]
  /\ reported = [w \in Workers |-> "none"]

\* bootstrapCompleted is always TRUE for a request: the server listens only afterwards.
GetAppState(w) ==
  /\ At(w, "handler") /\ On(w, {"health", "details"})
  /\ appState' = [appState EXCEPT ![w] = process = "stopping"]
  /\ Go(w, "ping")
  /\ UNCHANGED <<surroundings, received, reported>>

\* Faulty variant: the report of the database is informative only.
IsHealthyWhateverTheDatabase(shuttingDown, up) == ~shuttingDown

IsHealthy(shuttingDown, up) == ~shuttingDown /\ up

OverallStatus(w, up) ==
  IF IsHealthy(appState[w], up) THEN "ok"
  ELSE IF On(w, {"details"}) /\ appState[w] THEN "shutting_down"
  ELSE "error"

Report(w, up) ==
  /\ reported' = [reported EXCEPT ![w] = OverallStatus(w, up)]
  /\ appState' = [appState EXCEPT ![w] = FALSE]
  /\ Answer(w, IF IsHealthy(appState[w], up) THEN 200 ELSE 503)
  /\ UNCHANGED <<surroundings, received>>

PingAnswers(w) == Statement(w, "ping") /\ Report(w, TRUE)

\* The query fails, or the timer wins: the late answer is dropped.
PingFails(w) == At(w, "ping") /\ Report(w, FALSE)
=================================================================================
