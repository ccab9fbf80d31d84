------------------------------- MODULE StatusPage -------------------------------
(***************************************************************************)
(* The consumer of sauna/consumers/ext/http_server and the part of         *)
(* AsyncConsumer it reads the shared dict with, next to the threads of     *)
(* CheckDispatch that write it.  serve_forever answers one request at a    *)
(* time, on the thread of the consumer.                                    *)
(*                                                                         *)
(* A page is what its reader can tell apart: the worst status, and the run *)
(* each check is shown with (0 for a check that is not shown).  Results    *)
(* are the ranks of runs, as in CheckDispatch; StatusOf gives the status   *)
(* each run returned.  The dict is read one check at a time, under         *)
(* check_results_lock: what keeps a worker from storing in between is that *)
(* lock.                                                                   *)
(***************************************************************************)
EXTENDS CheckDispatch

CONSTANTS
  StatusOf,     \* StatusOf[n][run]: the status of that run of check n, of MaxRuns + 1 at most
  MaxRequests   \* bound on the connections that clients open

ASSUME StatusAssumption == StatusOf \in [Names -> [1..(MaxRuns + 1) -> Int]]
ASSUME RequestsAssumption == MaxRequests \in Nat

VARIABLES
  dataType,   \* config['data_type']: "json", "html", or anything else
  clients,    \* connections that wait in the backlog of the listening socket
  opened,     \* history: connections opened so far
  server,     \* where the thread of the consumer is
  path,       \* the path of the request being handled: "/" or another
  code,       \* 'code' of the content of the page, or the accumulator of reduce
  shown,      \* 'checks' of the content, or the rows of the dashboard
  locked,     \* whether the server holds check_results_lock
  unread,     \* the checks that the loop over check_results has still to visit
  mustStop,   \* must_stop.is_set()
  shutdown,   \* __shutdown_request of the server
  lateRequests, \* history: connections accepted after must_stop was set
  moments     \* history: what check_results has been since the request was read

pageVars == <<path, code, shown>>
readVars == <<locked, unread>>
serverVars == <<clients, opened, server, mustStop, shutdown, lateRequests>>
statusVars == <<vars, dataType, pageVars, readVars, serverVars, moments>>

CRIT == 2
Nothing == [n \in Names |-> 0]

-----------------------------------------------------------------------------
\* reduce_status: whatever is above CRIT, UNKNOWN included, is left out.
Worse(accumulated, status) ==
  IF status > CRIT \/ accumulated > status THEN accumulated ELSE status

\* The three loops over check_results: get_current_status, and get_checks_as_dict for the
\* content and again for the dashboard.
Loops == {"status", "checks", "rows"}

\* What comes after each of them.
AfterLoop == [status |-> "checks", checks |-> "body", rows |-> "written"]

\* A request was read, and its response is not written yet.
Answering == server \in Loops \cup {"body", "written"}

MayStoreMut == TRUE

\* 'with check_results_lock', around what _check_helper stores and around each loop.
MayStore == ~ locked

\* get_content_from_path; NotFoundError for other paths.
AfterRequest(p) == IF p = "/" THEN "status" ELSE "body"

ShutdownMut == shutdown

\* service_actions
Shutdown == shutdown \/ mustStop

-----------------------------------------------------------------------------
StatusInit ==
  /\ Init
  /\ dataType \in {"json", "html", "other"}
  /\ clients = 0 /\ opened = 0
  /\ server = "select"
  /\ path = "/" /\ code = 0 /\ shown = Nothing
  /\ locked = FALSE /\ unread = {}
  /\ mustStop = FALSE
  /\ shutdown = FALSE
  /\ lateRequests = 0
  /\ moments = << >>

OpenConnection ==
  /\ opened < MaxRequests
  /\ clients' = clients + 1
  /\ opened' = opened + 1
  /\ UNCHANGED <<vars, dataType, pageVars, readVars, server, mustStop, shutdown, lateRequests, moments>>

SetMustStop ==
  /\ ~ mustStop
  /\ mustStop' = TRUE
  /\ UNCHANGED <<vars, dataType, pageVars, readVars, clients, opened, server, shutdown, lateRequests, moments>>

\* The thread of the server goes from one step to the next, and leaves the rest alone.
Goes(from, to) ==
  /\ server = from
  /\ server' = to
  /\ UNCHANGED <<vars, dataType, opened, mustStop>>

\* select returns with a client to accept.
Accept ==
  /\ Goes("select", "reading")
  /\ ~ shutdown
  /\ clients > 0
  /\ clients' = clients - 1
  /\ lateRequests' = IF mustStop THEN lateRequests + 1 ELSE lateRequests
  /\ UNCHANGED <<pageVars, readVars, shutdown, moments>>

\* select returns after poll_interval.
PollTimeout ==
  /\ Goes("select", "actions")
  /\ ~ shutdown
  /\ clients = 0
  /\ UNCHANGED <<pageVars, readVars, clients, shutdown, lateRequests, moments>>

\* The request was read: do_GET or do_HEAD.  The handler has no timeout, and waits for it
\* as long as the client pleases.
ReadRequest ==
  /\ path' \in {"/", "/other"}
  /\ Goes("reading", AfterRequest(path'))
  /\ moments' = <<checkResults>>
  /\ UNCHANGED <<code, shown, readVars, clients, shutdown, lateRequests>>

\* The client hangs up, or sends what is no request.
NoRequest ==
  /\ Goes("reading", "actions")
  /\ UNCHANGED <<pageVars, readVars, clients, shutdown, lateRequests, moments>>

\* A loop takes the lock.  A dict may be visited in any order: that of the first results.
TakeLock ==
  /\ server \in Loops
  /\ ~ locked
  /\ locked' = TRUE
  /\ unread' = {n \in Names : checkResults[n] # 0}
  /\ UNCHANGED <<vars, dataType, pageVars, serverVars, moments>>

\* One turn of reduce, or of the loop of get_checks_as_dict.
Visit(n) ==
  /\ locked
  /\ n \in unread
  /\ unread' = unread \ {n}
  /\ IF server = "status"
     THEN code' = Worse(code, StatusOf[n][checkResults[n]]) /\ UNCHANGED shown
     ELSE shown' = [shown EXCEPT ![n] = checkResults[n]] /\ UNCHANGED code
  /\ UNCHANGED <<vars, dataType, path, locked, serverVars, moments>>

\* The end of the loop releases the lock.
ReleaseLock ==
  /\ locked
  /\ unread = {}
  /\ \E loop \in Loops : Goes(loop, AfterLoop[loop])
  /\ locked' = FALSE
  /\ UNCHANGED <<pageVars, unread, clients, shutdown, lateRequests, moments>>

\* generate_response: the content in JSON; for every path the dashboard, whose rows are read
\* from the dict once more; or a line that says neither.
Respond ==
  /\ Goes("body", IF dataType = "html" THEN "rows" ELSE "written")
  /\ IF dataType = "json" THEN UNCHANGED <<code, shown>> ELSE code' = 0 /\ shown' = Nothing
  /\ UNCHANGED <<path, readVars, clients, shutdown, lateRequests, moments>>

\* The response is written, or an exception is left to handle_error, which logs it: the client
\* is gone, or an output is nothing that json.dumps or escape takes.
EndRequest ==
  /\ Goes("written", "actions")
  /\ path' = "/" /\ code' = 0 /\ shown' = Nothing
  /\ moments' = << >>
  /\ UNCHANGED <<readVars, clients, shutdown, lateRequests>>

ServiceActions ==
  /\ Goes("actions", "select")
  /\ shutdown' = Shutdown
  /\ UNCHANGED <<pageVars, readVars, clients, lateRequests, moments>>

\* serve_forever returns, and with it the thread of the consumer.
ServerExits ==
  /\ Goes("select", "done")
  /\ shutdown
  /\ UNCHANGED <<pageVars, readVars, clients, shutdown, lateRequests, moments>>

-----------------------------------------------------------------------------
\* A step of CheckDispatch, whose StoreResult waits for the lock.
Dispatch ==
  /\ Next
  /\ MayStore \/ checkResults' = checkResults
  /\ moments' = IF Answering /\ checkResults' # checkResults
                THEN Append(moments, checkResults') ELSE moments
  /\ UNCHANGED <<dataType, pageVars, readVars, serverVars>>

Serve ==
  \/ Accept \/ PollTimeout
  \/ TakeLock \/ (\E n \in Names : Visit(n)) \/ ReleaseLock
  \/ Respond \/ EndRequest \/ ServiceActions \/ ServerExits

StatusNext ==
  \/ Dispatch
  \/ OpenConnection \/ SetMustStop \/ ReadRequest \/ NoRequest
  \/ Serve

StatusSpec == StatusInit /\ [][StatusNext]_statusVars

\* The thread of the server runs; a client need not send its request.
FairStatusSpec == StatusSpec /\ WF_statusVars(Serve)

-----------------------------------------------------------------------------
\* status is the worst, from OK to CRIT, of the runs in results; OK when there is none.
IsWorst(status, results) ==
  LET known == {StatusOf[n][results[n]] : n \in {m \in Names : results[m] # 0}}
      told == {0} \cup {s \in known : s <= CRIT}
  IN  status \in told /\ \A s \in told : s <= status

\* However many results are stored while an answer is made, its code is the worst status of
\* all the checks as they were at one moment since the request was read, and the checks it
\* lists, or the rows of the dashboard, are all of them as they were at one moment, the same
\* or a later one.  Nothing more is promised: a page may be OK next to a failure that was
\* stored between the two readings, or critical after the failure was over.
PageIsExplained ==
  server = "written" =>
    \E i, j \in DOMAIN moments :
      /\ i <= j
      /\ dataType = "json" /\ path = "/" => IsWorst(code, moments[i])
      /\ (dataType = "json" /\ path = "/") \/ dataType = "html" => shown = moments[j]

\* Once must_stop is set, the server accepts one more client at most and its thread ends,
\* however many clients wait, unless one of them keeps it waiting for a request.
ServerStops ==
  /\ [](lateRequests <= 1)
  /\ []<>(server # "reading") => (mustStop ~> server = "done")
===============================================================================
