------------------------------ MODULE Requests ------------------------------
(***************************************************************************)
(* HTTP requests that use a container (server_axum.rs,                     *)
(* attempt_record_request around with_coordinator) and the database that   *)
(* records them (request_database.rs).                                     *)
(*                                                                         *)
(* A request's row is inserted by the database thread; the handler then    *)
(* holds an EndGuard, whose drop spawns a task that has the row ended.     *)
(* The handler is dropped at whatever await it is at when the client goes  *)
(* away.  Container permits are the business of Limits.tla.                *)
(***************************************************************************)
EXTENDS Naturals, Sequences, FiniteSets

CONSTANTS Req,  \* the requests; each has a row of its own
          Cap   \* capacity of the database's channel (10 in the code)

ASSUME RequestsAssumption == IsFiniteSet(Req) /\ Cap \in Nat \ {0}

VARIABLES
    stage,      \* where each handler is, see Stage
    answer,     \* what the job came to: "none", "Complete" or "Error"
    guard,      \* each handler's EndGuard: "none", "armed" (has an id), "dropped"
    container,  \* handlers whose coordinator has a container
    queue,      \* the database's channel
    reply,      \* the oneshot of a StartRequest: "none", "id", "err"
    enders,     \* <<request, how>>: tasks that wait to send an EndRequest
    rows,       \* "none", "open", or how the request ended
    unended,    \* requests whose UPDATE failed
    server      \* "up" or "down"

vars == <<stage, answer, guard, container, queue, reply, enders, rows, unended, server>>

(***************************************************************************)
(*   new      not received             running   in f, under the timeout   *)
(*   send     StartRequest waits for   shutdown  in coordinator.shutdown   *)
(*            room                     done      the response is returned  *)
(*   await    its answer is awaited    gone      dropped                   *)
(***************************************************************************)
InHandler == {"send", "await", "running", "shutdown"}
Stage == InHandler \cup {"new", "done", "gone"}
How == {"Complete", "Abandoned", "Error"}

Message == [type : {"StartRequest"}, req : Req] \cup [type : {"EndRequest"}, req : Req, how : How]

TypeOK ==
    /\ stage \in [Req -> Stage] /\ answer \in [Req -> {"none", "Complete", "Error"}]
    /\ guard \in [Req -> {"none", "armed", "dropped"}]
    /\ container \subseteq Req /\ unended \subseteq Req
    /\ queue \in Seq(Message) /\ Len(queue) <= Cap
    /\ reply \in [Req -> {"none", "id", "err"}]
    /\ enders \subseteq Req \X How
    /\ rows \in [Req -> How \cup {"none", "open"}]
    /\ server \in {"up", "down"}

Init ==
    /\ stage = [r \in Req |-> "new"] /\ answer = [r \in Req |-> "none"]
    /\ guard = [r \in Req |-> "none"] /\ container = {} /\ unended = {}
    /\ queue = <<>> /\ reply = [r \in Req |-> "none"] /\ enders = {}
    /\ rows = [r \in Req |-> "none"] /\ server = "up"

-----------------------------------------------------------------------------
(* The handler *)
Move(r, from, to) == /\ server = "up" /\ stage[r] = from
                     /\ stage' = [stage EXCEPT ![r] = to]

Receive(r) ==
    /\ Move(r, "new", "send")
    /\ UNCHANGED <<answer, guard, container, queue, reply, enders, rows, unended, server>>

SendStart(r) ==
    /\ Len(queue) < Cap
    /\ Move(r, "send", "await")
    /\ queue' = Append(queue, [type |-> "StartRequest", req |-> r])
    /\ UNCHANGED <<answer, guard, container, reply, enders, rows, unended, server>>

\* attempt_start_request: without an id the request runs unrecorded.
Started(r) ==
    /\ reply[r] # "none"
    /\ Move(r, "await", "running")
    /\ guard' = IF reply[r] = "id" THEN [guard EXCEPT ![r] = "armed"] ELSE guard
    /\ UNCHANGED <<answer, container, queue, reply, enders, rows, unended, server>>

UseContainer(r) ==
    /\ server = "up" /\ stage[r] = "running" /\ r \notin container
    /\ container' = container \cup {r}
    /\ UNCHANGED <<stage, answer, guard, queue, reply, enders, rows, unended, server>>

\* The job of with_coordinator returns.
JobEnds(r) ==
    /\ Move(r, "running", "shutdown")
    /\ \E a \in {"Complete", "Error"} : answer' = [answer EXCEPT ![r] = a]
    /\ UNCHANGED <<guard, container, queue, reply, enders, rows, unended, server>>

\* Variant: the timeout starts when there is a container.
LateJobTimesOut(r) ==
    /\ r \in container
    /\ Move(r, "running", "shutdown")
    /\ answer' = [answer EXCEPT ![r] = "Error"]
    /\ UNCHANGED <<guard, container, queue, reply, enders, rows, unended, server>>

\* DOCKER_PROCESS_TIMEOUT_SOFT drops the job; the coordinator keeps the container.
JobTimesOut(r) ==
    /\ Move(r, "running", "shutdown")
    /\ answer' = [answer EXCEPT ![r] = "Error"]
    /\ UNCHANGED <<guard, container, queue, reply, enders, rows, unended, server>>

\* Drop of an EndGuardInner.
DropGuard(r, how) ==
    IF guard[r] = "armed"
      THEN guard' = [guard EXCEPT ![r] = "dropped"] /\ enders' = enders \cup {<<r, how>>}
      ELSE UNCHANGED <<guard, enders>>

\* Variant: the result is recorded before the shutdown can turn it into an error.
EarlyShutdown(r) ==
    /\ Move(r, "shutdown", "done")
    /\ container' = container \ {r}
    /\ \E a \in {answer[r], "Error"} : answer' = [answer EXCEPT ![r] = a]
    /\ DropGuard(r, answer[r])
    /\ UNCHANGED <<queue, reply, rows, unended, server>>

\* coordinator.shutdown(), whose failure takes the place of the result, and
\* complete_now.
Shutdown(r) ==
    /\ Move(r, "shutdown", "done")
    /\ container' = container \ {r}
    /\ \E a \in {answer[r], "Error"} :
          answer' = [answer EXCEPT ![r] = a] /\ DropGuard(r, a)
    /\ UNCHANGED <<queue, reply, rows, unended, server>>

\* Variant: the guard of a dropped handler does nothing.
SilentDisconnect(r) ==
    /\ stage[r] \in InHandler /\ Move(r, stage[r], "gone")
    /\ container' = container \ {r}
    /\ guard' = IF guard[r] = "armed" THEN [guard EXCEPT ![r] = "dropped"] ELSE guard
    /\ UNCHANGED <<answer, queue, reply, enders, rows, unended, server>>

\* The client goes away and the handler's future is dropped, with the
\* coordinator, the receiver of the oneshot and the guard that it holds.
Disconnect(r) ==
    /\ stage[r] \in InHandler /\ Move(r, stage[r], "gone")
    /\ container' = container \ {r}
    /\ DropGuard(r, "Abandoned")
    /\ UNCHANGED <<answer, queue, reply, rows, unended, server>>

-----------------------------------------------------------------------------
(* attempt_end_request and the database thread *)
SendEnd(r, how) ==
    /\ server = "up" /\ <<r, how>> \in enders /\ Len(queue) < Cap
    /\ enders' = enders \ {<<r, how>>}
    /\ queue' = Append(queue, [type |-> "EndRequest", req |-> r, how |-> how])
    /\ UNCHANGED <<stage, answer, guard, container, reply, rows, unended, server>>

\* INSERT, or an error of SQLite; the answer is lost if the caller is gone.
DbStart ==
    /\ server = "up" /\ queue # <<>> /\ Head(queue).type = "StartRequest"
    /\ LET r == Head(queue).req IN
          \/ rows' = [rows EXCEPT ![r] = "open"] /\ reply' = [reply EXCEPT ![r] = "id"]
          \/ UNCHANGED rows /\ reply' = [reply EXCEPT ![r] = "err"]
    /\ queue' = Tail(queue)
    /\ UNCHANGED <<stage, answer, guard, container, enders, unended, server>>

\* UPDATE, or an error of SQLite, which is logged.
DbEnd ==
    /\ server = "up" /\ queue # <<>> /\ Head(queue).type = "EndRequest"
    /\ LET m == Head(queue) IN
          \/ rows' = [rows EXCEPT ![m.req] = m.how] /\ UNCHANGED unended
          \/ unended' = unended \cup {m.req} /\ UNCHANGED rows
    /\ queue' = Tail(queue)
    /\ UNCHANGED <<stage, answer, guard, container, reply, enders, server>>

\* The server stops; only the rows are left.
Stop ==
    /\ server = "up" /\ server' = "down"
    /\ stage' = [r \in Req |-> IF stage[r] \in InHandler THEN "gone" ELSE stage[r]]
    /\ container' = {} /\ queue' = <<>> /\ enders' = {}
    /\ UNCHANGED <<answer, guard, reply, rows, unended>>

-----------------------------------------------------------------------------
Handler(r) == \/ Receive(r) \/ SendStart(r) \/ Started(r) \/ UseContainer(r) \/ JobEnds(r)
              \/ JobTimesOut(r) \/ Shutdown(r) \/ Disconnect(r)

Next == \/ \E r \in Req : Handler(r) \/ \E how \in How : SendEnd(r, how)
        \/ DbStart \/ DbEnd \/ Stop

Spec == Init /\ [][Next]_vars

\* Tasks and the database thread run, mpsc serves its senders in order, the
\* timeout fires and the shutdown of a coordinator ends.
Fairness ==
    /\ WF_vars(DbStart \/ DbEnd)
    /\ \A r \in Req :
          /\ SF_vars(SendStart(r)) /\ WF_vars(Started(r)) /\ WF_vars(JobTimesOut(r))
          /\ WF_vars(Shutdown(r)) /\ \A how \in How : SF_vars(SendEnd(r, how))

FairSpec == Spec /\ Fairness

-----------------------------------------------------------------------------
\* What a row says of a request is what became of it: the client was answered
\* with a success or an error, or was not answered.
RowHonest ==
    \A r \in Req : /\ rows[r] = "Abandoned" => stage[r] = "gone"
                   /\ rows[r] \in {"Complete", "Error"} => stage[r] = "done" /\ rows[r] = answer[r]

EndUnderWay(r) ==
    \/ \E how \in How : <<r, how>> \in enders
    \/ \E i \in 1 .. Len(queue) : queue[i].type = "EndRequest" /\ queue[i].req = r

\* A row stays open only by a handler that was dropped before it had the id, by
\* an error of SQLite, or by the end of the server: once the guard is dropped the
\* end of the row is done or under way.
OpenRowExplained ==
    \A r \in Req : guard[r] = "dropped" /\ rows[r] = "open"
        => EndUnderWay(r) \/ r \in unended \/ server = "down"

\* A handler comes to its end, whatever its job and the database do.
HandlerReturns == \A r \in Req : stage[r] \in InHandler ~> stage[r] \notin InHandler
=============================================================================
