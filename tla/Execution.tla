----------------------------- MODULE Execution ------------------------------
(***************************************************************************)
(* One streaming execution, from the browser's stdin to the child process  *)
(* and back:                                                               *)
(*                                                                         *)
(*   handle_execute_inner   ui/src/server_axum/websocket.rs   "consumer"   *)
(*   spawn_cargo_task       coordinator.rs                    "cargo"      *)
(*   the worker and the process it runs                       "child"      *)
(*                                                                         *)
(*          stdinCh            toWorker                                    *)
(*   user -> consumer -------> cargo -----------> worker ---> child        *)
(*   user <- consumer <------- cargo <----------- worker <--- child        *)
(*          outCh[stream]      fromWorker                                  *)
(*                                                                         *)
(* Every channel is bounded and every send waits for room.  toWorker and   *)
(* fromWorker each stand for a chain of bounded FIFO channels and pipes    *)
(* (the io queues of both sides, the demultiplexer, the channels inside    *)
(* the worker), which behaves as one bounded FIFO channel.  The worker is  *)
(* modelled from the coordinator's side here; Worker.tla looks inside.     *)
(***************************************************************************)
EXTENDS Naturals, Sequences, SequencesExt

CONSTANTS Cap,            \* capacity of every channel (8 in the code)
          MaxIn,          \* bound on the stdin packets the user sends
          MaxOut,         \* bound on the packets the child writes
          WorkerMayDie    \* whether the worker may die

ASSUME ExecutionAssumption ==
    /\ Cap \in Nat \ {0} /\ MaxIn \in Nat /\ MaxOut \in Nat
    /\ WorkerMayDie \in BOOLEAN

Stream == {"stdout", "stderr", "status"}
Drained == {"stdout", "stderr"}   \* the streams the consumer drains at the end

VARIABLES
    nIn,          \* stdin packets the user has sent: 1 .. nIn
    userIn,       \* execution_rx: packets not yet taken by the consumer
    userOpen,     \* the WebSocket still holds the sender of execution_rx
    cancelled,    \* the cancellation token of the job
    consumer,     \* where handle_execute_inner is: "loop", "stdin" (waits to
                  \* send a packet), "drain" or "done"
    consumerHas,  \* the packet it waits to send, as a sequence of at most one
    stdinTx,      \* the consumer still holds stdin_tx
    outRx,        \* the consumer still holds the receivers of outCh
    stdinCh, outCh,
    cargo,        \* where the cargo task is: "select", "send" (to the worker),
                  \* "out" (to the consumer), or ended: "ok", "err"
    cargoHas,     \* the message it waits to pass on, a sequence of at most one
    stdinOpen,    \* cargo's stdin_open
    killSent,     \* the fused `cancelled` future has fired
    toWorker, fromWorker,
    worker,       \* "up", "dead", or "closed": dead, and the io queue noticed
    child,        \* "ready", "writing", "exited", "killed", "reported"
    childTo,      \* the stream a writing child is blocked on
    childIn,      \* what the child has read from stdin
    childEof,     \* the child's stdin was closed
    written,      \* per stream, the packets the child wrote
    delivered,    \* per stream, the packets sent to the browser
    result        \* "none", "end", "error", "abandoned": how the consumer ended

consumerVars == <<consumer, consumerHas, stdinTx, outRx, delivered, result>>
cargoVars == <<cargo, cargoHas, stdinOpen, killSent>>
workerVars == <<worker, child, childTo, childIn, childEof, written>>
userVars == <<nIn, userIn, userOpen>>
vars == <<userVars, cancelled, consumerVars, stdinCh, outCh, cargoVars,
          toWorker, fromWorker, workerVars>>

NWritten == Len(written["stdout"]) + Len(written["stderr"]) + Len(written["status"])

Packet == Stream \X (1 .. MaxOut)
ToWorker == [type : {"StdinPacket"}, data : 1 .. MaxIn]
            \cup [type : {"StdinClose", "Kill"}]
FromWorker == [type : {"Output"}, packet : Packet] \cup [type : {"ExecuteCommand", "Error"}]

TypeOK ==
    /\ nIn \in 0 .. MaxIn /\ userIn \in Seq(1 .. MaxIn) /\ userOpen \in BOOLEAN
    /\ cancelled \in BOOLEAN
    /\ consumer \in {"loop", "stdin", "drain", "done"}
    /\ consumerHas \in Seq(1 .. MaxIn) /\ Len(consumerHas) = (IF consumer = "stdin" THEN 1 ELSE 0)
    /\ stdinTx \in BOOLEAN /\ outRx \in BOOLEAN
    /\ stdinCh \in Seq(1 .. MaxIn) /\ Len(stdinCh) <= Cap
    /\ outCh \in [Stream -> Seq(1 .. MaxOut)] /\ \A s \in Stream : Len(outCh[s]) <= Cap
    /\ cargo \in {"select", "send", "out", "ok", "err"}
    /\ cargo = "send" => cargoHas \in Seq(ToWorker)
    /\ cargo = "out" => cargoHas \in Seq([type : {"Output"}, packet : Packet])
    /\ Len(cargoHas) = IF cargo \in {"send", "out"} THEN 1 ELSE 0
    /\ stdinOpen \in BOOLEAN /\ killSent \in BOOLEAN
    /\ toWorker \in Seq(ToWorker) /\ Len(toWorker) <= Cap
    /\ fromWorker \in Seq(FromWorker) /\ Len(fromWorker) <= Cap
    /\ worker \in {"up", "dead", "closed"}
    /\ child \in {"ready", "writing", "exited", "killed", "reported"} /\ childTo \in Stream
    /\ childIn \in Seq(1 .. MaxIn) /\ childEof \in BOOLEAN
    /\ written \in [Stream -> Seq(1 .. MaxOut)] /\ delivered \in [Stream -> Seq(1 .. MaxOut)]
    /\ result \in {"none", "end", "error", "abandoned"}

Init ==
    /\ nIn = 0 /\ userIn = <<>> /\ userOpen = TRUE
    /\ cancelled = FALSE
    /\ consumer = "loop" /\ consumerHas = <<>> /\ stdinTx = TRUE /\ outRx = TRUE
    /\ stdinCh = <<>> /\ outCh = [s \in Stream |-> <<>>]
    /\ cargo = "select" /\ cargoHas = <<>> /\ stdinOpen = TRUE /\ killSent = FALSE
    /\ toWorker = <<>> /\ fromWorker = <<>>
    /\ worker = "up" /\ child = "ready" /\ childTo = "stdout" /\ childIn = <<>> /\ childEof = FALSE
    /\ written = [s \in Stream |-> <<>>] /\ delivered = [s \in Stream |-> <<>>]
    /\ result = "none"

-----------------------------------------------------------------------------
(* The user, through the WebSocket's main loop. *)
UserStdin == /\ userOpen /\ nIn < MaxIn /\ Len(userIn) < Cap /\ consumer # "done"
             /\ nIn' = nIn + 1
             /\ userIn' = Append(userIn, nIn + 1)
             /\ UNCHANGED <<userOpen, cancelled, consumerVars, stdinCh, outCh, cargoVars,
                            toWorker, fromWorker, workerVars>>

UserStdinClose == /\ userOpen /\ userOpen' = FALSE
                  /\ UNCHANGED <<nIn, userIn, cancelled, consumerVars, stdinCh, outCh,
                                 cargoVars, toWorker, fromWorker, workerVars>>

\* ExecuteKill drops the token's DropGuard, and with it the sender of stdin.
UserKill == /\ ~cancelled /\ consumer # "done"
            /\ cancelled' = TRUE /\ userOpen' = FALSE
            /\ UNCHANGED <<nIn, userIn, consumerVars, stdinCh, outCh, cargoVars,
                           toWorker, fromWorker, workerVars>>

-----------------------------------------------------------------------------
(* handle_execute_inner *)
ConsumeStdin ==
    /\ consumer = "loop" /\ stdinTx
    /\ \/ /\ userIn # <<>>
          /\ consumer' = "stdin" /\ consumerHas' = <<Head(userIn)>>
          /\ userIn' = Tail(userIn)
          /\ UNCHANGED stdinTx
       \/ /\ userIn = <<>> /\ ~userOpen
          /\ stdinTx' = FALSE
          /\ UNCHANGED <<consumer, consumerHas, userIn>>
    /\ UNCHANGED <<nIn, userOpen, cancelled, outRx, delivered, result, stdinCh, outCh,
                   cargoVars, toWorker, fromWorker, workerVars>>

\* Variant: the future is dropped without cancelling the token.
FinishUncancelled(r) == /\ consumer' = "done" /\ consumerHas' = <<>> /\ result' = r
                        /\ stdinTx' = FALSE /\ outRx' = FALSE
                        /\ UNCHANGED cancelled
                        /\ userIn' = <<>> /\ userOpen' = FALSE

\* What dropping everything the consumer owns does: the CancelOnDropFuture
\* around the cargo task cancels the token.
Finish(r) == /\ consumer' = "done" /\ consumerHas' = <<>> /\ result' = r
             /\ stdinTx' = FALSE /\ outRx' = FALSE
             /\ cancelled' = TRUE
             /\ userIn' = <<>> /\ userOpen' = FALSE

CargoDone == cargo \in {"ok", "err"}

\* stdin_tx.send: room, or an error once the cargo task dropped its receiver.
SendStdin ==
    /\ consumer = "stdin"
    /\ \/ /\ ~CargoDone /\ Len(stdinCh) < Cap
          /\ stdinCh' = Append(stdinCh, consumerHas[1])
          /\ consumer' = "loop" /\ consumerHas' = <<>>
          /\ UNCHANGED <<userIn, userOpen, cancelled, stdinTx, outRx, result>>
       \/ /\ CargoDone
          /\ Finish("error")
          /\ UNCHANGED stdinCh
    /\ UNCHANGED <<nIn, delivered, outCh, cargoVars, toWorker, fromWorker, workerVars>>

\* The WebSocket's response channel is taken to have room: Session.tla is
\* about the case where it has not.
Deliver(s) == /\ outCh[s] # <<>>
              /\ delivered' = [delivered EXCEPT ![s] = Append(@, Head(outCh[s]))]
              /\ outCh' = [outCh EXCEPT ![s] = Tail(@)]

ConsumeOutput(s) ==
    /\ consumer = "loop"
    /\ Deliver(s)
    /\ UNCHANGED <<userVars, cancelled, consumer, consumerHas, stdinTx, outRx, result, stdinCh,
                   cargoVars, toWorker, fromWorker, workerVars>>

\* Variant: the response ends the session at once; what is left in the
\* channels is not looked at.
SkipDrain ==
    /\ consumer = "loop" /\ CargoDone
    /\ Finish(IF cargo = "ok" THEN "end" ELSE "error")
    /\ UNCHANGED <<nIn, delivered, stdinCh, outCh, cargoVars, toWorker, fromWorker, workerVars>>

TaskResponse ==
    /\ consumer = "loop" /\ CargoDone
    /\ consumer' = "drain"
    /\ UNCHANGED <<userVars, cancelled, consumerHas, stdinTx, outRx, delivered, result, stdinCh, outCh,
                   cargoVars, toWorker, fromWorker, workerVars>>

\* `while let Some(Some(_)) = rx.recv().now_or_never()`, stdout before stderr.
Drain(s) ==
    /\ consumer = "drain" /\ s \in Drained
    /\ s = "stderr" => outCh["stdout"] = <<>>
    /\ Deliver(s)
    /\ UNCHANGED <<userVars, cancelled, consumer, consumerHas, stdinTx, outRx, result, stdinCh,
                   cargoVars, toWorker, fromWorker, workerVars>>

\* The drain is over when recv() is not ready at once.  That is taken to mean
\* that the channels are empty; tokio may also make recv() pending because the
\* task has used up the budget of this poll.
EndSession ==
    /\ consumer = "drain"
    /\ \A s \in Drained : outCh[s] = <<>>
    /\ Finish(IF cargo = "ok" THEN "end" ELSE "error")
    /\ UNCHANGED <<nIn, delivered, stdinCh, outCh, cargoVars, toWorker, fromWorker, workerVars>>

\* The task is aborted (a newer execution, the end of the session), or finds
\* the response channel closed.
AbortConsumer ==
    /\ consumer # "done"
    /\ Finish("abandoned")
    /\ UNCHANGED <<nIn, delivered, stdinCh, outCh, cargoVars, toWorker, fromWorker, workerVars>>

-----------------------------------------------------------------------------
(* The task spawned by spawn_cargo_task.  Its select! takes any ready branch. *)
CargoCancelled ==
    /\ cargo = "select" /\ cancelled /\ ~killSent
    /\ killSent' = TRUE
    /\ cargo' = "send" /\ cargoHas' = <<[type |-> "Kill"]>>
    /\ UNCHANGED <<userVars, cancelled, consumerVars, stdinCh, outCh, stdinOpen,
                   toWorker, fromWorker, workerVars>>

CargoStdin ==
    /\ cargo = "select" /\ stdinOpen
    /\ \/ /\ stdinCh # <<>>
          /\ cargo' = "send" /\ cargoHas' = <<[type |-> "StdinPacket", data |-> Head(stdinCh)]>>
          /\ stdinCh' = Tail(stdinCh)
          /\ UNCHANGED stdinOpen
       \/ /\ stdinCh = <<>> /\ ~stdinTx
          /\ cargo' = "send" /\ cargoHas' = <<[type |-> "StdinClose"]>>
          /\ stdinOpen' = FALSE
          /\ UNCHANGED stdinCh
    /\ UNCHANGED <<userVars, cancelled, consumerVars, outCh, killSent,
                   toWorker, fromWorker, workerVars>>

\* Variant: a message that finds no room is dropped.
LossyCargoSend ==
    /\ cargo = "send"
    /\ \/ /\ worker # "closed"
          /\ toWorker' = IF Len(toWorker) < Cap THEN Append(toWorker, cargoHas[1]) ELSE toWorker
          /\ cargo' = "select"
       \/ /\ worker = "closed"
          /\ cargo' = "err"
          /\ UNCHANGED toWorker
    /\ cargoHas' = <<>>
    /\ UNCHANGED <<userVars, cancelled, consumerVars, stdinCh, outCh, stdinOpen, killSent,
                   fromWorker, workerVars>>

\* to_worker_tx.send: room, or an error once the io queue's writer is gone.
CargoSend ==
    /\ cargo = "send"
    /\ \/ /\ worker # "closed" /\ Len(toWorker) < Cap
          /\ toWorker' = Append(toWorker, cargoHas[1])
          /\ cargo' = "select"
       \/ /\ worker = "closed"
          /\ cargo' = "err"
          /\ UNCHANGED toWorker
    /\ cargoHas' = <<>>
    /\ UNCHANGED <<userVars, cancelled, consumerVars, stdinCh, outCh, stdinOpen, killSent,
                   fromWorker, workerVars>>

\* `Some(container_msg) = from_worker_rx.recv()`.  When the sender is gone the
\* pattern does not match and the branch is out of the race.  The `else` of
\* the select! would need every branch out; that of the fused `cancelled` never
\* is, since its pattern `()` always matches.  No step stands for the `else`.
CargoFromWorker ==
    /\ cargo = "select" /\ fromWorker # <<>>
    /\ LET m == Head(fromWorker) IN
         \/ m.type = "Output" /\ cargo' = "out" /\ cargoHas' = <<m>>
         \/ m.type = "ExecuteCommand" /\ cargo' = "ok" /\ UNCHANGED cargoHas
         \/ m.type = "Error" /\ cargo' = "err" /\ UNCHANGED cargoHas
    /\ fromWorker' = Tail(fromWorker)
    /\ UNCHANGED <<userVars, cancelled, consumerVars, stdinCh, outCh, stdinOpen, killSent,
                   toWorker, workerVars>>

\* stdout_tx.send and its siblings: room, or no receiver ("that's OK").
CargoOut ==
    /\ cargo = "out"
    /\ LET s == cargoHas[1].packet[1] IN
         \/ /\ outRx /\ Len(outCh[s]) < Cap
            /\ outCh' = [outCh EXCEPT ![s] = Append(@, cargoHas[1].packet[2])]
         \/ /\ ~outRx /\ UNCHANGED outCh
    /\ cargo' = "select" /\ cargoHas' = <<>>
    /\ UNCHANGED <<userVars, cancelled, consumerVars, stdinCh, stdinOpen, killSent,
                   toWorker, fromWorker, workerVars>>

-----------------------------------------------------------------------------
(* The worker and the child, as the coordinator sees them. *)
Running == child \in {"ready", "writing"}

\* Commands reach the process in order: a packet the child does not read
\* holds up what is behind it.
ChildReads ==
    /\ worker = "up" /\ child = "ready"
    /\ toWorker # <<>> /\ Head(toWorker).type = "StdinPacket"
    /\ childIn' = Append(childIn, Head(toWorker).data)
    /\ toWorker' = Tail(toWorker)
    /\ UNCHANGED <<userVars, cancelled, consumerVars, stdinCh, outCh, cargoVars,
                   fromWorker, worker, child, childTo, childEof, written>>

WorkerCommand ==
    /\ worker = "up" /\ toWorker # <<>>
    /\ LET m == Head(toWorker) IN
         \/ /\ m.type = "StdinPacket" /\ ~Running
            /\ UNCHANGED <<child, childEof>>
         \/ /\ m.type = "StdinClose" /\ childEof' = TRUE
            /\ UNCHANGED child
         \/ /\ m.type = "Kill" /\ child' = (IF Running THEN "killed" ELSE child)
            /\ UNCHANGED childEof
    /\ toWorker' = Tail(toWorker)
    /\ UNCHANGED <<userVars, cancelled, consumerVars, stdinCh, outCh, cargoVars,
                   fromWorker, worker, childTo, childIn, written>>

ChildWants(s) ==
    /\ worker = "up" /\ child = "ready" /\ NWritten < MaxOut
    /\ child' = "writing" /\ childTo' = s
    /\ UNCHANGED <<userVars, cancelled, consumerVars, stdinCh, outCh, cargoVars,
                   toWorker, fromWorker, worker, childIn, childEof, written>>

ChildWrites ==
    /\ worker = "up" /\ child = "writing" /\ Len(fromWorker) < Cap
    /\ fromWorker' = Append(fromWorker,
                            [type |-> "Output", packet |-> <<childTo, NWritten + 1>>])
    /\ written' = [written EXCEPT ![childTo] = Append(@, NWritten + 1)]
    /\ child' = "ready"
    /\ UNCHANGED <<userVars, cancelled, consumerVars, stdinCh, outCh, cargoVars,
                   toWorker, worker, childTo, childIn, childEof>>

ChildExits ==
    /\ worker = "up" /\ child = "ready"
    /\ child' = "exited"
    /\ UNCHANGED <<userVars, cancelled, consumerVars, stdinCh, outCh, cargoVars,
                   toWorker, fromWorker, worker, childTo, childIn, childEof, written>>

\* process_end has joined the output tasks: the response, or an error from one
\* of the worker's tasks, is the job's last message.
WorkerReports ==
    /\ worker = "up" /\ child \in {"exited", "killed"} /\ Len(fromWorker) < Cap
    /\ \E t \in {"ExecuteCommand", "Error"} :
          fromWorker' = Append(fromWorker, [type |-> t])
    /\ child' = "reported"
    /\ UNCHANGED <<userVars, cancelled, consumerVars, stdinCh, outCh, cargoVars,
                   toWorker, worker, childTo, childIn, childEof, written>>

\* The container or the worker in it dies.  The demultiplexer drops the job's
\* sender once it has passed on what came before.
WorkerDies ==
    /\ WorkerMayDie /\ worker = "up"
    /\ worker' = "dead"
    /\ child' = IF Running THEN "killed" ELSE child
    /\ UNCHANGED <<userVars, cancelled, consumerVars, stdinCh, outCh, cargoVars,
                   toWorker, fromWorker, childTo, childIn, childEof, written>>

\* The io queue's writer takes a message for the dead worker, fails to write it
\* and ends; its receiver goes with it.
IoQueueFails ==
    /\ worker = "dead" /\ toWorker # <<>>
    /\ worker' = "closed" /\ toWorker' = <<>>
    /\ UNCHANGED <<userVars, cancelled, consumerVars, stdinCh, outCh, cargoVars,
                   fromWorker, child, childTo, childIn, childEof, written>>

-----------------------------------------------------------------------------
Consumer == \/ ConsumeStdin \/ SendStdin \/ TaskResponse \/ EndSession
            \/ \E s \in Stream : ConsumeOutput(s) \/ Drain(s)
Cargo == \/ CargoCancelled \/ CargoStdin \/ CargoSend \/ CargoFromWorker
         \/ CargoOut
Worker == WorkerCommand \/ WorkerReports \/ ChildWrites \/ IoQueueFails
Child == ChildReads \/ ChildExits \/ \E s \in Stream : ChildWants(s)
User == UserStdin \/ UserStdinClose \/ UserKill

Next == Consumer \/ Cargo \/ Worker \/ Child \/ User \/ AbortConsumer \/ WorkerDies

Spec == Init /\ [][Next]_vars

\* The tasks of the server and of the worker run; nobody obliges the user to
\* act or the child to get anywhere, and abort and death are not promised.
\* CargoCancelled is strongly fair: the branches of select! are polled in a
\* random order, so one that stays ready is not overlooked for ever.
Fairness == /\ WF_vars(Consumer) /\ WF_vars(Cargo) /\ WF_vars(Worker)
            /\ SF_vars(CargoCancelled) /\ SF_vars(CargoFromWorker)
            /\ SF_vars(TaskResponse)

FairSpec == Spec /\ Fairness

-----------------------------------------------------------------------------
\* What the child reads from its stdin is what the user typed, in order and
\* without gaps, and its stdin is closed only after the last of it, however
\* the two forwarding tasks interleave.
StdinInOrder ==
    /\ IsPrefix(childIn, [i \in 1 .. nIn |-> i])
    /\ childEof /\ Running /\ ~cancelled => Len(childIn) = nIn

\* When the browser is told that the execution ended, it has been sent all of
\* the child's stdout and stderr, in order (the drain at the end of
\* handle_execute_inner).
OutputBeforeEnd ==
    result = "end" => \A s \in Drained : delivered[s] = written[s]

\* An execution that is cancelled, or that nobody follows any more, ends.
KillEnds == cancelled \/ consumer = "done" ~> CargoDone

\* That holds of every execution to which no stdin was sent and whose worker
\* lives: the child is killed and reported, and the cargo task stops, although
\* the output channels may be full.
CancelEnds == [](nIn = 0 /\ worker = "up") => KillEnds

\* An execution whose worker is gone does not wait for ever.
WorkerDeathNoticed == worker # "up" ~> CargoDone
=============================================================================
