----------------------------- MODULE Commander ------------------------------
(***************************************************************************)
(* coordinator.rs, `Commander`: the calls of one container (`one` and      *)
(* `many`), the demultiplexer task that routes the worker's messages back  *)
(* to them, and the two io queue threads between it and the worker.        *)
(*                                                                         *)
(*   call --- commands ---> demultiplexer --- inbox[c] ---> call           *)
(*     |                         ^                                         *)
(*     +---- toWorker -> worker -+ fromWorker                              *)
(*                                                                         *)
(* A call is one invocation.  Messages carry the job id they travel under  *)
(* and, for the properties only, the call they were made for and the       *)
(* number of the reply.                                                    *)
(***************************************************************************)
EXTENDS Naturals, Sequences

CONSTANTS One,        \* calls of Commander::one
          Many,       \* calls of Commander::many
          Cap,        \* capacity of every channel (8 in the code)
          MaxReplies, \* bound on the messages a job of a `many` call sends
          MaxInput    \* bound on what the caller of `many` sends after the request

ASSUME CommanderAssumption == /\ One \cap Many = {}
                              /\ Cap \in Nat \ {0} /\ MaxReplies \in Nat /\ MaxInput \in Nat

Call == One \cup Many

VARIABLES
    id,           \* Commander::id, the next job id
    job,          \* the id each call took
    stage,        \* where each call is, see Stage
    commands,     \* to_demultiplexer_tx: <<id, call>>
    acked,        \* calls that have an ack waiting for them
    input,        \* what the caller of a `many` call waits to send, see Input
    inputs,       \* the number of messages it has taken up to send
    commander,    \* "alive" until every handle of the container is dropped
    demux,        \* the demultiplexer: "select", "send", "ended", "duplicate"
    hand,         \* the message it waits to send, a sequence of at most one
    waiting,      \* its listeners for many messages: <<id, call>>
    waitingOnce,  \* its listeners for one message
    inbox,        \* per call, the channel or oneshot from the demultiplexer
    received,     \* per call, what it has been given
    toWorker, fromWorker,
    writer,       \* the output io queue: "up" or "gone"
    worker,       \* "up" or "dead"
    serving,      \* the jobs the worker is busy with: <<id, call>>
    sent,         \* per call, the number of messages the worker sent for it
    unread        \* per call, the stdin packets its program has not read

callVars == <<id, job, stage, input, inputs, commander>>
demuxVars == <<demux, hand, waiting, waitingOnce, acked>>
workerVars == <<writer, worker, serving, sent, unread>>
vars == <<callVars, commands, demuxVars, inbox, received, toWorker, fromWorker, workerVars>>

(***************************************************************************)
(*   new      not made yet              wait   `one` awaits the oneshot    *)
(*   listen   the Listen command waits  open   `many` returned; its caller *)
(*            for room                         reads the channel           *)
(*   ack      the ack is awaited        done   `one` has its answer        *)
(*   send     the request waits for     failed, dropped (the future or the *)
(*            room                             receiver was dropped)       *)
(***************************************************************************)
InCall == {"listen", "ack", "send", "wait"}
Live == InCall \cup {"open"}
Stage == Live \cup {"new", "done", "failed", "dropped"}

Job == Nat \X Call

\* A stdin packet, or one of StdinClose and Kill, for which nobody waits.
Input == {"StdinPacket", "Signal"}
ToWorker == [type : {"Request"} \cup Input, job : Job]
Message == [job : Nat, call : Call, n : Nat]
DemuxGone == demux \in {"ended", "duplicate"}

TypeOK ==
    /\ id \in Nat /\ job \in [Call -> Nat] /\ stage \in [Call -> Stage]
    /\ input \in [Call -> Input \cup {"none"}] /\ inputs \in [Call -> Nat]
    /\ commander \in {"alive", "dropped"}
    /\ commands \in Seq(Job) /\ Len(commands) <= Cap
    /\ demux \in {"select", "send", "ended", "duplicate"}
    /\ hand \in Seq(Message) /\ Len(hand) = (IF demux = "send" THEN 1 ELSE 0)
    /\ waiting \subseteq Job /\ waitingOnce \subseteq Job /\ acked \subseteq Call
    /\ inbox \in [Call -> Seq(Message)] /\ \A c \in Call : Len(inbox[c]) <= Cap
    /\ received \in [Call -> Seq(Message)]
    /\ toWorker \in Seq(ToWorker) /\ Len(toWorker) <= Cap
    /\ fromWorker \in Seq(Message) /\ Len(fromWorker) <= Cap
    /\ writer \in {"up", "gone"} /\ worker \in {"up", "dead"}
    /\ serving \subseteq Job /\ sent \in [Call -> Nat] /\ unread \in [Call -> Nat]

Init ==
    /\ id = 0 /\ job = [c \in Call |-> 0] /\ stage = [c \in Call |-> "new"]
    /\ input = [c \in Call |-> "none"] /\ inputs = [c \in Call |-> 0]
    /\ commander = "alive" /\ commands = <<>>
    /\ demux = "select" /\ hand = <<>>
    /\ waiting = {} /\ waitingOnce = {} /\ acked = {}
    /\ inbox = [c \in Call |-> <<>>] /\ received = [c \in Call |-> <<>>]
    /\ toWorker = <<>> /\ fromWorker = <<>>
    /\ writer = "up" /\ worker = "up" /\ serving = {}
    /\ sent = [c \in Call |-> 0] /\ unread = [c \in Call |-> 0]

-----------------------------------------------------------------------------
(* one and many *)
Move(c, from, to) == stage[c] = from /\ stage' = [stage EXCEPT ![c] = to]

\* Variant: the id is read in one step and advanced in another, by which time
\* a concurrent call may have read it too.
TornNextId(c) ==
    /\ commander = "alive"
    /\ Move(c, "new", "listen")
    /\ job' = [job EXCEPT ![c] = id]
    /\ id' \in {id, id + 1}
    /\ UNCHANGED <<input, inputs, commander, commands, demuxVars, inbox, received, toWorker, fromWorker,
                   workerVars>>

\* Commander::next_id, an atomic fetch_add.
NextId(c) ==
    /\ commander = "alive"
    /\ Move(c, "new", "listen")
    /\ job' = [job EXCEPT ![c] = id]
    /\ id' = id + 1
    /\ UNCHANGED <<input, inputs, commander, commands, demuxVars, inbox, received, toWorker, fromWorker,
                   workerVars>>

\* send_to_demultiplexer: the command goes out, or the receiver is gone.
SendCommand(c) ==
    /\ \/ /\ ~DemuxGone /\ Len(commands) < Cap
          /\ Move(c, "listen", "ack")
          /\ commands' = Append(commands, <<job[c], c>>)
       \/ /\ DemuxGone
          /\ Move(c, "listen", "failed")
          /\ UNCHANGED commands
    /\ UNCHANGED <<id, job, input, inputs, commander, demuxVars, inbox, received, toWorker, fromWorker,
                   workerVars>>

\* Variant: the request is sent without waiting for the listener to be there.
HastyAwaitAck(c) ==
    /\ Move(c, "ack", "send")
    /\ UNCHANGED <<id, job, input, inputs, commander, commands, demuxVars, inbox, received, toWorker,
                   fromWorker, workerVars>>

\* `ack_rx.await`: the ack, or the demultiplexer dropped it.
AwaitAck(c) ==
    /\ \/ c \in acked /\ Move(c, "ack", "send")
       \/ c \notin acked /\ DemuxGone /\ Move(c, "ack", "failed")
    /\ acked' = acked \ {c}
    /\ UNCHANGED <<id, job, input, inputs, commander, commands, demux, hand, waiting, waitingOnce, inbox, received, toWorker,
                   fromWorker, workerVars>>

\* MultiplexedSender::send of the request.
SendRequest(c) ==
    /\ \/ /\ writer = "up" /\ Len(toWorker) < Cap
          /\ Move(c, "send", IF c \in One THEN "wait" ELSE "open")
          /\ toWorker' = Append(toWorker, [type |-> "Request", job |-> <<job[c], c>>])
       \/ /\ writer = "gone"
          /\ Move(c, "send", "failed")
          /\ UNCHANGED toWorker
    /\ UNCHANGED <<id, job, input, inputs, commander, commands, demuxVars, inbox, received, fromWorker,
                   workerVars>>

\* `from_demultiplexer_rx.await` of `one`, and `recv` by the caller of `many`.
\* An empty channel ends when the demultiplexer dropped the other half.  A
\* caller of `many` that waits to send does not receive.
Receive(c) ==
    /\ stage[c] \in {"wait", "open"} /\ input[c] = "none"
    /\ \/ /\ inbox[c] # <<>>
          /\ received' = [received EXCEPT ![c] = Append(@, Head(inbox[c]))]
          /\ inbox' = [inbox EXCEPT ![c] = Tail(@)]
          /\ stage' = [stage EXCEPT ![c] = IF c \in One THEN "done" ELSE "open"]
       \/ /\ inbox[c] = <<>> /\ DemuxGone
          /\ stage' = [stage EXCEPT ![c] = "failed"]
          /\ UNCHANGED <<received, inbox>>
    /\ UNCHANGED <<id, job, input, inputs, commander, commands, demuxVars, toWorker, fromWorker, workerVars>>

\* The future of the call, or the receiver `many` returned, is dropped.
Abandon(c) ==
    /\ stage[c] \in Live
    /\ stage' = [stage EXCEPT ![c] = "dropped"]
    /\ input' = [input EXCEPT ![c] = "none"]
    /\ inbox' = [inbox EXCEPT ![c] = <<>>]
    /\ received' = [received EXCEPT ![c] = <<>>]
    /\ acked' = acked \ {c}
    /\ UNCHANGED <<id, job, inputs, commander, commands, demux, hand, waiting, waitingOnce,
                   toWorker, fromWorker, workerVars>>

\* The loop of the cargo task, the caller of `many`, takes up a stdin packet,
\* the end of stdin or a cancellation to send it to the worker,
TakeInput(c, k) ==
    /\ c \in Many /\ stage[c] = "open" /\ input[c] = "none" /\ inputs[c] < MaxInput
    /\ input' = [input EXCEPT ![c] = k]
    /\ inputs' = [inputs EXCEPT ![c] = @ + 1]
    /\ UNCHANGED <<id, job, stage, commander, commands, demuxVars, inbox, received, toWorker,
                   fromWorker, workerVars>>

\* and waits until there is room.
SendInput(c) ==
    /\ stage[c] = "open" /\ input[c] # "none"
    /\ writer = "up" /\ Len(toWorker) < Cap
    /\ toWorker' = Append(toWorker, [type |-> input[c], job |-> <<job[c], c>>])
    /\ input' = [input EXCEPT ![c] = "none"]
    /\ UNCHANGED <<id, job, stage, inputs, commander, commands, demuxVars, inbox, received,
                   fromWorker, workerVars>>

\* When the io queue is gone, the task fails and drops its receiver.
InputFails(c) == input[c] # "none" /\ writer = "gone" /\ Abandon(c)

\* The container is dropped.  The futures of `one` and `many` borrow it; the
\* receivers that `many` returned do not.
DropCommander ==
    /\ commander = "alive" /\ \A c \in Call : stage[c] \notin InCall
    /\ commander' = "dropped"
    /\ UNCHANGED <<id, job, stage, input, inputs, commands, demuxVars, inbox, received, toWorker, fromWorker,
                   workerVars>>

-----------------------------------------------------------------------------
(* Commander::demultiplex *)
Listening(l, j) == {w \in l : w[1] = j}

DemuxCommand ==
    /\ demux = "select" /\ commands # <<>>
    /\ LET j == Head(commands)[1]
           c == Head(commands)[2]
           old == Listening(IF c \in One THEN waitingOnce ELSE waiting, j)
       IN IF old = {}
            THEN /\ IF c \in One THEN /\ waitingOnce' = waitingOnce \cup {<<j, c>>}
                                      /\ UNCHANGED waiting
                                 ELSE /\ waiting' = waiting \cup {<<j, c>>}
                                      /\ UNCHANGED waitingOnce
                 /\ acked' = IF stage[c] \in Live THEN acked \cup {c} ELSE acked
                 /\ commands' = Tail(commands)
                 /\ UNCHANGED demux
            ELSE /\ demux' = "duplicate" /\ commands' = <<>>
                 /\ waiting' = {} /\ waitingOnce' = {}
                 /\ UNCHANGED acked
    /\ UNCHANGED <<callVars, hand, inbox, received, toWorker, fromWorker, workerVars>>

\* A message for a `one` call is handed over at once and its listener removed;
\* one for a `many` call is sent next, see DemuxSend; any other is logged.
DemuxMessage ==
    /\ demux = "select" /\ fromWorker # <<>>
    /\ LET m == Head(fromWorker)
           once == Listening(waitingOnce, m.job)
           many == Listening(waiting, m.job)
       IN \/ /\ once # {}
             /\ waitingOnce' = waitingOnce \ once
             /\ inbox' = [c \in Call |-> IF <<m.job, c>> \in once /\ stage[c] \in Live
                                           THEN Append(inbox[c], m) ELSE inbox[c]]
             /\ UNCHANGED <<demux, hand>>
          \/ /\ once = {} /\ many # {}
             /\ demux' = "send" /\ hand' = <<m>>
             /\ UNCHANGED <<waitingOnce, inbox>>
          \/ /\ once = {} /\ many = {}
             /\ UNCHANGED <<demux, hand, waitingOnce, inbox>>
    /\ fromWorker' = Tail(fromWorker)
    /\ UNCHANGED <<callVars, commands, acked, waiting, received, toWorker, workerVars>>

\* Variant: the demultiplexer does not notice that the receiver it waits for
\* is gone.
StubbornDemuxSend ==
    /\ demux = "send"
    /\ \E c \in Call :
          /\ <<hand[1].job, c>> \in waiting
          /\ stage[c] \in Live /\ Len(inbox[c]) < Cap
          /\ inbox' = [inbox EXCEPT ![c] = Append(@, hand[1])]
    /\ demux' = "select" /\ hand' = <<>>
    /\ UNCHANGED <<callVars, commands, acked, waiting, waitingOnce, received, toWorker,
                   fromWorker, workerVars>>

\* `waiter.send(msg).await.ok()`: nothing else is looked at until the receiver
\* has room or is gone.
DemuxSend ==
    /\ demux = "send"
    /\ \E c \in Call :
          /\ <<hand[1].job, c>> \in waiting
          /\ \/ /\ stage[c] \in Live /\ Len(inbox[c]) < Cap
                /\ inbox' = [inbox EXCEPT ![c] = Append(@, hand[1])]
             \/ stage[c] \notin Live /\ UNCHANGED inbox
    /\ demux' = "select" /\ hand' = <<>>
    /\ UNCHANGED <<callVars, commands, acked, waiting, waitingOnce, received, toWorker,
                   fromWorker, workerVars>>

\* Variant: only the listeners for many messages are collected.
HalfDemuxGc ==
    /\ demux = "select"
    /\ waiting' = {w \in waiting : stage[w[2]] \in Live}
    /\ UNCHANGED <<callVars, commands, acked, demux, hand, waitingOnce, inbox, received,
                   toWorker, fromWorker, workerVars>>

DemuxGc ==
    /\ demux = "select"
    /\ waiting' = {w \in waiting : stage[w[2]] \in Live}
    /\ waitingOnce' = {w \in waitingOnce : stage[w[2]] \in Live}
    /\ UNCHANGED <<callVars, commands, acked, demux, hand, inbox, received, toWorker,
                   fromWorker, workerVars>>

\* Either input has ended: the senders the task owns are dropped with it.
DemuxEnd ==
    /\ demux = "select"
    /\ \/ commander = "dropped" /\ commands = <<>>
       \/ worker = "dead" /\ fromWorker = <<>>
    /\ demux' = "ended"
    /\ waiting' = {} /\ waitingOnce' = {} /\ commands' = <<>>
    /\ UNCHANGED <<callVars, acked, hand, inbox, received, toWorker, fromWorker, workerVars>>

\* The demultiplexer is aborted, wherever it waits: with the container's task
\* when the container is dropped, or when that task's try_join! fails because
\* the io queue could not write to the worker.
DemuxAborted ==
    /\ commander = "dropped" \/ writer = "gone"
    /\ ~DemuxGone
    /\ demux' = "ended" /\ hand' = <<>>
    /\ waiting' = {} /\ waitingOnce' = {} /\ commands' = <<>>
    /\ UNCHANGED <<callVars, acked, inbox, received, toWorker, fromWorker, workerVars>>

-----------------------------------------------------------------------------
(* The io queue and the worker behind it *)

\* The worker takes messages in order, and waits with a stdin packet until the
\* program has read enough of the ones before; nothing behind it is taken.
IntakeBlocked ==
    /\ worker = "up" /\ toWorker # <<>>
    /\ Head(toWorker).type = "StdinPacket" /\ unread[Head(toWorker).job[2]] >= Cap

WriteRequest ==
    /\ writer = "up" /\ toWorker # <<>>
    /\ \/ /\ worker = "up" /\ ~IntakeBlocked
          /\ LET m == Head(toWorker)
             IN /\ serving' = IF m.type = "Request" THEN serving \cup {m.job} ELSE serving
                /\ unread' = IF m.type = "StdinPacket" THEN [unread EXCEPT ![m.job[2]] = @ + 1]
                                                       ELSE unread
          /\ toWorker' = Tail(toWorker)
          /\ UNCHANGED writer
       \/ /\ worker = "dead"
          /\ writer' = "gone" /\ toWorker' = <<>>
          /\ UNCHANGED <<serving, unread>>
    /\ UNCHANGED <<callVars, commands, demuxVars, inbox, received, fromWorker, worker, sent>>

\* The program of a job reads its stdin, if and when it likes.
ProgramReads(c) ==
    /\ worker = "up" /\ unread[c] > 0
    /\ unread' = [unread EXCEPT ![c] = @ - 1]
    /\ UNCHANGED <<callVars, commands, demuxVars, inbox, received, toWorker, fromWorker,
                   writer, worker, serving, sent>>

\* A job of `one` sends one message; a job of `many` sends messages as long as
\* it likes.  Jobs answer in any order.
WorkerReplies(j, c) ==
    /\ <<j, c>> \in serving /\ Len(fromWorker) < Cap
    /\ sent[c] < IF c \in One THEN 1 ELSE MaxReplies
    /\ fromWorker' = Append(fromWorker, [job |-> j, call |-> c, n |-> sent[c] + 1])
    /\ sent' = [sent EXCEPT ![c] = @ + 1]
    /\ serving' = IF c \in One THEN serving \ {<<j, c>>} ELSE serving
    /\ UNCHANGED <<callVars, commands, demuxVars, inbox, received, toWorker, writer, worker, unread>>

WorkerDies ==
    /\ worker = "up"
    /\ worker' = "dead" /\ serving' = {}
    /\ UNCHANGED <<callVars, commands, demuxVars, inbox, received, toWorker, fromWorker,
                   writer, sent, unread>>

-----------------------------------------------------------------------------
GiveInput(c) == (\E k \in Input : TakeInput(c, k)) \/ SendInput(c) \/ InputFails(c)
CallStep(c) == NextId(c) \/ SendCommand(c) \/ AwaitAck(c) \/ SendRequest(c)
               \/ Receive(c) \/ Abandon(c) \/ GiveInput(c)
Demultiplex == DemuxCommand \/ DemuxMessage \/ DemuxSend \/ DemuxGc \/ DemuxEnd
               \/ DemuxAborted
Worker == WriteRequest \/ WorkerDies \/ (\E j \in serving : WorkerReplies(j[1], j[2]))
          \/ (\E c \in Many : ProgramReads(c))

Next == (\E c \in Call : CallStep(c)) \/ DropCommander \/ Demultiplex \/ Worker

Spec == Init /\ [][Next]_vars

\* Tasks and threads run, select! does not overlook a ready branch for ever,
\* and a caller of `many` reads its receiver or drops it (the "Liveness
\* concerns" of the Coordinator).  Nobody is obliged to call, to send input, to
\* drop or to die, and no program to read its stdin.
Fairness ==
    /\ \A c \in Call : WF_vars(SendCommand(c)) /\ WF_vars(AwaitAck(c))
                       /\ WF_vars(SendRequest(c)) /\ WF_vars(Receive(c))
                       /\ WF_vars(SendInput(c)) /\ WF_vars(InputFails(c))
    /\ SF_vars(DemuxCommand) /\ SF_vars(DemuxMessage) /\ SF_vars(DemuxGc)
    /\ WF_vars(DemuxSend) /\ WF_vars(DemuxEnd)
    /\ WF_vars(WriteRequest)
    /\ \A c \in Call : WF_vars(\E j \in serving : j[2] = c /\ WorkerReplies(j[1], j[2]))

FairSpec == Spec /\ Fairness

-----------------------------------------------------------------------------
Reply(c, n) == [job |-> job[c], call |-> c, n |-> n]

\* What a call was given are the first replies to it, in order.
Delivered(c) ==
    /\ \A i \in 1 .. Len(received[c]) : received[c][i] = Reply(c, i)
    /\ \A i \in 1 .. Len(inbox[c]) : inbox[c][i] = Reply(c, Len(received[c]) + i)

InHand(c) == hand # <<>> /\ hand[1].call = c
Taken(c) == Len(received[c]) + Len(inbox[c]) + IF InHand(c) THEN 1 ELSE 0

\* The next one may be in the demultiplexer's hand; the others, up to the last
\* one sent, are in the worker's output, in order and each once.
OnTheWay(c) ==
    /\ InHand(c) => hand[1] = Reply(c, Taken(c))
    /\ Taken(c) <= sent[c]
    /\ \A n \in Taken(c) + 1 .. sent[c] :
          \E i \in 1 .. Len(fromWorker) : fromWorker[i] = Reply(c, n)
    /\ \A i \in 1 .. Len(fromWorker) : fromWorker[i].call = c =>
          /\ fromWorker[i] = Reply(c, fromWorker[i].n)
          /\ fromWorker[i].n \in Taken(c) + 1 .. sent[c]
          /\ \A k \in i + 1 .. Len(fromWorker) :
                fromWorker[k].call = c => fromWorker[i].n < fromWorker[k].n

\* As long as a call is waiting and the demultiplexer runs, every message the
\* worker sent for it has been given to it or is on its way, each once and in
\* order; none was dropped as having no listener, or went to another call.
NothingLost ==
    \A c \in Call :
        stage[c] \in {"wait", "open"} /\ ~DemuxGone => Delivered(c) /\ OnTheWay(c)

\* What a finished `one` call returns is the answer to its own request.
OwnAnswer ==
    \A c \in One : stage[c] = "done" =>
        received[c] = <<Reply(c, 1)>>

\* No two calls share an id: the demultiplexer never finds another listener under
\* the id it is told to listen for, which would end it for every call.
NoDuplicateId == demux # "duplicate"

\* A program that leaves its stdin unread does not hold up the worker's intake
\* for ever.
IntakeMoves == []<>~IntakeBlocked

\* Then a `one` call ends, whatever other calls do and even if the worker dies.
\* Without it, it need not: its request waits behind the packet.
OneReturns == IntakeMoves => \A c \in One : stage[c] = "listen" ~> stage[c] \notin Live

\* And the listener of a call that is over does not stay in the demultiplexer.
ListenersCollected ==
    IntakeMoves => \A c \in Call : stage[c] \in {"done", "failed", "dropped"}
        ~> \A w \in waiting \cup waitingOnce : w[2] # c
=============================================================================
