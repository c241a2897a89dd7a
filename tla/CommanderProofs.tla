-------------------------- MODULE CommanderProofs ---------------------------
(***************************************************************************)
(* Proofs about Commander for any sets of calls and any bounds.            *)
(*                                                                         *)
(* The argument: job ids are unique (IdsUnique), so that whatever travels  *)
(* under an id belongs to one call (RefsRight); a call that sends its      *)
(* request has its listener, and keeps it until its one answer is          *)
(* delivered or it is over (Heard); hence the demultiplexer moves the      *)
(* replies to a call along one by one (Delivered, OnTheWay).               *)
(***************************************************************************)
EXTENDS Commander, Functions, TLAPS

\* Stages of a call that has not sent its request.
Early == {"new", "listen", "ack", "send"}

\* The jobs that messages to the worker are about.
Jobs(q) == {m.job : m \in Range(q)}

IdsUnique ==
    /\ \A c \in Call : stage[c] # "new" => job[c] < id
    /\ \A c, d \in Call : stage[c] # "new" /\ stage[d] # "new" /\ job[c] = job[d] => c = d

Listener(c) == <<job[c], c>> \in (IF c \in One THEN waitingOnce ELSE waiting)

\* Listeners, requests and messages carry the id of the call they belong to,
\* and exist only once that call has come so far.
RefsRight ==
    /\ \A j \in Nat, c \in Call : <<j, c>> \in waiting \cup waitingOnce =>
          j = job[c] /\ stage[c] \notin {"new", "listen"}
    /\ \A j \in Nat, c \in Call : /\ <<j, c>> \in waiting => c \in Many
                                  /\ <<j, c>> \in waitingOnce => c \in One
    /\ \A j \in Nat, c \in Call : <<j, c>> \in Jobs(toWorker) \cup serving =>
          j = job[c] /\ stage[c] \notin Early
    /\ \A m \in Message : m \in Range(fromWorker) \cup Range(hand) =>
          m.job = job[m.call] /\ stage[m.call] \notin Early

\* A call sends one command; the ack and the listener come of it.
CommandsOnce ==
    /\ \A j \in Nat, c \in Call : <<j, c>> \in Range(commands) =>
          /\ j = job[c] /\ stage[c] \in {"ack", "failed", "dropped"}
          /\ c \notin acked /\ ~Listener(c)
    /\ \A i, k \in 1 .. Len(commands) : commands[i] = commands[k] => i = k

\* While the demultiplexer runs, a call that was acked has its listener, and
\* loses it only to its one answer.
Heard ==
    /\ \A c \in acked : stage[c] = "ack"
    /\ \A c \in Call : ~DemuxGone =>
          /\ c \in acked \/ stage[c] = "send" => Listener(c)
          /\ stage[c] \in {"wait", "open"} =>
                Listener(c) \/ (c \in One /\ Len(inbox[c]) > 0)

\* What is particular to `one`, and to calls that have not sent their request.
CallShape ==
    /\ \A c \in Call : stage[c] \in Early =>
          sent[c] = 0 /\ received[c] = <<>> /\ inbox[c] = <<>>
    /\ \A c \in One : /\ sent[c] <= 1 /\ stage[c] # "open"
                      /\ stage[c] = "wait" => received[c] = <<>>
                      /\ stage[c] = "done" => Len(received[c]) = 1
    /\ \A c \in Many : stage[c] # "wait"

AllDelivered == \A c \in Call : Delivered(c)

Inv == /\ TypeOK /\ IdsUnique /\ RefsRight /\ CommandsOnce /\ Heard /\ CallShape /\ AllDelivered
       /\ NothingLost /\ NoDuplicateId

-----------------------------------------------------------------------------
\* What is in a channel after a send ...
LEMMA Appended ==
    ASSUME NEW S, NEW q \in Seq(S), NEW m \in S, NEW r, r = Append(q, m)
    PROVE  /\ r \in Seq(S) /\ Len(r) = Len(q) + 1 /\ Len(q) \in Nat
           /\ Range(q) \subseteq S
           /\ r[Len(q) + 1] = m
           /\ \A i \in 1 .. Len(q) : i \in 1 .. Len(r) /\ r[i] = q[i] /\ r[i] \in Range(q)
           /\ \A i \in 1 .. Len(r) : \/ i \in 1 .. Len(q) /\ r[i] = q[i] /\ r[i] \in Range(q)
                                     \/ i = Len(q) + 1 /\ r[i] = m
  <1>1. /\ r \in Seq(S) /\ Len(r) = Len(q) + 1 /\ Len(q) \in Nat /\ r[Len(q) + 1] = m
        /\ \A i \in 1 .. Len(q) : r[i] = q[i] /\ q[i] \in S
        /\ DOMAIN q = 1 .. Len(q) /\ DOMAIN r = 1 .. Len(r)
    OBVIOUS
  <1>2. Range(q) \subseteq S
    BY <1>1 DEF Range
  <1>3. \A i \in 1 .. Len(q) : q[i] \in Range(q)
    BY <1>1 DEF Range
  <1> QED
    BY <1>1, <1>2, <1>3

\* The same by index.
LEMMA AppendedIndex ==
    ASSUME NEW S, NEW q \in Seq(S), NEW m \in S, NEW r, r = Append(q, m)
    PROVE  /\ Len(r) = Len(q) + 1
           /\ \A i \in 1 .. Len(r) : \/ i \in 1 .. Len(q) /\ r[i] = q[i]
                                     \/ i = Len(q) + 1 /\ r[i] = m
  <1>1. /\ r \in Seq(S) /\ Len(r) = Len(q) + 1 /\ Len(q) \in Nat /\ r[Len(q) + 1] = m
        /\ \A i \in 1 .. Len(q) : r[i] = q[i] /\ q[i] \in S
    OBVIOUS
  <1> QED
    BY <1>1

\* The set of messages in a channel after a send,
LEMMA AppendedRange ==
    ASSUME NEW S, NEW q \in Seq(S), NEW m \in S
    PROVE  Range(Append(q, m)) = Range(q) \cup {m}
  <1>1. PICK r : r = Append(q, m)
    OBVIOUS
  <1>2. /\ r \in Seq(S) /\ Len(r) = Len(q) + 1 /\ Len(q) \in Nat /\ r[Len(q) + 1] = m
        /\ \A i \in 1 .. Len(q) : r[i] = q[i] /\ q[i] \in S
        /\ DOMAIN q = 1 .. Len(q) /\ DOMAIN r = 1 .. Len(r)
    BY <1>1
  <1>3. Range(r) = Range(q) \cup {m}
    BY <1>2 DEF Range
  <1> QED
    BY <1>1, <1>3

\* ... and after a receive.
LEMMA Received ==
    ASSUME NEW S, NEW q \in Seq(S), q # <<>>, NEW r, r = Tail(q)
    PROVE  /\ r \in Seq(S) /\ Len(r) = Len(q) - 1 /\ Len(q) \in Nat /\ Len(q) > 0
           /\ Head(q) = q[1] /\ 1 \in 1 .. Len(q) /\ Head(q) \in S
           /\ Head(q) \in Range(q) /\ Range(r) \subseteq Range(q) /\ Range(q) \subseteq S
           /\ \A i \in 1 .. Len(r) : i + 1 \in 1 .. Len(q) /\ r[i] = q[i + 1] /\ r[i] \in Range(r)
           /\ \A i \in 1 .. Len(q) : i # 1 => i - 1 \in 1 .. Len(r) /\ r[i - 1] = q[i]
  <1>1. /\ r \in Seq(S) /\ Len(r) = Len(q) - 1 /\ Len(q) \in Nat /\ Len(q) > 0
        /\ Head(q) = q[1] /\ 1 \in 1 .. Len(q) /\ Head(q) \in S
        /\ \A i \in 1 .. Len(r) : i + 1 \in 1 .. Len(q) /\ r[i] = q[i + 1]
        /\ \A i \in 1 .. Len(q) : q[i] \in S
        /\ DOMAIN q = 1 .. Len(q) /\ DOMAIN r = 1 .. Len(r)
    OBVIOUS
  <1>2. Head(q) \in Range(q) /\ Range(r) \subseteq Range(q) /\ Range(q) \subseteq S
    BY <1>1 DEF Range
  <1>3. \A i \in 1 .. Len(r) : r[i] \in Range(r)
    BY <1>1 DEF Range
  <1>4. \A i \in 1 .. Len(q) : i # 1 => i - 1 \in 1 .. Len(r) /\ r[i - 1] = q[i]
    BY <1>1
  <1> QED
    BY <1>1, <1>2, <1>3, <1>4

\* in an empty channel,
LEMMA EmptyRange == Range(<<>>) = {}
  BY DEF Range

\* and in one that holds a single message.
LEMMA OneElement ==
    ASSUME NEW S, NEW q \in Seq(S), Len(q) = 1
    PROVE  q # <<>> /\ q[1] \in S /\ Range(q) = {q[1]}
  <1>1. q # <<>>
    BY Len(q) # 0
  <1>2. q[1] \in S
    BY 1 \in 1 .. Len(q)
  <1>3. DOMAIN q = 1 .. Len(q) /\ 1 \in 1 .. Len(q) /\ \A i \in 1 .. Len(q) : i = 1
    OBVIOUS
  <1>4. Range(q) = {q[1]}
    BY <1>3 DEF Range
  <1> QED
    BY <1>1, <1>2, <1>4

\* The demultiplexer's hand.
LEMMA HandHolds ==
    ASSUME TypeOK
    PROVE  /\ demux = "send" => hand # <<>> /\ hand[1] \in Message /\ Range(hand) = {hand[1]}
           /\ demux # "send" => hand = <<>> /\ Range(hand) = {}
  <1>1. CASE demux = "send"
    <2>1. hand \in Seq(Message) /\ Len(hand) = 1
      BY <1>1 DEF TypeOK
    <2> QED
      BY <1>1, <2>1, OneElement
  <1>2. CASE demux # "send"
    <2>1. hand \in Seq(Message) /\ Len(hand) = 0
      BY <1>2 DEF TypeOK
    <2>2. hand = <<>>
      BY <2>1
    <2>3. Range(hand) = {}
      BY <2>2, EmptyRange
    <2> QED
      BY <1>2, <2>2, <2>3
  <1> QED
    BY <1>1, <1>2

\* A call takes one id, and its stages follow one another.
LEMMA Progress ==
    ASSUME TypeOK, Next, NEW c \in Call
    PROVE  /\ stage[c] # "new" => stage'[c] # "new" /\ job'[c] = job[c]
           /\ stage[c] \notin {"new", "listen"} => stage'[c] \notin {"new", "listen"}
           /\ stage[c] \notin Early => stage'[c] \notin Early
  <1> USE DEF TypeOK, callVars, Early, Move
  <1>1. ASSUME NEW d \in Call, CallStep(d)
        PROVE  /\ stage[c] # "new" => stage'[c] # "new" /\ job'[c] = job[c]
               /\ stage[c] \notin {"new", "listen"} => stage'[c] \notin {"new", "listen"}
               /\ stage[c] \notin Early => stage'[c] \notin Early
    BY <1>1 DEF CallStep, NextId, SendCommand, AwaitAck, SendRequest, Receive, Abandon,
                GiveInput, TakeInput, SendInput, InputFails, Live
  <1>2. CASE DropCommander \/ Demultiplex \/ Worker
    <2>1. UNCHANGED <<stage, job>>
      BY <1>2 DEF DropCommander, Demultiplex, DemuxCommand, DemuxMessage, DemuxSend, DemuxGc,
                  DemuxEnd, DemuxAborted, Worker, WriteRequest, WorkerDies, ProgramReads, WorkerReplies
    <2> QED
      BY <2>1
  <1> QED
    BY <1>1, <1>2 DEF Next

\* No two calls take the same id.
LEMMA IdsStep ==
    ASSUME TypeOK, IdsUnique, Next
    PROVE  IdsUnique'
  <1>1. ASSUME NEW c \in Call, NextId(c) PROVE IdsUnique'
    <2>1. /\ stage'[c] = "listen" /\ job'[c] = id /\ id' = id + 1
          /\ \A d \in Call : d # c => stage'[d] = stage[d] /\ job'[d] = job[d]
      BY <1>1 DEF NextId, Move, TypeOK
    <2>2. id \in Nat /\ \A d \in Call : job[d] \in Nat
      BY DEF TypeOK
    <2>3. \A d \in Call : stage'[d] # "new" => job'[d] < id'
      BY <2>1, <2>2 DEF IdsUnique
    <2>4. \A d, e \in Call : stage'[d] # "new" /\ stage'[e] # "new" /\ job'[d] = job'[e] => d = e
      BY <2>1, <2>2 DEF IdsUnique
    <2> QED
      BY <2>3, <2>4 DEF IdsUnique
  <1>2. ASSUME \A c \in Call : ~NextId(c) PROVE IdsUnique'
    <2>1. UNCHANGED <<id, job>> /\ \A c \in Call : stage'[c] = "new" <=> stage[c] = "new"
      <3>1. ASSUME NEW d \in Call, CallStep(d)
            PROVE  UNCHANGED <<id, job>> /\ \A c \in Call : stage'[c] = "new" <=> stage[c] = "new"
        BY <1>2, <3>1 DEF CallStep, SendCommand, AwaitAck, SendRequest, Receive, Abandon,
                          GiveInput, TakeInput, SendInput, InputFails,
                          Live, InCall, Move, TypeOK
      <3>2. CASE DropCommander \/ Demultiplex \/ Worker
        BY <3>2 DEF DropCommander, Demultiplex, DemuxCommand, DemuxMessage, DemuxSend, DemuxGc,
                    DemuxEnd, DemuxAborted, Worker, WriteRequest, WorkerDies, ProgramReads,
                  WorkerReplies, callVars
      <3> QED
        BY <3>1, <3>2 DEF Next
    <2> QED
      BY <2>1 DEF IdsUnique
  <1> QED
    BY <1>1, <1>2

-----------------------------------------------------------------------------
\* A listener comes of a command,
LEMMA ListenersFrom ==
    ASSUME TypeOK, Next
    PROVE  /\ \A x \in waiting' : x \in waiting \/ (x \in Range(commands) /\ x[2] \notin One)
           /\ \A x \in waitingOnce' : x \in waitingOnce \/ (x \in Range(commands) /\ x[2] \in One)
  <1> USE DEF demuxVars
  <1>1. ASSUME NEW c \in Call, CallStep(c) PROVE UNCHANGED <<waiting, waitingOnce>>
    BY <1>1 DEF CallStep, NextId, SendCommand, AwaitAck, SendRequest, Receive, Abandon,
                GiveInput, TakeInput, SendInput, InputFails
  <1>2. CASE DropCommander \/ Worker
    BY <1>2 DEF DropCommander, Worker, WriteRequest, WorkerDies, ProgramReads, WorkerReplies
  <1>3. CASE DemuxCommand
    <2>1. Head(commands) \in Range(commands) /\ Head(commands) \in Job
      BY <1>3, Received DEF DemuxCommand, TypeOK
    <2>2. Head(commands) = <<Head(commands)[1], Head(commands)[2]>>
      BY <2>1 DEF Job
    <2> QED
      BY <1>3, <2>1, <2>2 DEF DemuxCommand
  <1>4. CASE DemuxMessage \/ DemuxSend \/ DemuxGc \/ DemuxEnd \/ DemuxAborted
    BY <1>4 DEF DemuxMessage, DemuxSend, DemuxGc, DemuxEnd, DemuxAborted
  <1> QED
    BY <1>1, <1>2, <1>3, <1>4 DEF Next, Demultiplex

\* a request, and what follows it, of the call that sends it,
LEMMA RequestsFrom ==
    ASSUME TypeOK, Next, NEW x \in Jobs(toWorker') \cup serving'
    PROVE  \/ x \in Jobs(toWorker) \cup serving
           \/ \E c \in Call : /\ stage[c] \in {"send", "open"} /\ stage'[c] \notin Early
                              /\ x = <<job[c], c>> /\ job'[c] = job[c]
  <1> USE DEF workerVars
  <1>1. ASSUME UNCHANGED <<toWorker, serving>> PROVE x \in Jobs(toWorker) \cup serving
    BY <1>1
  <1>2. ASSUME NEW c \in Call, NEW k \in {"Request"} \cup Input,
               toWorker' = Append(toWorker, [type |-> k, job |-> <<job[c], c>>]),
               stage[c] \in {"send", "open"}, stage'[c] \notin Early, UNCHANGED <<serving, job>>
        PROVE  \/ x \in Jobs(toWorker) \cup serving
               \/ \E d \in Call : /\ stage[d] \in {"send", "open"} /\ stage'[d] \notin Early
                                  /\ x = <<job[d], d>> /\ job'[d] = job[d]
    <2>1. PICK m \in ToWorker : m = [type |-> k, job |-> <<job[c], c>>]
      BY DEF TypeOK, Job, ToWorker
    <2>2. toWorker \in Seq(ToWorker) /\ toWorker' = Append(toWorker, m) /\ m.job = <<job[c], c>>
      BY <1>2, <2>1 DEF TypeOK
    <2>3. Range(toWorker') = Range(toWorker) \cup {m}
      BY <2>2, AppendedRange
    <2>4. x \in Jobs(toWorker') => x \in Jobs(toWorker) \/ x = m.job
      BY <2>3 DEF Jobs
    <2> QED
      BY <1>2, <2>2, <2>4
  <1>3. ASSUME NEW c \in Call, SendRequest(c)
        PROVE  \/ UNCHANGED <<toWorker, serving>>
               \/ /\ toWorker' = Append(toWorker, [type |-> "Request", job |-> <<job[c], c>>])
                  /\ stage[c] \in {"send", "open"} /\ stage'[c] \notin Early
                  /\ UNCHANGED <<serving, job>>
    BY <1>3 DEF SendRequest, Move, TypeOK, Early
  <1>4. ASSUME NEW c \in Call, SendInput(c)
        PROVE  /\ toWorker' = Append(toWorker, [type |-> input[c], job |-> <<job[c], c>>])
               /\ input[c] \in Input
               /\ stage[c] \in {"send", "open"} /\ stage'[c] \notin Early
               /\ UNCHANGED <<serving, job>>
    BY <1>4 DEF SendInput, TypeOK, Early
  <1>5. ASSUME NEW c \in Call, CallStep(c), ~SendRequest(c), ~SendInput(c)
        PROVE  UNCHANGED <<toWorker, serving>>
    BY <1>5 DEF CallStep, NextId, SendCommand, AwaitAck, Receive, Abandon, GiveInput, TakeInput,
                InputFails
  <1>6. CASE DropCommander \/ Demultiplex
    <2>1. UNCHANGED <<toWorker, serving>>
      BY <1>6 DEF DropCommander, Demultiplex, DemuxCommand, DemuxMessage, DemuxSend, DemuxGc,
                  DemuxEnd, DemuxAborted
    <2> QED
      BY <2>1
  <1>7. CASE WriteRequest
    <2>1. /\ Range(Tail(toWorker)) \subseteq Range(toWorker) /\ Head(toWorker) \in Range(toWorker)
      BY <1>7, Received DEF WriteRequest, TypeOK
    <2>2. Jobs(Tail(toWorker)) \subseteq Jobs(toWorker) /\ Head(toWorker).job \in Jobs(toWorker)
      BY <2>1 DEF Jobs
    <2>3. Jobs(<<>>) = {}
      BY EmptyRange DEF Jobs
    <2> QED
      BY <1>7, <2>2, <2>3 DEF WriteRequest
  <1>8. CASE WorkerDies \/ (\E j \in serving : WorkerReplies(j[1], j[2]))
             \/ (\E c \in Many : ProgramReads(c))
    <2>1. toWorker' = toWorker /\ serving' \subseteq serving
      BY <1>8 DEF WorkerDies, ProgramReads, WorkerReplies
    <2> QED
      BY <2>1
  <1>9. ASSUME NEW c \in Call, CallStep(c)
        PROVE  \/ x \in Jobs(toWorker) \cup serving
               \/ \E d \in Call : /\ stage[d] \in {"send", "open"} /\ stage'[d] \notin Early
                                  /\ x = <<job[d], d>> /\ job'[d] = job[d]
    <2>1. CASE UNCHANGED <<toWorker, serving>>
      BY <1>1, <2>1
    <2>2. CASE SendRequest(c) /\ ~UNCHANGED <<toWorker, serving>>
      BY <1>2, <1>3, <2>2
    <2>3. CASE SendInput(c)
      BY <1>2, <1>4, <2>3
    <2> QED
      BY <1>5, <1>9, <2>1, <2>2, <2>3
  <1> QED
    BY <1>6, <1>7, <1>8, <1>9 DEF Next, Worker

\* and a message of a request the worker serves.
LEMMA MessagesFrom ==
    ASSUME TypeOK, Next, NEW m \in Range(fromWorker') \cup Range(hand')
    PROVE  \/ m \in Range(fromWorker) \cup Range(hand)
           \/ m \in Message /\ <<m.job, m.call>> \in serving /\ UNCHANGED <<stage, job>>
  <1> USE DEF demuxVars
  <1>1. ASSUME NEW c \in Call, CallStep(c) PROVE UNCHANGED <<fromWorker, hand>>
    BY <1>1 DEF CallStep, NextId, SendCommand, AwaitAck, SendRequest, Receive, Abandon,
                GiveInput, TakeInput, SendInput, InputFails
  <1>2. CASE DropCommander \/ WriteRequest \/ WorkerDies \/ (\E c \in Many : ProgramReads(c))
    BY <1>2 DEF DropCommander, WriteRequest, WorkerDies, ProgramReads
  <1>3. CASE DemuxCommand \/ DemuxGc \/ DemuxEnd
    BY <1>3 DEF DemuxCommand, DemuxGc, DemuxEnd
  <1>4. CASE DemuxSend \/ DemuxAborted
    BY <1>4, EmptyRange DEF DemuxSend, DemuxAborted
  <1>5. CASE DemuxMessage
    <2>1. Range(Tail(fromWorker)) \subseteq Range(fromWorker) /\ Head(fromWorker) \in Range(fromWorker)
      BY <1>5, Received DEF DemuxMessage, TypeOK
    <2>2. Range(<<Head(fromWorker)>>) = {Head(fromWorker)}
      BY DEF Range
    <2> QED
      BY <1>5, <2>1, <2>2 DEF DemuxMessage
  <1>6. ASSUME NEW x \in serving, WorkerReplies(x[1], x[2])
        PROVE  \/ m \in Range(fromWorker) \cup Range(hand)
               \/ m \in Message /\ <<m.job, m.call>> \in serving /\ UNCHANGED <<stage, job>>
    <2>1. x \in Nat \X Call /\ x[1] \in Nat /\ x[2] \in Call /\ x = <<x[1], x[2]>>
      BY DEF TypeOK, Job
    <2> DEFINE new == [job |-> x[1], call |-> x[2], n |-> sent[x[2]] + 1]
    <2>2. new \in Message /\ <<new.job, new.call>> \in serving
      <3>1. sent[x[2]] + 1 \in Nat
        BY <2>1 DEF TypeOK
      <3> QED
        BY <2>1, <3>1 DEF Message
    <2>3. fromWorker' = Append(fromWorker, new) /\ UNCHANGED <<stage, job, hand>>
      BY <1>6 DEF WorkerReplies, callVars
    <2> HIDE DEF new
    <2>4. fromWorker \in Seq(Message)
      BY DEF TypeOK
    <2>5. Range(fromWorker') = Range(fromWorker) \cup {new}
      <3>1. Range(Append(fromWorker, new)) = Range(fromWorker) \cup {new}
        BY <2>2, <2>4, AppendedRange
      <3> QED
        BY <2>3, <3>1
    <2> QED
      BY <2>2, <2>3, <2>5
  <1> QED
    BY <1>1, <1>2, <1>3, <1>4, <1>5, <1>6 DEF Next, Demultiplex, Worker

\* So they keep belonging to the call whose id they carry.
LEMMA RefsStep ==
    ASSUME TypeOK, RefsRight, CommandsOnce, Next
    PROVE  RefsRight'
  <1>1. ASSUME NEW j \in Nat, NEW c \in Call, <<j, c>> \in waiting' \cup waitingOnce'
        PROVE  j = job'[c] /\ stage'[c] \notin {"new", "listen"}
    <2>1. <<j, c>> \in waiting \cup waitingOnce \/ <<j, c>> \in Range(commands)
      BY <1>1, ListenersFrom
    <2>2. j = job[c] /\ stage[c] \notin {"new", "listen"}
      BY <2>1 DEF RefsRight, CommandsOnce
    <2> QED
      BY <2>2, Progress
  <1>2. ASSUME NEW j \in Nat, NEW c \in Call
        PROVE  (<<j, c>> \in waiting' => c \in Many) /\ (<<j, c>> \in waitingOnce' => c \in One)
    <2>1. <<j, c>>[2] = c
      OBVIOUS
    <2> QED
      BY <2>1, ListenersFrom DEF RefsRight, Call
  <1>3. ASSUME NEW j \in Nat, NEW c \in Call, <<j, c>> \in Jobs(toWorker') \cup serving'
        PROVE  j = job'[c] /\ stage'[c] \notin Early
    <2>1. CASE <<j, c>> \in Jobs(toWorker) \cup serving
      BY <2>1, Progress DEF RefsRight, Early
    <2>2. CASE \E d \in Call : /\ stage[d] \in {"send", "open"} /\ stage'[d] \notin Early
                               /\ <<j, c>> = <<job[d], d>> /\ job'[d] = job[d]
      BY <2>2
    <2> QED
      BY <1>3, <2>1, <2>2, RequestsFrom
  <1>4. ASSUME NEW m \in Message, m \in Range(fromWorker') \cup Range(hand')
        PROVE  m.job = job'[m.call] /\ stage'[m.call] \notin Early
    <2>1. m.call \in Call /\ m.job \in Nat
      BY DEF Message
    <2>2. m.job = job[m.call] /\ stage[m.call] \notin Early
      BY <1>4, <2>1, MessagesFrom DEF RefsRight
    <2> QED
      BY <2>1, <2>2, Progress DEF Early
  <1> QED
    BY <1>1, <1>2, <1>3, <1>4 DEF RefsRight

\* The listener a message is given to is the one of the call it was made for.
LEMMA MessageOwner ==
    ASSUME TypeOK, IdsUnique, RefsRight, NEW m \in Range(fromWorker) \cup Range(hand),
           NEW c \in Call, <<m.job, c>> \in waiting \cup waitingOnce
    PROVE  m \in Message /\ m.call = c /\ m.job = job[c] /\ stage[c] \notin Early
  <1>1. m \in Message
    BY DEF TypeOK, Range
  <1>2. m.call \in Call /\ m.job \in Nat
    BY <1>1 DEF Message
  <1>3. m.job = job[m.call] /\ stage[m.call] \notin Early
    BY <1>1 DEF RefsRight
  <1>4. m.job = job[c] /\ stage[c] # "new"
    BY <1>2 DEF RefsRight
  <1> QED
    BY <1>1, <1>2, <1>3, <1>4 DEF IdsUnique, Early

\* The command of a call that is next has no other command of it behind it.
LEMMA HeadCommand ==
    ASSUME TypeOK, CommandsOnce, commands # <<>>
    PROVE  \E c \in Call :
              /\ Head(commands) = <<job[c], c>> /\ Head(commands) \in Range(commands)
              /\ Head(commands) \notin Range(Tail(commands))
              /\ Range(Tail(commands)) \subseteq Range(commands)
  <1>0. PICK t : t = Tail(commands)
    OBVIOUS
  <1>1. commands \in Seq(Job)
    BY DEF TypeOK
  <1>2. /\ t \in Seq(Job) /\ Head(commands) = commands[1] /\ 1 \in 1 .. Len(commands)
        /\ Head(commands) \in Job /\ Head(commands) \in Range(commands)
        /\ Range(t) \subseteq Range(commands)
        /\ \A i \in 1 .. Len(t) : i + 1 \in 1 .. Len(commands) /\ t[i] = commands[i + 1]
    <2>1. /\ t \in Seq(Job) /\ Head(commands) = commands[1] /\ 1 \in 1 .. Len(commands)
          /\ Head(commands) \in Job
          /\ \A i \in 1 .. Len(t) : i + 1 \in 1 .. Len(commands) /\ t[i] = commands[i + 1]
      BY <1>0, <1>1
    <2>2. Head(commands) \in Range(commands) /\ Range(t) \subseteq Range(commands)
      BY <1>0, <1>1, Received
    <2> QED
      BY <2>1, <2>2
  <1>3. PICK j \in Nat, c \in Call : Head(commands) = <<j, c>>
    BY <1>2 DEF Job
  <1>4. j = job[c]
    <2>1. <<j, c>> \in Range(commands)
      BY <1>2, <1>3
    <2> QED
      BY <2>1 DEF CommandsOnce
  <1>5. \A i \in 1 .. Len(t) : t[i] # Head(commands)
    <2>1. SUFFICES ASSUME NEW i \in 1 .. Len(t), t[i] = Head(commands) PROVE FALSE
      OBVIOUS
    <2>2. i + 1 = 1
      BY <1>2, <2>1 DEF CommandsOnce
    <2> QED
      BY <2>2
  <1>6. Head(commands) \notin Range(t)
    BY <1>2, <1>5 DEF Range
  <1> QED
    BY <1>0, <1>2, <1>3, <1>4, <1>6

\* No call is ever found to be listened for already.
LEMMA DuplicateStep ==
    ASSUME TypeOK, IdsUnique, RefsRight, CommandsOnce, NoDuplicateId, Next
    PROVE  NoDuplicateId'
  <1>1. CASE DemuxCommand
    <2>1. PICK c \in Call : Head(commands) = <<job[c], c>> /\ <<job[c], c>> \in Range(commands)
      BY <1>1, HeadCommand DEF DemuxCommand
    <2>2. job[c] \in Nat /\ ~Listener(c) /\ stage[c] # "new"
      BY <2>1 DEF CommandsOnce, TypeOK
    <2>3. ASSUME NEW w \in (IF c \in One THEN waitingOnce ELSE waiting), w[1] = job[c] PROVE FALSE
      <3>1. PICK d \in Call : w = <<job[c], d>>
        BY <2>3 DEF TypeOK, Job
      <3>2. job[d] = job[c] /\ stage[d] # "new"
        BY <2>2, <2>3, <3>1 DEF RefsRight
      <3>3. d = c
        BY <2>2, <3>2 DEF IdsUnique
      <3> QED
        BY <2>2, <2>3, <3>1, <3>3 DEF Listener
    <2>4. Head(commands)[1] = job[c] /\ Head(commands)[2] = c
      BY <2>1
    <2>5. Listening(IF c \in One THEN waitingOnce ELSE waiting, job[c]) = {}
      BY <2>3 DEF Listening
    <2> QED
      BY <1>1, <2>4, <2>5 DEF DemuxCommand, NoDuplicateId
  <1>2. CASE ~DemuxCommand
    <2>1. ASSUME NEW c \in Call, CallStep(c) PROVE UNCHANGED demux
      BY <2>1 DEF CallStep, NextId, SendCommand, AwaitAck, SendRequest, Receive, Abandon,
                  GiveInput, TakeInput, SendInput, InputFails, demuxVars
    <2>2. CASE DropCommander \/ Demultiplex \/ Worker
      BY <1>2, <2>2 DEF DropCommander, Demultiplex, DemuxMessage, DemuxSend, DemuxGc, NoDuplicateId,
                  DemuxEnd, DemuxAborted, Worker, WriteRequest, WorkerDies, ProgramReads,
                  WorkerReplies, demuxVars
    <2> QED
      BY <2>1, <2>2 DEF Next, NoDuplicateId
  <1> QED
    BY <1>1, <1>2

\* A call has at most one command under way, and none once it is heard.
LEMMA CommandsStep ==
    ASSUME TypeOK, IdsUnique, RefsRight, CommandsOnce, Heard, Next
    PROVE  CommandsOnce'
  <1> USE DEF demuxVars, callVars
  \* Steps that leave the commands alone.
  <1>1. ASSUME UNCHANGED commands,
               \A c \in Call : stage[c] \in {"ack", "failed", "dropped"} /\ c \notin acked =>
                  /\ stage'[c] \in {"ack", "failed", "dropped"} /\ job'[c] = job[c]
                  /\ c \notin acked' /\ (~Listener(c) => ~Listener(c)')
        PROVE  CommandsOnce'
    BY <1>1 DEF CommandsOnce
  <1>2. ASSUME NEW d \in Call, \/ NextId(d) \/ AwaitAck(d) \/ SendRequest(d) \/ Receive(d)
                               \/ Abandon(d) \/ GiveInput(d)
        PROVE  CommandsOnce'
    <2>1. UNCHANGED <<commands, waiting, waitingOnce>>
      BY <1>2 DEF NextId, AwaitAck, SendRequest, Receive, Abandon,
                  GiveInput, TakeInput, SendInput, InputFails
    <2>2. ASSUME NEW c \in Call, stage[c] \in {"ack", "failed", "dropped"}, c \notin acked
          PROVE  /\ stage'[c] \in {"ack", "failed", "dropped"} /\ job'[c] = job[c]
                 /\ c \notin acked'
      BY <1>2, <2>2 DEF NextId, AwaitAck, SendRequest, Receive, Abandon,
                        GiveInput, TakeInput, SendInput, InputFails, Move, TypeOK
    <2> QED
      BY <1>1, <2>1, <2>2 DEF Listener
  <1>3. CASE DropCommander \/ Worker \/ DemuxMessage \/ DemuxSend \/ DemuxGc
    <2>1. /\ UNCHANGED <<commands, acked, stage, job>>
          /\ waiting' \subseteq waiting /\ waitingOnce' \subseteq waitingOnce
      BY <1>3 DEF DropCommander, Worker, WriteRequest, WorkerDies, ProgramReads,
                  WorkerReplies, DemuxMessage,
                  DemuxSend, DemuxGc
    <2> QED
      BY <1>1, <2>1 DEF Listener
  <1>4. CASE DemuxEnd \/ DemuxAborted
    <2>1. commands' = <<>>
      BY <1>4 DEF DemuxEnd, DemuxAborted
    <2> QED
      BY <2>1, EmptyRange DEF CommandsOnce
  <1>5. CASE DemuxCommand
    <2>1. CASE commands' = <<>>
      BY <2>1, EmptyRange DEF CommandsOnce
    <2>2. CASE commands' = Tail(commands)
      <3>1. PICK c \in Call :
              /\ Head(commands) = <<job[c], c>> /\ Head(commands) \in Range(commands)
              /\ Head(commands) \notin Range(commands')
              /\ Range(commands') \subseteq Range(commands)
        BY <1>5, <2>2, HeadCommand DEF DemuxCommand
      <3>2. Head(commands)[1] = job[c] /\ Head(commands)[2] = c
        BY <3>1
      <3>3. /\ UNCHANGED <<stage, job>>
            /\ waiting' \subseteq waiting \cup {<<job[c], c>>}
            /\ waitingOnce' \subseteq waitingOnce \cup {<<job[c], c>>}
            /\ acked' \subseteq acked \cup {c}
        BY <1>5, <3>2 DEF DemuxCommand
      <3>4. ASSUME NEW j \in Nat, NEW d \in Call, <<j, d>> \in Range(commands')
            PROVE  /\ j = job'[d] /\ stage'[d] \in {"ack", "failed", "dropped"}
                   /\ d \notin acked' /\ ~Listener(d)'
        <4>1. j = job[d] /\ stage[d] \in {"ack", "failed", "dropped"} /\ d \notin acked /\ ~Listener(d)
          BY <3>1, <3>4 DEF CommandsOnce
        <4>2. d # c
          BY <3>1, <3>4, <4>1
        <4> QED
          BY <3>3, <4>1, <4>2 DEF Listener
      <3>5. ASSUME NEW i \in 1 .. Len(commands'), NEW k \in 1 .. Len(commands'),
                   commands'[i] = commands'[k]
            PROVE  i = k
        <4>1. commands \in Seq(Job) /\ commands # <<>>
          BY <1>5 DEF TypeOK, DemuxCommand
        <4>2. /\ i + 1 \in 1 .. Len(commands) /\ commands'[i] = commands[i + 1]
              /\ k + 1 \in 1 .. Len(commands) /\ commands'[k] = commands[k + 1]
          BY <2>2, <4>1, Received
        <4>3. i + 1 = k + 1
          BY <3>5, <4>2 DEF CommandsOnce
        <4> QED
          BY <4>3
      <3> QED
        BY <3>4, <3>5 DEF CommandsOnce
    <2> QED
      BY <1>5, <2>1, <2>2 DEF DemuxCommand
  <1>6. ASSUME NEW d \in Call, SendCommand(d) PROVE CommandsOnce'
    <2>1. /\ UNCHANGED <<job, acked, waiting, waitingOnce>> /\ stage[d] = "listen"
          /\ stage'[d] \in {"ack", "failed"}
          /\ \A c \in Call : c # d => stage'[c] = stage[c]
      BY <1>6 DEF SendCommand, Move, TypeOK
    <2>2. CASE UNCHANGED commands
      BY <1>1, <2>1, <2>2 DEF Listener
    <2>3. CASE commands' = Append(commands, <<job[d], d>>)
      <3> DEFINE new == <<job[d], d>>
      <3>1. new \in Job /\ commands \in Seq(Job) /\ commands' = Append(commands, new)
        BY <2>3 DEF TypeOK, Job
      <3>2. new \notin Range(commands) /\ d \notin acked /\ ~Listener(d)
        BY <2>1 DEF CommandsOnce, Heard, Listener, RefsRight, TypeOK
      <3>3. new[1] = job[d] /\ new[2] = d
        OBVIOUS
      <3>4. \A j \in Nat, c \in Call : <<j, c>> = new => j = job[d] /\ c = d
        OBVIOUS
      <3> HIDE DEF new
      <3>5. Range(commands') = Range(commands) \cup {new}
        BY <3>1, AppendedRange
      <3>6. ASSUME NEW j \in Nat, NEW c \in Call, <<j, c>> \in Range(commands')
            PROVE  /\ j = job'[c] /\ stage'[c] \in {"ack", "failed", "dropped"}
                   /\ c \notin acked' /\ ~Listener(c)'
        <4>1. CASE <<j, c>> \in Range(commands)
          <5>1. /\ j = job[c] /\ stage[c] \in {"ack", "failed", "dropped"}
                /\ c \notin acked /\ ~Listener(c)
            BY <4>1 DEF CommandsOnce
          <5> QED
            BY <2>1, <5>1 DEF Listener
        <4>2. CASE <<j, c>> = new
          BY <2>1, <3>2, <3>4, <4>2 DEF Listener
        <4> QED
          BY <3>5, <3>6, <4>1, <4>2
      <3>7. \A i, k \in 1 .. Len(commands') : commands'[i] = commands'[k] => i = k
        <4>1. \A i \in 1 .. Len(commands') :
                 \/ i \in 1 .. Len(commands) /\ commands'[i] = commands[i] /\ commands'[i] \in Range(commands)
                 \/ i = Len(commands) + 1 /\ commands'[i] = new
          BY <3>1, Appended
        <4> QED
          BY <3>2, <4>1 DEF CommandsOnce
      <3> QED
        BY <3>6, <3>7 DEF CommandsOnce
    <2> QED
      BY <1>6, <2>2, <2>3 DEF SendCommand
  <1> QED
    BY <1>2, <1>3, <1>4, <1>5, <1>6 DEF Next, CallStep, Demultiplex

-----------------------------------------------------------------------------
\* A demultiplexer that has ended does not come back.
LEMMA DemuxGoneStays ==
    ASSUME Next, DemuxGone
    PROVE  DemuxGone'
  <1> USE DEF DemuxGone, demuxVars
  <1>1. ASSUME NEW c \in Call, CallStep(c) PROVE UNCHANGED demux
    BY <1>1 DEF CallStep, NextId, SendCommand, AwaitAck, SendRequest, Receive, Abandon,
                GiveInput, TakeInput, SendInput, InputFails
  <1>2. CASE DropCommander \/ Demultiplex \/ Worker
    BY <1>2 DEF DropCommander, Demultiplex, DemuxCommand, DemuxMessage, DemuxSend, DemuxGc,
                DemuxEnd, DemuxAborted, Worker, WriteRequest, WorkerDies, ProgramReads, WorkerReplies
  <1> QED
    BY <1>1, <1>2 DEF Next

\* What the demultiplexer does with a message for a `one` call.
LEMMA OnceDelivered ==
    ASSUME TypeOK, IdsUnique, RefsRight, DemuxMessage, NEW c \in Call,
           <<job[c], c>> \in waitingOnce, <<job[c], c>> \notin waitingOnce', stage[c] \in Live
    PROVE  /\ stage[c] \in {"wait", "open"}
           /\ inbox'[c] = Append(inbox[c], Head(fromWorker)) /\ Len(inbox'[c]) > 0
  <1> DEFINE m == Head(fromWorker)
  <1>1. m \in Range(fromWorker)
    BY Received DEF DemuxMessage, TypeOK
  <1>2. m.job = job[c]
    BY DEF DemuxMessage, Listening
  <1>3. stage[c] \notin Early
    BY <1>1, <1>2, MessageOwner
  <1>4. stage[c] \in {"wait", "open"}
    BY <1>3 DEF Live, InCall, Early
  <1>5. <<m.job, c>> \in Listening(waitingOnce, m.job)
    BY <1>2 DEF Listening
  <1>6. inbox'[c] = Append(inbox[c], m)
    BY <1>5 DEF DemuxMessage
  <1>7. Len(inbox'[c]) > 0
    <2>1. inbox[c] \in Seq(Message) /\ m \in Message
      BY <1>1 DEF TypeOK, Range
    <2> QED
      BY <1>6, <2>1
  <1> QED
    BY <1>4, <1>6, <1>7

\* A live call keeps its listener, but for the one answer to it.
LEMMA ListenerStays ==
    ASSUME TypeOK, IdsUnique, RefsRight, Next, ~DemuxGone', NEW c \in Call,
           Listener(c), stage[c] \in Live, stage[c] # "new"
    PROVE  \/ Listener(c)'
           \/ c \in One /\ stage[c] \in {"wait", "open"} /\ UNCHANGED stage /\ Len(inbox'[c]) > 0
  <1> USE DEF demuxVars, Listener
  <1>0. job'[c] = job[c]
    BY Progress
  <1>1. ASSUME NEW d \in Call, CallStep(d) PROVE Listener(c)'
    BY <1>0, <1>1 DEF CallStep, NextId, SendCommand, AwaitAck, SendRequest, Receive, Abandon,
                      GiveInput, TakeInput, SendInput, InputFails
  <1>2. CASE DropCommander \/ Worker \/ DemuxSend
    BY <1>0, <1>2 DEF DropCommander, Worker, WriteRequest, WorkerDies, ProgramReads, WorkerReplies, DemuxSend
  <1>3. CASE DemuxEnd \/ DemuxAborted
    BY <1>3 DEF DemuxEnd, DemuxAborted, DemuxGone
  <1>4. CASE DemuxCommand
    BY <1>0, <1>4 DEF DemuxCommand, DemuxGone
  <1>5. CASE DemuxGc
    BY <1>0, <1>5 DEF DemuxGc
  <1>6. CASE DemuxMessage
    <2>1. CASE <<job[c], c>> \in waitingOnce /\ <<job[c], c>> \notin waitingOnce'
      <3>1. c \in One /\ UNCHANGED stage
        BY <1>6, <2>1 DEF RefsRight, TypeOK, DemuxMessage, callVars
      <3> QED
        BY <1>6, <2>1, <3>1, OnceDelivered
    <2>2. CASE ~(<<job[c], c>> \in waitingOnce /\ <<job[c], c>> \notin waitingOnce')
      BY <1>0, <1>6, <2>2 DEF DemuxMessage
    <2> QED
      BY <2>1, <2>2
  <1> QED
    BY <1>1, <1>2, <1>3, <1>4, <1>5, <1>6 DEF Next, Demultiplex

\* An ack is for a call that waits for it, and comes of a listener.
LEMMA AckedFrom ==
    ASSUME TypeOK, CommandsOnce, Heard, Next, NEW c \in acked'
    PROVE  /\ stage'[c] = "ack"
           /\ \/ c \in acked
              \/ ~DemuxGone' => Listener(c)'
  <1> USE DEF demuxVars, callVars
  <1>1. ASSUME NEW d \in Call, CallStep(d) PROVE c \in acked /\ stage'[c] = "ack"
    <2>1. CASE \/ NextId(d) \/ SendCommand(d) \/ SendRequest(d) \/ Receive(d)
               \/ (\E k \in Input : TakeInput(d, k)) \/ SendInput(d)
      BY <2>1 DEF NextId, SendCommand, SendRequest, Receive, TakeInput, SendInput, Move, TypeOK,
                  Heard
    <2>2. CASE AwaitAck(d) \/ Abandon(d) \/ InputFails(d)
      BY <2>2 DEF AwaitAck, Abandon, InputFails, Move, TypeOK, Heard
    <2> QED
      BY <1>1, <2>1, <2>2 DEF CallStep, GiveInput
  <1>2. CASE \/ DropCommander \/ Worker \/ DemuxMessage \/ DemuxSend \/ DemuxGc
             \/ DemuxEnd \/ DemuxAborted
    BY <1>2 DEF DropCommander, Worker, WriteRequest, WorkerDies, ProgramReads,
                  WorkerReplies, DemuxMessage,
                DemuxSend, DemuxGc, DemuxEnd, DemuxAborted, Heard
  <1>3. CASE DemuxCommand
    <2>1. PICK d \in Call : Head(commands) = <<job[d], d>> /\ <<job[d], d>> \in Range(commands)
      BY <1>3, HeadCommand DEF DemuxCommand
    <2>2. Head(commands)[1] = job[d] /\ Head(commands)[2] = d
      BY <2>1
    <2>3. job[d] \in Nat /\ stage[d] \in {"ack", "failed", "dropped"} /\ UNCHANGED <<stage, job>>
      BY <1>3, <2>1 DEF CommandsOnce, TypeOK, DemuxCommand
    <2>4. c \in acked \/ (c = d /\ stage[d] \in Live /\ Listener(d)')
      BY <1>3, <2>2, <2>3 DEF DemuxCommand, Listener
    <2> QED
      BY <2>3, <2>4 DEF Heard, Live, InCall
  <1> QED
    BY <1>1, <1>2, <1>3 DEF Next, Demultiplex

\* A call that was acknowledged stays in the demultiplexer's table until its
\* one answer is in its inbox.
LEMMA HeardStep ==
    ASSUME TypeOK, IdsUnique, RefsRight, CommandsOnce, Heard, CallShape, Next
    PROVE  Heard'
  <1>1. \A c \in acked' : stage'[c] = "ack"
    BY AckedFrom
  <1>2. ASSUME NEW c \in Call, ~DemuxGone'
        PROVE  /\ c \in acked' \/ stage'[c] = "send" => Listener(c)'
               /\ stage'[c] \in {"wait", "open"} =>
                     Listener(c)' \/ (c \in One /\ Len(inbox'[c]) > 0)
    <2>1. ~DemuxGone
      BY <1>2, DemuxGoneStays
    <2>2. c \in acked' => Listener(c)'
      <3>1. SUFFICES ASSUME c \in acked, stage'[c] = "ack" PROVE Listener(c)'
        BY <1>2, AckedFrom
      <3>2. Listener(c) /\ stage[c] = "ack"
        BY <2>1, <3>1 DEF Heard
      <3> QED
        BY <1>2, <3>2, ListenerStays DEF Live, InCall
    <2>3. stage'[c] = "send" => Listener(c)'
      <3>1. SUFFICES ASSUME stage'[c] = "send" PROVE Listener(c)'
        OBVIOUS
      <3>2. stage[c] = "send" \/ (stage[c] = "ack" /\ c \in acked)
        <4>1. ASSUME NEW d \in Call, CallStep(d)
              PROVE  stage[c] = "send" \/ (stage[c] = "ack" /\ c \in acked)
          BY <3>1, <4>1 DEF CallStep, NextId, SendCommand, AwaitAck, SendRequest, Receive, Abandon,
                            GiveInput, TakeInput, SendInput, InputFails,
                            Move, TypeOK
        <4>2. CASE DropCommander \/ Demultiplex \/ Worker
          BY <3>1, <4>2 DEF DropCommander, Demultiplex, DemuxCommand, DemuxMessage, DemuxSend,
                      DemuxGc, DemuxEnd, DemuxAborted, Worker, WriteRequest, WorkerDies, ProgramReads,
                      WorkerReplies, callVars
        <4> QED
          BY <4>1, <4>2 DEF Next
      <3>3. Listener(c)
        BY <2>1, <3>2 DEF Heard
      <3> QED
        BY <1>2, <3>2, <3>3, ListenerStays DEF Live, InCall
    <2>4. ASSUME stage'[c] \in {"wait", "open"}
          PROVE  Listener(c)' \/ (c \in One /\ Len(inbox'[c]) > 0)
      <3>1. stage[c] \in {"send", "wait", "open"}
        <4>1. ASSUME NEW d \in Call, CallStep(d) PROVE stage[c] \in {"send", "wait", "open"}
          BY <2>4, <4>1 DEF CallStep, NextId, SendCommand, AwaitAck, SendRequest, Receive, Abandon,
                            GiveInput, TakeInput, SendInput, InputFails,
                            Move, TypeOK
        <4>2. CASE DropCommander \/ Demultiplex \/ Worker
          BY <2>4, <4>2 DEF DropCommander, Demultiplex, DemuxCommand, DemuxMessage, DemuxSend,
                      DemuxGc, DemuxEnd, DemuxAborted, Worker, WriteRequest, WorkerDies, ProgramReads,
                      WorkerReplies, callVars
        <4> QED
          BY <4>1, <4>2 DEF Next
      <3>2. CASE Listener(c)
        BY <1>2, <3>1, <3>2, ListenerStays DEF Live, InCall
      <3>3. CASE c \in One /\ Len(inbox[c]) > 0
        <4>1. Len(inbox'[c]) > 0
          <5>1. ASSUME NEW d \in Call, CallStep(d) PROVE Len(inbox'[c]) > 0
            <6>1. CASE \/ NextId(d) \/ SendCommand(d) \/ AwaitAck(d) \/ SendRequest(d)
                       \/ (\E k \in Input : TakeInput(d, k)) \/ SendInput(d)
              BY <3>3, <6>1 DEF NextId, SendCommand, AwaitAck, SendRequest, TakeInput, SendInput
            <6>2. CASE Receive(d) \/ Abandon(d) \/ InputFails(d)
              BY <2>4, <3>3, <6>2 DEF Receive, Abandon, InputFails, TypeOK
            <6> QED
              BY <5>1, <6>1, <6>2 DEF CallStep, GiveInput
          <5>2. CASE DropCommander \/ Worker \/ DemuxCommand \/ DemuxGc \/ DemuxEnd \/ DemuxAborted
            BY <3>3, <5>2 DEF DropCommander, Worker, WriteRequest, WorkerDies, ProgramReads, WorkerReplies,
                              DemuxCommand, DemuxGc, DemuxEnd, DemuxAborted
          <5>3. CASE DemuxMessage \/ DemuxSend
            <6>1. inbox[c] \in Seq(Message)
              BY DEF TypeOK
            <6>2. inbox'[c] = inbox[c] \/ \E m \in Message : inbox'[c] = Append(inbox[c], m)
              <7>1. CASE DemuxMessage
                <8>1. Head(fromWorker) \in Message
                  BY <7>1, Received DEF DemuxMessage, TypeOK
                <8> QED
                  BY <7>1, <8>1 DEF DemuxMessage
              <7>2. CASE DemuxSend
                <8>1. hand[1] \in Message
                  BY <7>2, HandHolds DEF DemuxSend
                <8> QED
                  BY <7>2, <8>1 DEF DemuxSend, TypeOK
              <7> QED
                BY <5>3, <7>1, <7>2
            <6> QED
              BY <3>3, <6>1, <6>2
          <5> QED
            BY <5>1, <5>2, <5>3 DEF Next, Demultiplex
        <4> QED
          BY <3>3, <4>1
      <3> QED
        BY <2>1, <3>1, <3>2, <3>3 DEF Heard
    <2> QED
      BY <2>2, <2>3, <2>4
  <1> QED
    BY <1>1, <1>2 DEF Heard

-----------------------------------------------------------------------------
\* The types that the count of replies needs.
LEMMA TakenNat ==
    ASSUME TypeOK, NEW c \in Call
    PROVE  /\ Taken(c) \in Nat /\ sent[c] \in Nat
           /\ received[c] \in Seq(Message) /\ Len(received[c]) \in Nat
           /\ inbox[c] \in Seq(Message) /\ Len(inbox[c]) \in Nat
           /\ fromWorker \in Seq(Message) /\ Len(fromWorker) \in Nat
           /\ \A i \in 1 .. Len(fromWorker) : fromWorker[i].n \in Nat
  <1>1. /\ received[c] \in Seq(Message) /\ inbox[c] \in Seq(Message) /\ fromWorker \in Seq(Message)
        /\ sent[c] \in Nat
    BY DEF TypeOK
  <1>2. Len(received[c]) \in Nat /\ Len(inbox[c]) \in Nat /\ Len(fromWorker) \in Nat
    BY <1>1
  <1>3. \A i \in 1 .. Len(fromWorker) : fromWorker[i].n \in Nat
    <2>1. \A i \in 1 .. Len(fromWorker) : fromWorker[i] \in Message
      BY <1>1
    <2> QED
      BY <2>1 DEF Message
  <1>4. Taken(c) \in Nat
    <2>1. PICK r \in Nat, i \in Nat : r = Len(received[c]) /\ i = Len(inbox[c])
      BY <1>2
    <2>2. Taken(c) = r + i + 1 \/ Taken(c) = r + i + 0
      BY <2>1 DEF Taken
    <2> QED
      BY <2>2
  <1> QED
    BY <1>1, <1>2, <1>3, <1>4

\* The message that the demultiplexer takes is the next one of its call.
LEMMA HeadIsNext ==
    ASSUME TypeOK, NothingLost, demux = "select", fromWorker # <<>>, NEW c \in Call,
           Head(fromWorker).call = c, stage[c] \in {"wait", "open"}
    PROVE  /\ Head(fromWorker) = Reply(c, Taken(c) + 1) /\ Taken(c) < sent[c] /\ ~InHand(c)
           /\ Taken(c) = Len(received[c]) + Len(inbox[c])
  <1>1. OnTheWay(c)
    BY DEF NothingLost, DemuxGone
  <1>2. ~InHand(c)
    BY HandHolds DEF InHand
  <1>3. Head(fromWorker) = fromWorker[1] /\ 1 \in 1 .. Len(fromWorker)
    BY TakenNat
  <1> DEFINE k == fromWorker[1].n
  <1>4. k \in Taken(c) + 1 .. sent[c] /\ fromWorker[1] = Reply(c, k)
    BY <1>1, <1>3 DEF OnTheWay
  <1>5. k \in Nat /\ Taken(c) \in Nat /\ sent[c] \in Nat
    BY <1>3, TakenNat
  <1>6. Taken(c) + 1 \in Taken(c) + 1 .. sent[c]
    BY <1>4, <1>5
  <1>7. PICK i \in 1 .. Len(fromWorker) : fromWorker[i] = Reply(c, Taken(c) + 1)
    BY <1>1, <1>6 DEF OnTheWay
  <1>8. fromWorker[i].call = c /\ fromWorker[i].n = Taken(c) + 1
    BY <1>7 DEF Reply
  <1>9. k = Taken(c) + 1
    <2>1. CASE i = 1
      BY <1>8, <2>1
    <2>2. CASE i # 1
      <3>1. i \in 1 + 1 .. Len(fromWorker) /\ fromWorker[1].call = c
        BY <1>3, <2>2, TakenNat
      <3>2. k < Taken(c) + 1
        BY <1>1, <1>3, <1>8, <3>1 DEF OnTheWay
      <3> QED
        BY <1>4, <1>5, <3>2
    <2> QED
      BY <2>1, <2>2
  <1>10. Taken(c) < sent[c]
    BY <1>5, <1>6
  <1>11. Taken(c) = Len(received[c]) + Len(inbox[c])
    BY <1>2, TakenNat DEF Taken
  <1> QED
    BY <1>2, <1>3, <1>4, <1>9, <1>10, <1>11

\* A message is given to the call it was made for, and is the next one of it.
Given(c) ==
    /\ stage[c] \in {"wait", "open"} /\ ~DemuxGone /\ UNCHANGED <<stage, job, received, sent>>
    /\ inbox'[c] = Append(inbox[c], Reply(c, Len(received[c]) + Len(inbox[c]) + 1))

\* What the demultiplexer gives a call is that call's next reply.
LEMMA DemuxGives ==
    ASSUME TypeOK, IdsUnique, RefsRight, NothingLost, DemuxMessage \/ DemuxSend, NEW c \in Call
    PROVE  \/ UNCHANGED <<stage, job, received, sent>> /\ inbox'[c] = inbox[c]
           \/ Given(c)
  <1>1. UNCHANGED <<stage, job, received, sent>>
    BY DEF DemuxMessage, DemuxSend, callVars, workerVars
  <1>2. CASE DemuxMessage /\ inbox'[c] # inbox[c]
    <2> DEFINE m == Head(fromWorker)
    <2>1. /\ <<m.job, c>> \in Listening(waitingOnce, m.job) /\ stage[c] \in Live
          /\ inbox'[c] = Append(inbox[c], m)
      BY <1>2 DEF DemuxMessage, TypeOK
    <2>2. m \in Range(fromWorker)
      BY <1>2, Received DEF DemuxMessage, TypeOK
    <2>3. m.call = c /\ stage[c] \notin Early
      BY <2>1, <2>2, MessageOwner DEF Listening
    <2>4. stage[c] \in {"wait", "open"}
      BY <2>1, <2>3 DEF Live, InCall, Early
    <2>5. m = Reply(c, Len(received[c]) + Len(inbox[c]) + 1)
      BY <1>2, <2>3, <2>4, HeadIsNext DEF DemuxMessage
    <2> QED
      BY <1>1, <1>2, <2>1, <2>4, <2>5 DEF Given, DemuxMessage, DemuxGone
  <1>3. CASE DemuxSend /\ inbox'[c] # inbox[c]
    <2>1. /\ <<hand[1].job, c>> \in waiting /\ stage[c] \in Live
          /\ inbox'[c] = Append(inbox[c], hand[1])
      BY <1>3 DEF DemuxSend, TypeOK
    <2>2. hand # <<>> /\ hand[1] \in Range(hand)
      BY <1>3, HandHolds DEF DemuxSend
    <2>3. hand[1].call = c /\ stage[c] \notin Early
      BY <2>1, <2>2, MessageOwner
    <2>4. stage[c] \in {"wait", "open"} /\ ~DemuxGone
      BY <1>3, <2>1, <2>3 DEF Live, InCall, Early, DemuxSend, DemuxGone
    <2>5. hand[1] = Reply(c, Taken(c)) /\ InHand(c)
      BY <2>2, <2>3, <2>4 DEF NothingLost, OnTheWay, InHand
    <2>6. Taken(c) = Len(received[c]) + Len(inbox[c]) + 1
      BY <2>5 DEF Taken
    <2> QED
      BY <1>1, <2>1, <2>4, <2>5, <2>6 DEF Given
  <1> QED
    BY <1>1, <1>2, <1>3

\* What any step does to the two ends of a call's channel.
LEMMA ChannelStep ==
    ASSUME TypeOK, IdsUnique, RefsRight, NothingLost, Next, NEW c \in Call
    PROVE  \/ inbox'[c] = inbox[c] /\ received'[c] = received[c]
           \/ Given(c)
           \/ /\ Receive(c) /\ inbox[c] # <<>> /\ inbox'[c] = Tail(inbox[c])
              /\ received'[c] = Append(received[c], Head(inbox[c]))
              /\ UNCHANGED <<job, sent, fromWorker, hand>>
           \/ Abandon(c) /\ inbox'[c] = <<>> /\ received'[c] = <<>> /\ stage'[c] = "dropped"
  <1>1. ASSUME NEW d \in Call, d # c, CallStep(d)
        PROVE  inbox'[c] = inbox[c] /\ received'[c] = received[c]
    BY <1>1 DEF CallStep, NextId, SendCommand, AwaitAck, SendRequest, Receive, Abandon,
                GiveInput, TakeInput, SendInput, InputFails, TypeOK
  <1>2. CASE \/ NextId(c) \/ SendCommand(c) \/ AwaitAck(c) \/ SendRequest(c)
             \/ (\E k \in Input : TakeInput(c, k)) \/ SendInput(c)
    BY <1>2 DEF NextId, SendCommand, AwaitAck, SendRequest, TakeInput, SendInput
  <1>3. CASE Receive(c)
    BY <1>3 DEF Receive, TypeOK, workerVars, demuxVars
  <1>4. CASE Abandon(c) \/ InputFails(c)
    BY <1>4 DEF Abandon, InputFails, TypeOK
  <1>5. CASE DemuxMessage \/ DemuxSend
    BY <1>5, DemuxGives
  <1>6. CASE DropCommander \/ DemuxCommand \/ DemuxGc \/ DemuxEnd \/ DemuxAborted \/ Worker
    BY <1>6 DEF DropCommander, DemuxCommand, DemuxGc, DemuxEnd, DemuxAborted, Worker, WriteRequest,
                WorkerDies, ProgramReads, WorkerReplies
  <1> QED
    BY <1>1, <1>2, <1>3, <1>4, <1>5, <1>6 DEF Next, CallStep, GiveInput, Demultiplex

\* Every step keeps the types; that the oneshot of a `one` call gets one message
\* is a matter of who is given what.
LEMMA TypeStep ==
    ASSUME Inv, Next
    PROVE  TypeOK'
  <1>0. /\ TypeOK /\ IdsUnique /\ RefsRight /\ NothingLost /\ CallShape /\ Heard
        /\ Cap \in Nat /\ Cap >= 1
    BY CommanderAssumption DEF Inv
  <1> USE <1>0 DEF TypeOK, callVars, demuxVars, workerVars
  <1>1. ASSUME NEW c \in Call, NextId(c) PROVE TypeOK'
    BY <1>1 DEF NextId, Move, Stage, Live, InCall
  <1>2. ASSUME NEW c \in Call, SendCommand(c) PROVE TypeOK'
    <2>1. PICK x \in Job : x = <<job[c], c>>
      BY DEF Job
    <2>2. commands' \in Seq(Job) /\ Len(commands') <= Cap
      <3>1. CASE UNCHANGED commands
        BY <3>1
      <3>2. CASE commands' = Append(commands, x) /\ Len(commands) < Cap
        BY <3>2
      <3> QED
        BY <1>2, <2>1, <3>1, <3>2 DEF SendCommand
    <2> QED
      BY <1>2, <2>2 DEF SendCommand, Move, Stage, Live, InCall
  <1>3. ASSUME NEW c \in Call, AwaitAck(c) PROVE TypeOK'
    BY <1>3 DEF AwaitAck, Move, Stage, Live, InCall
  <1>4. ASSUME NEW c \in Call, SendRequest(c) PROVE TypeOK'
    <2>1. PICK x \in ToWorker : x = [type |-> "Request", job |-> <<job[c], c>>]
      BY DEF Job, ToWorker
    <2>2. toWorker' \in Seq(ToWorker) /\ Len(toWorker') <= Cap
      <3>1. CASE UNCHANGED toWorker
        BY <3>1
      <3>2. CASE toWorker' = Append(toWorker, x) /\ Len(toWorker) < Cap
        BY <3>2
      <3> QED
        BY <1>4, <2>1, <3>1, <3>2 DEF SendRequest
    <2> QED
      BY <1>4, <2>2 DEF SendRequest, Move, Stage, Live, InCall
  <1>5. ASSUME NEW c \in Call, Receive(c) PROVE TypeOK'
    <2>1. stage' \in [Call -> Stage]
      BY <1>5 DEF Receive, Stage, Live, InCall
    <2>2. CASE UNCHANGED <<received, inbox>>
      BY <1>5, <2>1, <2>2 DEF Receive
    <2>3. CASE /\ inbox[c] # <<>> /\ inbox' = [inbox EXCEPT ![c] = Tail(@)]
               /\ received' = [received EXCEPT ![c] = Append(@, Head(inbox[c]))]
      <3>1. inbox[c] \in Seq(Message) /\ received[c] \in Seq(Message) /\ Len(inbox[c]) <= Cap
        OBVIOUS
      <3>2. /\ Tail(inbox[c]) \in Seq(Message) /\ Len(Tail(inbox[c])) <= Cap
            /\ Append(received[c], Head(inbox[c])) \in Seq(Message)
        BY <2>3, <3>1
      <3>3. received' \in [Call -> Seq(Message)]
        BY <2>3, <3>2
      <3>4. inbox' \in [Call -> Seq(Message)] /\ \A d \in Call : Len(inbox'[d]) <= Cap
        BY <2>3, <3>2
      <3> QED
        BY <1>5, <2>1, <3>3, <3>4 DEF Receive
    <2> QED
      BY <1>5, <2>2, <2>3 DEF Receive
  <1>6. ASSUME NEW c \in Call, Abandon(c) PROVE TypeOK'
    <2>1. <<>> \in Seq(Message) /\ Len(<<>>) <= Cap
      OBVIOUS
    <2> QED
      BY <1>6, <2>1 DEF Abandon, Stage
  <1>7. CASE DropCommander
    BY <1>7 DEF DropCommander
  <1>8. CASE DemuxCommand
    <2>1. /\ Head(commands) \in Job /\ Tail(commands) \in Seq(Job)
          /\ Len(Tail(commands)) <= Cap
      BY <1>8 DEF DemuxCommand
    <2>2. <<Head(commands)[1], Head(commands)[2]>> \in Job /\ Head(commands)[2] \in Call
      BY <2>1 DEF Job
    <2>3. waiting' \subseteq Job /\ waitingOnce' \subseteq Job /\ acked' \subseteq Call
      BY <1>8, <2>2 DEF DemuxCommand
    <2>4. commands' \in Seq(Job) /\ Len(commands') <= Cap
      <3>1. <<>> \in Seq(Job) /\ Len(<<>>) <= Cap
        OBVIOUS
      <3>2. commands' = Tail(commands) \/ commands' = <<>>
        BY <1>8 DEF DemuxCommand
      <3> QED
        BY <2>1, <3>1, <3>2
    <2>5. demux' \in {"select", "duplicate"} /\ demux = "select" /\ UNCHANGED hand
      BY <1>8 DEF DemuxCommand
    <2> QED
      BY <1>8, <2>3, <2>4, <2>5 DEF DemuxCommand
  <1>9. ASSUME NEW c \in Call, Given(c), DemuxMessage \/ Len(inbox[c]) < Cap
        PROVE  inbox'[c] \in Seq(Message) /\ Len(inbox'[c]) <= Cap
    <2> DEFINE m == Reply(c, Len(received[c]) + Len(inbox[c]) + 1)
    <2>1. received[c] \in Seq(Message) /\ inbox[c] \in Seq(Message) /\ job[c] \in Nat
      OBVIOUS
    <2>2. m \in Message
      BY <2>1 DEF Message, Reply
    <2>3. inbox'[c] = Append(inbox[c], m)
      BY <1>9 DEF Given
    <2>4. CASE DemuxMessage
      <3>1. inbox'[c] # inbox[c]
        BY <2>1, <2>2, <2>3
      <3>2. /\ <<Head(fromWorker).job, c>> \in waitingOnce
            /\ Head(fromWorker) \in Range(fromWorker)
        <4>1. Head(fromWorker) \in Range(fromWorker)
          BY <2>4, Received DEF DemuxMessage
        <4>2. <<Head(fromWorker).job, c>> \in Listening(waitingOnce, Head(fromWorker).job)
          BY <2>4, <3>1 DEF DemuxMessage
        <4> QED
          BY <4>1, <4>2 DEF Listening
      <3>3. c \in One /\ Head(fromWorker).call = c
        BY <3>2, MessageOwner DEF RefsRight
      <3>4. Len(received[c]) + Len(inbox[c]) < sent[c] /\ sent[c] <= 1
        BY <1>9, <2>4, <3>3, HeadIsNext DEF Given, DemuxMessage, CallShape
      <3>5. Len(inbox[c]) = 0
        BY <2>1, <3>4
      <3> HIDE DEF m
      <3> QED
        BY <2>1, <2>2, <2>3, <3>5
    <2>5. CASE Len(inbox[c]) < Cap
      <3> HIDE DEF m
      <3> QED
        BY <2>1, <2>2, <2>3, <2>5
    <2> QED
      BY <1>9, <2>4, <2>5
  <1>10. CASE DemuxMessage
    <2>1. Head(fromWorker) \in Message /\ Tail(fromWorker) \in Seq(Message)
          /\ Len(Tail(fromWorker)) <= Cap
      BY <1>10 DEF DemuxMessage
    <2>2. \A c \in Call : inbox'[c] \in Seq(Message) /\ Len(inbox'[c]) <= Cap
      BY <1>9, <1>10, DemuxGives
    <2>3. inbox' \in [Call -> Seq(Message)]
      <3>1. inbox' = [c \in Call |-> inbox'[c]]
        BY <1>10 DEF DemuxMessage
      <3> QED
        BY <2>2, <3>1
    <2>4. /\ demux' \in {"select", "send"} /\ hand' \in Seq(Message)
          /\ Len(hand') = (IF demux' = "send" THEN 1 ELSE 0)
      <3>1. \/ demux' = "select" /\ hand' = hand
            \/ demux' = "send" /\ hand' = <<Head(fromWorker)>>
        BY <1>10 DEF DemuxMessage
      <3>2. hand = <<>> /\ <<>> \in Seq(Message) /\ Len(<<>>) = 0
        BY <1>10, HandHolds DEF DemuxMessage
      <3>3. <<Head(fromWorker)>> \in Seq(Message) /\ Len(<<Head(fromWorker)>>) = 1
        BY <2>1
      <3>4. CASE demux' = "select" /\ hand' = hand
        BY <3>2, <3>4
      <3>5. CASE demux' = "send" /\ hand' = <<Head(fromWorker)>>
        <4>1. hand' \in Seq(Message) /\ Len(hand') = 1
          BY <3>3, <3>5, Zenon
        <4> QED
          BY <3>5, <4>1
      <3> QED
        BY <3>1, <3>4, <3>5
    <2>5. waitingOnce' \subseteq Job
      BY <1>10 DEF DemuxMessage
    <2>6. fromWorker' \in Seq(Message) /\ Len(fromWorker') <= Cap
      BY <1>10, <2>1 DEF DemuxMessage
    <2> QED
      BY <1>10, <2>2, <2>3, <2>4, <2>5, <2>6 DEF DemuxMessage
  <1>11. CASE DemuxSend
    <2>1. \A c \in Call : inbox'[c] # inbox[c] => Len(inbox[c]) < Cap
      BY <1>11 DEF DemuxSend
    <2>2. \A c \in Call : inbox'[c] \in Seq(Message) /\ Len(inbox'[c]) <= Cap
      BY <1>9, <1>11, <2>1, DemuxGives
    <2>3. inbox' \in [Call -> Seq(Message)]
      <3>1. inbox' = [c \in Call |-> inbox'[c]]
        BY <1>11 DEF DemuxSend
      <3> QED
        BY <2>2, <3>1
    <2>4. hand' \in Seq(Message) /\ Len(hand') = 0 /\ demux' = "select"
      BY <1>11 DEF DemuxSend
    <2> QED
      BY <1>11, <2>2, <2>3, <2>4 DEF DemuxSend
  <1>12. CASE DemuxGc
    BY <1>12 DEF DemuxGc
  <1>13. CASE DemuxEnd \/ DemuxAborted
    <2>1. <<>> \in Seq(Job) /\ Len(<<>>) = 0 /\ <<>> \in Seq(Message)
      OBVIOUS
    <2>2. Len(hand') = 0 /\ hand' \in Seq(Message) /\ demux' = "ended"
      BY <1>13, <2>1 DEF DemuxEnd, DemuxAborted
    <2>3. commands' = <<>> /\ waiting' = {} /\ waitingOnce' = {}
      BY <1>13 DEF DemuxEnd, DemuxAborted
    <2>4. UNCHANGED <<callVars, acked, inbox, received, toWorker, fromWorker, workerVars>>
      BY <1>13 DEF DemuxEnd, DemuxAborted
    <2> QED
      BY <2>1, <2>2, <2>3, <2>4
  <1>14. CASE WriteRequest
    <2>1. /\ Head(toWorker) \in ToWorker /\ Tail(toWorker) \in Seq(ToWorker)
          /\ Len(Tail(toWorker)) <= Cap /\ <<>> \in Seq(ToWorker) /\ Len(<<>>) <= Cap
      BY <1>14 DEF WriteRequest
    <2>2. toWorker' \in Seq(ToWorker) /\ Len(toWorker') <= Cap
      BY <1>14, <2>1 DEF WriteRequest
    <2>3. Head(toWorker).job \in Job /\ Head(toWorker).job[2] \in Call
      BY <2>1 DEF ToWorker, Job
    <2>4. serving' \subseteq Job
      BY <1>14, <2>3 DEF WriteRequest
    <2>5. unread' \in [Call -> Nat]
      <3>1. PICK d \in Call : d = Head(toWorker).job[2]
        BY <2>3
      <3>2. \/ unread' = unread
            \/ unread' = [unread EXCEPT ![d] = @ + 1]
        BY <1>14, <3>1 DEF WriteRequest
      <3>3. unread \in [Call -> Nat] /\ unread[d] + 1 \in Nat
        OBVIOUS
      <3> QED
        BY <3>2, <3>3
    <2>6. UNCHANGED <<callVars, commands, demuxVars, inbox, received, fromWorker, worker, sent>>
          /\ writer' \in {"up", "gone"}
      BY <1>14 DEF WriteRequest
    <2> QED
      BY <2>2, <2>4, <2>5, <2>6
  <1>15. CASE WorkerDies
    BY <1>15 DEF WorkerDies, ProgramReads
  <1>17. ASSUME NEW c \in Call, NEW k \in Input, TakeInput(c, k) PROVE TypeOK'
    BY <1>17 DEF TakeInput
  <1>18. ASSUME NEW c \in Call, SendInput(c) PROVE TypeOK'
    <2>1. PICK x \in ToWorker : x = [type |-> input[c], job |-> <<job[c], c>>]
      BY <1>18 DEF SendInput, Job, ToWorker
    <2>2. toWorker' = Append(toWorker, x) /\ Len(toWorker) < Cap
      BY <1>18, <2>1 DEF SendInput
    <2>3. toWorker' \in Seq(ToWorker) /\ Len(toWorker') <= Cap
      BY <2>2
    <2>4. input' \in [Call -> Input \cup {"none"}]
      BY <1>18 DEF SendInput
    <2> QED
      BY <1>18, <2>3, <2>4 DEF SendInput
  <1>19. ASSUME NEW c \in Many, ProgramReads(c) PROVE TypeOK'
    <2>1. unread' \in [Call -> Nat]
      BY <1>19 DEF ProgramReads, Call
    <2> QED
      BY <1>19, <2>1 DEF ProgramReads
  <1>16. ASSUME NEW x \in serving, WorkerReplies(x[1], x[2]) PROVE TypeOK'
    <2>1. x[1] \in Nat /\ x[2] \in Call
      BY DEF Job
    <2>2. sent[x[2]] + 1 \in Nat
      BY <2>1
    <2>3. [job |-> x[1], call |-> x[2], n |-> sent[x[2]] + 1] \in Message
      BY <2>1, <2>2 DEF Message
    <2>4. fromWorker' \in Seq(Message) /\ Len(fromWorker') <= Cap
      BY <1>16, <2>3 DEF WorkerReplies
    <2>5. sent' \in [Call -> Nat]
      BY <1>16, <2>1, <2>2 DEF WorkerReplies
    <2> QED
      BY <1>16, <2>4, <2>5 DEF WorkerReplies
  <1> HIDE DEF TypeOK
  <1> QED
    BY <1>1, <1>2, <1>3, <1>4, <1>5, <1>6, <1>7, <1>8, <1>10, <1>11, <1>12, <1>13, <1>14, <1>15,
       <1>16, <1>17, <1>18, <1>19 DEF Next, CallStep, GiveInput, InputFails, Demultiplex, Worker

-----------------------------------------------------------------------------
\* How a call changes its stage.
LEMMA StageStep ==
    ASSUME TypeOK, Next, NEW c \in Call
    PROVE  /\ stage'[c] = "wait" =>
                 stage[c] = "wait" \/ (stage[c] = "send" /\ c \in One /\ SendRequest(c))
           /\ stage'[c] = "open" =>
                 \/ stage[c] = "open" \/ (stage[c] = "wait" /\ c \notin One)
                 \/ (stage[c] = "send" /\ c \notin One /\ SendRequest(c))
           /\ stage'[c] = "done" => stage[c] = "done" \/ Receive(c)
  <1>1. ASSUME NEW d \in Call, CallStep(d), d # c PROVE stage'[c] = stage[c]
    BY <1>1 DEF CallStep, NextId, SendCommand, AwaitAck, SendRequest, Receive, Abandon,
                GiveInput, TakeInput, SendInput, InputFails, Move, TypeOK
  <1>2. CASE CallStep(c)
    BY <1>2 DEF CallStep, NextId, SendCommand, AwaitAck, SendRequest, Receive, Abandon,
                GiveInput, TakeInput, SendInput, InputFails, Move, TypeOK
  <1>3. CASE DropCommander \/ Demultiplex \/ Worker
    BY <1>3 DEF DropCommander, Demultiplex, DemuxCommand, DemuxMessage, DemuxSend, DemuxGc,
                DemuxEnd, DemuxAborted, Worker, WriteRequest, WorkerDies, ProgramReads,
                  WorkerReplies, callVars
  <1> QED
    BY <1>1, <1>2, <1>3 DEF Next

\* Only the worker counts its messages, for requests it has.
LEMMA SentStep ==
    ASSUME TypeOK, RefsRight, Next, NEW c \in Call
    PROVE  \/ sent'[c] = sent[c]
           \/ /\ sent'[c] = sent[c] + 1 /\ stage[c] \notin Early /\ (c \in One => sent[c] < 1)
              /\ UNCHANGED <<stage, job, received, inbox, hand, demux>>
              /\ fromWorker' = Append(fromWorker, Reply(c, sent[c] + 1))
  <1> USE DEF workerVars, callVars, demuxVars
  <1>1. ASSUME NEW d \in Call, CallStep(d) PROVE UNCHANGED sent
    BY <1>1 DEF CallStep, NextId, SendCommand, AwaitAck, SendRequest, Receive, Abandon,
                GiveInput, TakeInput, SendInput, InputFails
  <1>2. CASE DropCommander \/ Demultiplex \/ WriteRequest \/ WorkerDies
             \/ (\E d \in Many : ProgramReads(d))
    BY <1>2 DEF DropCommander, Demultiplex, DemuxCommand, DemuxMessage, DemuxSend, DemuxGc,
                DemuxEnd, DemuxAborted, WriteRequest, WorkerDies, ProgramReads
  <1>3. ASSUME NEW x \in serving, WorkerReplies(x[1], x[2]), sent'[c] # sent[c]
        PROVE  /\ sent'[c] = sent[c] + 1 /\ stage[c] \notin Early /\ (c \in One => sent[c] < 1)
               /\ UNCHANGED <<stage, job, received, inbox, hand, demux>>
               /\ fromWorker' = Append(fromWorker, Reply(c, sent[c] + 1))
    <2>1. x[1] \in Nat /\ x[2] \in Call /\ x = <<x[1], x[2]>>
      BY DEF TypeOK, Job
    <2>2. x[2] = c /\ sent'[c] = sent[c] + 1
      BY <1>3, <2>1 DEF WorkerReplies, TypeOK
    <2>3. x[1] = job[c] /\ stage[c] \notin Early
      BY <2>1, <2>2 DEF RefsRight
    <2>4. fromWorker' = Append(fromWorker, Reply(c, sent[c] + 1))
      BY <1>3, <2>2, <2>3 DEF WorkerReplies, Reply
    <2>5. c \in One => sent[c] < 1
      BY <1>3, <2>2 DEF WorkerReplies
    <2> QED
      BY <1>3, <2>2, <2>3, <2>4, <2>5 DEF WorkerReplies
  <1> QED
    BY <1>1, <1>2, <1>3 DEF Next, Worker

\* A call that has not sent its request has no replies, and a oneshot takes one.
LEMMA ShapeStep ==
    ASSUME TypeOK, IdsUnique, RefsRight, NothingLost, CallShape, Next
    PROVE  CallShape'
  <1>1. ASSUME NEW c \in Call, stage'[c] \in Early
        PROVE  sent'[c] = 0 /\ received'[c] = <<>> /\ inbox'[c] = <<>>
    <2>1. stage[c] \in Early
      BY <1>1, Progress
    <2>2. sent[c] = 0 /\ received[c] = <<>> /\ inbox[c] = <<>>
      BY <2>1 DEF CallShape
    <2>3. sent'[c] = 0
      BY <2>1, <2>2, SentStep
    <2>4. ~Given(c) /\ ~Receive(c) /\ stage'[c] # "dropped"
      BY <1>1, <2>1 DEF Given, Receive, Early
    <2> QED
      BY <2>2, <2>3, <2>4, ChannelStep
  <1>2. ASSUME NEW c \in One
        PROVE  /\ sent'[c] <= 1 /\ stage'[c] # "open"
               /\ stage'[c] = "wait" => received'[c] = <<>>
               /\ stage'[c] = "done" => Len(received'[c]) = 1
    <2>1. c \in Call /\ sent[c] \in Nat /\ received[c] \in Seq(Message) /\ inbox[c] \in Seq(Message)
      BY DEF Call, TypeOK
    <2>2. /\ sent[c] <= 1 /\ stage[c] # "open"
          /\ stage[c] = "wait" => received[c] = <<>>
          /\ stage[c] = "done" => Len(received[c]) = 1
          /\ stage[c] = "send" => received[c] = <<>>
      BY <2>1 DEF CallShape, Early
    <2>3. sent'[c] <= 1
      BY <2>1, <2>2, SentStep
    <2>4. stage'[c] # "open"
      BY <1>2, <2>1, <2>2, StageStep
    <2>5. ASSUME stage'[c] = "wait" PROVE received'[c] = <<>>
      <3>1. stage[c] \in {"wait", "send"} /\ ~Receive(c)
        BY <2>1, <2>5, StageStep DEF Receive, TypeOK
      <3> QED
        BY <2>1, <2>2, <2>5, <3>1, ChannelStep DEF Given
    <2>6. ASSUME stage'[c] = "done" PROVE Len(received'[c]) = 1
      <3>1. CASE Receive(c)
        <4>1. inbox[c] # <<>> /\ received'[c] = Append(received[c], Head(inbox[c])) /\ stage[c] = "wait"
          BY <2>1, <2>2, <2>6, <3>1 DEF Receive, TypeOK
        <4>2. Head(inbox[c]) \in Message /\ Len(received[c]) = 0
          BY <2>1, <2>2, <4>1
        <4> QED
          BY <2>1, <4>1, <4>2
      <3>2. CASE ~Receive(c)
        <4>1. stage[c] = "done"
          BY <2>1, <2>6, <3>2, StageStep
        <4>2. received'[c] = received[c]
          BY <2>1, <2>6, <3>2, <4>1, ChannelStep DEF Given
        <4> QED
          BY <2>2, <4>1, <4>2
      <3> QED
        BY <3>1, <3>2
    <2> QED
      BY <2>3, <2>4, <2>5, <2>6
  <1>3. ASSUME NEW c \in Many PROVE stage'[c] # "wait"
    <2>1. c \in Call /\ c \notin One
      BY CommanderAssumption DEF Call
    <2> QED
      BY <2>1, StageStep DEF CallShape
  <1> QED
    BY <1>1, <1>2, <1>3 DEF CallShape

\* What a call was given are the first replies to it, in order.
LEMMA DeliveredStep ==
    ASSUME TypeOK, IdsUnique, RefsRight, NothingLost, CallShape, AllDelivered, Next
    PROVE  AllDelivered'
  <1> SUFFICES ASSUME NEW c \in Call PROVE Delivered(c)'
    BY DEF AllDelivered
  <1>6. PICK R \in Nat, I \in Nat : R = Len(received[c]) /\ I = Len(inbox[c])
    BY TakenNat
  <1>0. received[c] \in Seq(Message) /\ inbox[c] \in Seq(Message) /\ Delivered(c)
    BY TakenNat DEF AllDelivered
  <1> USE <1>6
  <1>1. job'[c] = job[c] \/ (received'[c] = <<>> /\ inbox'[c] = <<>>)
    <2>1. CASE stage[c] # "new"
      BY <2>1, Progress
    <2>2. CASE stage[c] = "new"
      <3>1. received[c] = <<>> /\ inbox[c] = <<>>
        BY <2>2 DEF CallShape, Early
      <3>2. ~Given(c) /\ ~Receive(c)
        BY <2>2 DEF Given, Receive
      <3> QED
        BY <3>1, <3>2, ChannelStep
    <2> QED
      BY <2>1, <2>2
  <1>2. CASE received'[c] = <<>> /\ inbox'[c] = <<>>
    BY <1>2 DEF Delivered
  <1>3. CASE job'[c] = job[c] /\ inbox'[c] = inbox[c] /\ received'[c] = received[c]
    BY <1>0, <1>3 DEF Delivered, Reply
  <1>4. CASE job'[c] = job[c] /\ Given(c)
    <2> DEFINE m == Reply(c, R + I + 1)
    <2>1. inbox'[c] = Append(inbox[c], m) /\ received'[c] = received[c]
      BY <1>4 DEF Given
    <2>2. m \in Message
      BY <1>0 DEF Reply, Message, TypeOK
    <2>3. \A i \in 1 .. Len(inbox'[c]) : \/ i \in 1 .. I /\ inbox'[c][i] = inbox[c][i]
                                         \/ i = I + 1 /\ inbox'[c][i] = m
      <3> HIDE DEF m
      <3>1. PICK q, r : q \in Seq(Message) /\ q = inbox[c] /\ r = inbox'[c] /\ r = Append(q, m)
        BY <1>0, <2>1
      <3>2. \A i \in 1 .. Len(r) : \/ i \in 1 .. Len(q) /\ r[i] = q[i]
                                   \/ i = Len(q) + 1 /\ r[i] = m
        BY <2>2, <3>1, AppendedIndex
      <3> QED
        BY <3>1, <3>2
    <2>4. ASSUME NEW i \in 1 .. Len(inbox'[c]) PROVE inbox'[c][i] = Reply(c, R + i)
      <3>1. CASE i \in 1 .. I /\ inbox'[c][i] = inbox[c][i]
        BY <1>0, <3>1 DEF Delivered
      <3>2. CASE i = I + 1 /\ inbox'[c][i] = m
        <4>1. R + i = R + I + 1
          <5>1. i = I + 1
            BY <3>2
          <5> HIDE <1>6
          <5> QED
            BY <5>1
        <4> QED
          BY <3>2, <4>1
      <3> QED
        BY <2>3, <3>1, <3>2
    <2> QED
      BY <1>0, <1>4, <2>1, <2>4 DEF Delivered, Reply
  <1>5. CASE /\ job'[c] = job[c] /\ inbox[c] # <<>> /\ inbox'[c] = Tail(inbox[c])
             /\ received'[c] = Append(received[c], Head(inbox[c]))
    <2> DEFINE h == Head(inbox[c])
    <2>1. /\ h = inbox[c][1] /\ 1 \in 1 .. I /\ h \in Message
          /\ \A i \in 1 .. Len(inbox'[c]) : i + 1 \in 1 .. I /\ inbox'[c][i] = inbox[c][i + 1]
      BY <1>0, <1>5, Received
    <2>2. h = Reply(c, R + 1)
      BY <1>0, <2>1 DEF Delivered
    <2>3. /\ Len(received'[c]) = R + 1
          /\ \A i \in 1 .. Len(received'[c]) : \/ i \in 1 .. R /\ received'[c][i] = received[c][i]
                                               \/ i = R + 1 /\ received'[c][i] = h
      <3>1. received'[c] = Append(received[c], h)
        BY <1>5
      <3> HIDE DEF h
      <3>2. PICK q, r : q \in Seq(Message) /\ q = received[c] /\ r = received'[c] /\ r = Append(q, h)
        BY <1>0, <3>1
      <3>3. /\ Len(r) = Len(q) + 1
            /\ \A i \in 1 .. Len(r) : \/ i \in 1 .. Len(q) /\ r[i] = q[i]
                                      \/ i = Len(q) + 1 /\ r[i] = h
        BY <2>1, <3>2, AppendedIndex
      <3> QED
        BY <3>2, <3>3
    <2>4. \A i \in 1 .. Len(received'[c]) : received'[c][i] = Reply(c, i)
      BY <1>0, <2>2, <2>3 DEF Delivered
    <2>5. ASSUME NEW i \in 1 .. Len(inbox'[c])
          PROVE  inbox'[c][i] = Reply(c, Len(received'[c]) + i)
      <3>1. inbox'[c][i] = Reply(c, R + (i + 1))
        BY <1>0, <2>1 DEF Delivered
      <3>2. R + (i + 1) = Len(received'[c]) + i
        <4>1. i \in Nat /\ \A k \in Nat : k + (i + 1) = (k + 1) + i
          BY <1>0, <2>1
        <4> QED
          BY <1>0, <2>3, <4>1
      <3> QED
        BY <3>1, <3>2
    <2> QED
      BY <1>5, <2>4, <2>5 DEF Delivered, Reply
  <1> QED
    BY <1>1, <1>2, <1>3, <1>4, <1>5, ChannelStep

-----------------------------------------------------------------------------
\* The n-th reply to call c under id j, and what it means that a channel q holds
\* the replies to c after the t-th up to the s-th, in order and each once.
Nth(j, c, n) == [job |-> j, call |-> c, n |-> n]

Queued(q, c, j, t, s) ==
    /\ t <= s
    /\ \A n \in t + 1 .. s : \E i \in 1 .. Len(q) : q[i] = Nth(j, c, n)
    /\ \A i \in 1 .. Len(q) : q[i].call = c =>
          /\ q[i] = Nth(j, c, q[i].n)
          /\ q[i].n \in t + 1 .. s
          /\ \A k \in i + 1 .. Len(q) : q[k].call = c => q[i].n < q[k].n

\* OnTheWay in these terms.
LEMMA WayIsQueue ==
    ASSUME NEW c \in Call
    PROVE  OnTheWay(c) <=> /\ InHand(c) => hand[1] = Nth(job[c], c, Taken(c))
                           /\ Queued(fromWorker, c, job[c], Taken(c), sent[c])
  BY DEF OnTheWay, Queued, Reply, Nth

\* Sending the next reply to c,
LEMMA QueueOwnSent ==
    ASSUME NEW q \in Seq(Message), NEW c \in Call, NEW j \in Nat, NEW t \in Nat, NEW s \in Nat,
           Queued(q, c, j, t, s), NEW r, r = Append(q, Nth(j, c, s + 1))
    PROVE  Queued(r, c, j, t, s + 1)
  <1> DEFINE m == Nth(j, c, s + 1)
  <1>1. m \in Message /\ m.call = c /\ m.n = s + 1 /\ m = Nth(j, c, m.n)
    BY DEF Message, Nth
  <1>2. r = Append(q, m)
    OBVIOUS
  <1> HIDE DEF m
  <1>3. /\ Len(r) = Len(q) + 1 /\ Len(q) \in Nat /\ r[Len(q) + 1] = m
        /\ \A i \in 1 .. Len(q) : i \in 1 .. Len(r) /\ r[i] = q[i]
    BY <1>1, <1>2, Appended
  <1>4. \A i \in 1 .. Len(r) : \/ i \in 1 .. Len(q) /\ r[i] = q[i]
                               \/ i = Len(q) + 1 /\ r[i] = m
    BY <1>1, <1>2, AppendedIndex
  <1>5. \A n \in t + 1 .. s + 1 : \E i \in 1 .. Len(r) : r[i] = Nth(j, c, n)
    <2> TAKE n \in t + 1 .. s + 1
    <2>1. CASE n = s + 1
      <3>1. r[Len(q) + 1] = Nth(j, c, n) /\ Len(q) + 1 \in 1 .. Len(r)
        BY <1>3, <2>1 DEF m
      <3> QED
        BY <3>1
    <2>2. CASE n # s + 1
      <3>1. n \in t + 1 .. s
        BY <2>2
      <3>2. PICK i \in 1 .. Len(q) : q[i] = Nth(j, c, n)
        BY <3>1 DEF Queued
      <3> QED
        BY <1>3, <3>2
    <2> QED
      BY <2>1, <2>2
  <1>6. ASSUME NEW i \in 1 .. Len(r), r[i].call = c
        PROVE  /\ r[i] = Nth(j, c, r[i].n)
               /\ r[i].n \in t + 1 .. s + 1
               /\ \A k \in i + 1 .. Len(r) : r[k].call = c => r[i].n < r[k].n
    <2>1. CASE i \in 1 .. Len(q) /\ r[i] = q[i]
      <3>1. /\ q[i] = Nth(j, c, q[i].n) /\ q[i].n \in t + 1 .. s
            /\ \A k \in i + 1 .. Len(q) : q[k].call = c => q[i].n < q[k].n
        BY <1>6, <2>1 DEF Queued
      <3>2. ASSUME NEW k \in i + 1 .. Len(r), r[k].call = c PROVE r[i].n < r[k].n
        <4>1. k \in 1 .. Len(r)
          BY <1>3
        <4>2. CASE k \in 1 .. Len(q) /\ r[k] = q[k]
          <5>1. k \in i + 1 .. Len(q)
            BY <1>3, <4>2
          <5> QED
            BY <2>1, <3>1, <3>2, <4>2, <5>1
        <4>3. CASE k = Len(q) + 1 /\ r[k] = m
          BY <1>1, <2>1, <3>1, <4>3
        <4> QED
          BY <1>4, <4>1, <4>2, <4>3
      <3>3. r[i].n \in t + 1 .. s + 1
        BY <2>1, <3>1
      <3> QED
        BY <2>1, <3>1, <3>2, <3>3
    <2>2. CASE i = Len(q) + 1 /\ r[i] = m
      <3>1. t + 1 <= s + 1
        BY DEF Queued
      <3>2. i + 1 .. Len(r) = {}
        BY <1>3, <2>2
      <3> QED
        BY <1>1, <2>2, <3>1, <3>2
    <2> QED
      BY <1>4, <2>1, <2>2
  <1>7. t <= s + 1
    BY DEF Queued
  <1> QED
    BY <1>5, <1>6, <1>7 DEF Queued

\* or a reply to another call,
LEMMA QueueOtherSent ==
    ASSUME NEW q \in Seq(Message), NEW c \in Call, NEW j \in Nat, NEW t \in Nat, NEW s \in Nat,
           Queued(q, c, j, t, s), NEW m \in Message, m.call # c, NEW r, r = Append(q, m)
    PROVE  Queued(r, c, j, t, s)
  <1>3. /\ Len(r) = Len(q) + 1 /\ Len(q) \in Nat
        /\ \A i \in 1 .. Len(q) : i \in 1 .. Len(r) /\ r[i] = q[i]
    BY Appended
  <1>4. \A i \in 1 .. Len(r) : r[i].call = c => i \in 1 .. Len(q) /\ r[i] = q[i]
    BY AppendedIndex
  <1>5. ASSUME NEW n \in t + 1 .. s PROVE \E i \in 1 .. Len(r) : r[i] = Nth(j, c, n)
    <2>1. PICK i \in 1 .. Len(q) : q[i] = Nth(j, c, n)
      BY DEF Queued
    <2> QED
      BY <1>3, <2>1
  <1>6. ASSUME NEW i \in 1 .. Len(r), r[i].call = c
        PROVE  /\ r[i] = Nth(j, c, r[i].n)
               /\ r[i].n \in t + 1 .. s
               /\ \A k \in i + 1 .. Len(r) : r[k].call = c => r[i].n < r[k].n
    <2>1. i \in 1 .. Len(q) /\ r[i] = q[i]
      BY <1>4, <1>6
    <2>2. /\ q[i] = Nth(j, c, q[i].n) /\ q[i].n \in t + 1 .. s
          /\ \A k \in i + 1 .. Len(q) : q[k].call = c => q[i].n < q[k].n
      BY <1>6, <2>1 DEF Queued
    <2>3. ASSUME NEW k \in i + 1 .. Len(r), r[k].call = c PROVE r[i].n < r[k].n
      <3>1. k \in 1 .. Len(r)
        BY <1>3
      <3>2. k \in 1 .. Len(q) /\ r[k] = q[k]
        BY <1>4, <2>3, <3>1
      <3>3. k \in i + 1 .. Len(q)
        BY <1>3, <3>2
      <3> QED
        BY <2>1, <2>2, <2>3, <3>2, <3>3
    <2> QED
      BY <2>1, <2>2, <2>3
  <1>7. t <= s
    BY DEF Queued
  <1> QED
    BY <1>5, <1>6, <1>7 DEF Queued

\* taking a reply to another call,
LEMMA QueueOtherTaken ==
    ASSUME NEW q \in Seq(Message), NEW c \in Call, NEW j \in Nat, NEW t \in Nat, NEW s \in Nat,
           Queued(q, c, j, t, s), q # <<>>, Head(q).call # c, NEW r, r = Tail(q)
    PROVE  Queued(r, c, j, t, s)
  <1>1. /\ Len(r) = Len(q) - 1 /\ Len(q) \in Nat /\ Head(q) = q[1]
        /\ \A i \in 1 .. Len(r) : i + 1 \in 1 .. Len(q) /\ r[i] = q[i + 1]
        /\ \A i \in 1 .. Len(q) : i # 1 => i - 1 \in 1 .. Len(r) /\ r[i - 1] = q[i]
    BY Received
  <1>2. ASSUME NEW n \in t + 1 .. s PROVE \E i \in 1 .. Len(r) : r[i] = Nth(j, c, n)
    <2>1. PICK i \in 1 .. Len(q) : q[i] = Nth(j, c, n)
      BY DEF Queued
    <2>2. i # 1
      BY <1>1, <2>1 DEF Nth
    <2> QED
      BY <1>1, <2>1, <2>2
  <1>3. ASSUME NEW i \in 1 .. Len(r), r[i].call = c
        PROVE  /\ r[i] = Nth(j, c, r[i].n)
               /\ r[i].n \in t + 1 .. s
               /\ \A k \in i + 1 .. Len(r) : r[k].call = c => r[i].n < r[k].n
    <2>1. i + 1 \in 1 .. Len(q) /\ r[i] = q[i + 1]
      BY <1>1
    <2>2. /\ r[i] = Nth(j, c, r[i].n) /\ r[i].n \in t + 1 .. s
          /\ \A k \in i + 1 + 1 .. Len(q) : q[k].call = c => r[i].n < q[k].n
      BY <1>3, <2>1 DEF Queued
    <2>3. ASSUME NEW k \in i + 1 .. Len(r), r[k].call = c PROVE r[i].n < r[k].n
      <3>1. k \in 1 .. Len(r) /\ k + 1 \in i + 1 + 1 .. Len(q)
        BY <1>1
      <3>2. r[k] = q[k + 1]
        BY <1>1, <3>1
      <3> QED
        BY <2>2, <2>3, <3>1, <3>2
    <2> QED
      BY <2>2, <2>3
  <1>4. t <= s
    BY DEF Queued
  <1> QED
    BY <1>2, <1>3, <1>4 DEF Queued

\* and taking the next one to c.
LEMMA QueueOwnTaken ==
    ASSUME NEW q \in Seq(Message), NEW c \in Call, NEW j \in Nat, NEW t \in Nat, NEW s \in Nat,
           Queued(q, c, j, t, s), q # <<>>, Head(q) = Nth(j, c, t + 1), t < s, NEW r, r = Tail(q)
    PROVE  Queued(r, c, j, t + 1, s)
  <1>1. /\ Len(r) = Len(q) - 1 /\ Len(q) \in Nat /\ Head(q) = q[1] /\ 1 \in 1 .. Len(q)
        /\ \A i \in 1 .. Len(r) : i + 1 \in 1 .. Len(q) /\ r[i] = q[i + 1]
        /\ \A i \in 1 .. Len(q) : i # 1 => i - 1 \in 1 .. Len(r) /\ r[i - 1] = q[i]
    BY Received
  <1>2. q[1].call = c /\ q[1].n = t + 1
    BY <1>1 DEF Nth
  <1>3. ASSUME NEW n \in t + 1 + 1 .. s PROVE \E i \in 1 .. Len(r) : r[i] = Nth(j, c, n)
    <2>1. n \in t + 1 .. s /\ n # t + 1
      OBVIOUS
    <2>2. PICK i \in 1 .. Len(q) : q[i] = Nth(j, c, n)
      BY <2>1 DEF Queued
    <2>3. q[i].n = n
      BY <2>2 DEF Nth
    <2>4. i # 1
      BY <1>2, <2>1, <2>3
    <2> QED
      BY <1>1, <2>2, <2>4
  <1>4. ASSUME NEW i \in 1 .. Len(r), r[i].call = c
        PROVE  /\ r[i] = Nth(j, c, r[i].n)
               /\ r[i].n \in t + 1 + 1 .. s
               /\ \A k \in i + 1 .. Len(r) : r[k].call = c => r[i].n < r[k].n
    <2>1. i + 1 \in 1 .. Len(q) /\ r[i] = q[i + 1] /\ i + 1 \in 1 + 1 .. Len(q)
      BY <1>1
    <2>2. /\ r[i] = Nth(j, c, r[i].n) /\ r[i].n \in t + 1 .. s
          /\ \A k \in i + 1 + 1 .. Len(q) : q[k].call = c => r[i].n < q[k].n
      BY <1>4, <2>1 DEF Queued
    <2>3. ASSUME NEW k \in i + 1 .. Len(r), r[k].call = c PROVE r[i].n < r[k].n
      <3>1. k \in 1 .. Len(r) /\ k + 1 \in i + 1 + 1 .. Len(q)
        BY <1>1
      <3>2. r[k] = q[k + 1]
        BY <1>1, <3>1
      <3> QED
        BY <2>2, <2>3, <3>1, <3>2
    <2>4. t + 1 < r[i].n
      BY <1>1, <1>2, <1>4, <2>1 DEF Queued
    <2>5. r[i].n \in t + 1 + 1 .. s
      BY <2>2, <2>4
    <2> QED
      BY <2>2, <2>3, <2>5
  <1>5. t + 1 <= s
    OBVIOUS
  <1> QED
    BY <1>3, <1>4, <1>5 DEF Queued

\* The same about the next state, with the count of messages taken given by name.
LEMMA WayIsQueueNext ==
    ASSUME NEW c \in Call, NEW T, T = Taken(c)',
           InHand(c)' => hand'[1] = Nth(job'[c], c, T),
           Queued(fromWorker', c, job'[c], T, sent'[c])
    PROVE  OnTheWay(c)'
  BY DEF OnTheWay, Queued, Reply, Nth

\* How many messages of a call were taken.
LEMMA TakenIs ==
    ASSUME NEW c \in Call
    PROVE  /\ InHand(c) => Taken(c) = Len(received[c]) + Len(inbox[c]) + 1
           /\ ~InHand(c) => Taken(c) = Len(received[c]) + Len(inbox[c]) + 0
           /\ InHand(c)' => Taken(c)' = Len(received'[c]) + Len(inbox'[c]) + 1
           /\ ~InHand(c)' => Taken(c)' = Len(received'[c]) + Len(inbox'[c]) + 0
  BY DEF Taken, InHand

\* A call that has just sent its request has no message anywhere.
LEMMA NothingYet ==
    ASSUME TypeOK, RefsRight, CallShape, NEW c \in Call, SendRequest(c)
    PROVE  OnTheWay(c)'
  <1>1. stage[c] = "send" /\ UNCHANGED <<received, inbox, fromWorker, hand, sent>>
    BY DEF SendRequest, Move, demuxVars, workerVars
  <1>2. sent[c] = 0 /\ received[c] = <<>> /\ inbox[c] = <<>>
    BY <1>1 DEF CallShape, Early
  <1>3. \A i \in 1 .. Len(fromWorker) : fromWorker[i].call # c
    <2>1. \A i \in 1 .. Len(fromWorker) : fromWorker[i] \in Message /\ fromWorker[i] \in Range(fromWorker)
      BY DEF TypeOK, Range
    <2> QED
      BY <1>1, <2>1 DEF RefsRight, Early
  <1>4. ~InHand(c)'
    <2>1. ~InHand(c)
      <3>1. ASSUME InHand(c) PROVE FALSE
        <4>1. hand # <<>> /\ hand[1].call = c
          BY <3>1 DEF InHand
        <4>2. hand[1] \in Message /\ hand[1] \in Range(hand)
          BY <4>1, HandHolds
        <4> QED
          BY <1>1, <4>1, <4>2 DEF RefsRight, Early
      <3> QED
        BY <3>1
    <2> QED
      BY <1>1, <2>1 DEF InHand
  <1>5. Taken(c)' = 0
    <2>1. Len(received'[c]) = 0 /\ Len(inbox'[c]) = 0
      BY <1>1, <1>2
    <2>2. Taken(c)' = Len(received'[c]) + Len(inbox'[c]) + 0
      BY <1>4, TakenIs
    <2>3. Len(received'[c]) + Len(inbox'[c]) + 0 = 0
      BY <2>1
    <2> QED
      BY <2>2, <2>3, Zenon
  <1>6. Queued(fromWorker', c, job'[c], 0, sent'[c])
    BY <1>1, <1>2, <1>3 DEF Queued
  <1> QED
    BY <1>4, <1>5, <1>6, WayIsQueueNext

\* A call whose messages a step leaves alone.
LEMMA WayKept ==
    ASSUME NEW c \in Call, OnTheWay(c), Taken(c)' = Taken(c), UNCHANGED <<fromWorker, hand>>,
           job'[c] = job[c], sent'[c] = sent[c]
    PROVE  OnTheWay(c)'
  <1>1. PICK T : T = Taken(c)
    OBVIOUS
  <1>2. /\ InHand(c) => hand[1] = Nth(job[c], c, T)
        /\ Queued(fromWorker, c, job[c], T, sent[c])
    BY <1>1, WayIsQueue
  <1>3. InHand(c)' => hand'[1] = Nth(job'[c], c, T)
    BY <1>2 DEF InHand
  <1>4. Queued(fromWorker', c, job'[c], T, sent'[c])
    BY <1>2
  <1> QED
    BY <1>1, <1>3, <1>4, WayIsQueueNext

\* The demultiplexer takes a message of c: it has a listener for it, so that c is
\* given it or will be.
LEMMA WayOwnTaken ==
    ASSUME TypeOK, IdsUnique, RefsRight, Heard, CallShape, NothingLost, DemuxMessage,
           NEW c \in Call, stage[c] \in {"wait", "open"}, Head(fromWorker).call = c
    PROVE  OnTheWay(c)'
  <1> DEFINE m == Head(fromWorker)
  <1>1. demux = "select" /\ fromWorker # <<>> /\ UNCHANGED <<job, received, sent, stage>>
        /\ fromWorker' = Tail(fromWorker) /\ ~DemuxGone
    BY DEF DemuxMessage, callVars, workerVars, DemuxGone
  <1>2. PICK T \in Nat, R \in Nat, I \in Nat, J \in Nat, N \in Nat :
           T = Taken(c) /\ R = Len(received[c]) /\ I = Len(inbox[c]) /\ J = job[c] /\ N = sent[c]
    BY TakenNat DEF TypeOK
  <1>3. m = Nth(J, c, T + 1) /\ T < N /\ ~InHand(c) /\ T = R + I
    BY <1>1, <1>2, HeadIsNext DEF Reply, Nth
  <1>4. m \in Range(fromWorker) /\ m \in Message /\ m.job = job[c]
    <2>1. fromWorker \in Seq(Message)
      BY DEF TypeOK
    <2>2. m \in Range(fromWorker) /\ m \in Message
      BY <1>1, <2>1, Received
    <2>3. m.job = J
      BY <1>3 DEF Nth
    <2> QED
      BY <1>2, <2>2, <2>3
  <1>5. Listener(c)
    <2>1. ASSUME c \in One, I > 0 PROVE FALSE
      <3>1. N <= 1
        BY <1>2, <2>1 DEF CallShape
      <3> HIDE <1>2
      <3> QED
        BY <1>3, <2>1, <3>1
    <2> QED
      BY <1>1, <1>2, <2>1 DEF Heard
  <1>6. Queued(fromWorker', c, J, T + 1, N)
    <2>1. Queued(fromWorker, c, J, T, N)
      BY <1>1, <1>2, WayIsQueue DEF NothingLost
    <2>2. PICK q, r : q \in Seq(Message) /\ q = fromWorker /\ r = fromWorker' /\ r = Tail(q)
      BY <1>1 DEF TypeOK
    <2>3. Queued(q, c, J, T, N) /\ q # <<>> /\ Head(q) = Nth(J, c, T + 1)
      BY <1>1, <1>3, <2>1, <2>2
    <2> HIDE <1>2
    <2>4. Queued(r, c, J, T + 1, N)
      BY <1>3, <2>2, <2>3, QueueOwnTaken
    <2> QED
      BY <2>2, <2>4
  <1>7. hand = <<>>
    BY <1>1, HandHolds
  <1>8. Taken(c)' = T + 1 /\ (InHand(c)' => hand'[1] = m)
    <2>1. CASE c \in One
      <3>1. <<m.job, c>> \in Listening(waitingOnce, m.job)
        BY <1>4, <1>5, <2>1 DEF Listener, Listening
      <3>2. inbox'[c] = Append(inbox[c], m) /\ UNCHANGED hand
        BY <3>1 DEF DemuxMessage, Live, InCall
      <3>3. ~InHand(c)'
        BY <1>7, <3>2 DEF InHand
      <3>4. Len(inbox'[c]) = I + 1
        BY <1>2, <1>4, <3>2 DEF TypeOK
      <3>5. Taken(c)' = R + (I + 1) + 0
        BY <1>1, <1>2, <3>3, <3>4, TakenIs
      <3>6. R + (I + 1) + 0 = T + 1
        <4> HIDE <1>2
        <4> QED
          BY <1>3
      <3> QED
        BY <3>3, <3>5, <3>6
    <2>2. CASE c \notin One
      <3>1. <<m.job, c>> \in Listening(waiting, m.job)
        BY <1>4, <1>5, <2>2 DEF Listener, Listening
      <3>2. Listening(waitingOnce, m.job) = {}
        <4>1. ASSUME NEW w \in waitingOnce, w[1] = m.job PROVE FALSE
          <5>1. w[2] \in Call /\ w = <<m.job, w[2]>> /\ m.job \in Nat
            BY <4>1 DEF TypeOK, Job
          <5>2. w[2] \in One
            BY <5>1 DEF RefsRight
          <5>3. m.call = w[2]
            BY <1>4, <5>1, MessageOwner
          <5> QED
            BY <2>2, <5>2, <5>3
        <4> QED
          BY <4>1 DEF Listening
      <3>3. hand' = <<m>> /\ UNCHANGED inbox
        BY <3>1, <3>2 DEF DemuxMessage
      <3>4. hand' # <<>> /\ hand'[1] = m /\ hand'[1].call = c
        BY <3>3
      <3>5. InHand(c)'
        BY <3>4 DEF InHand
      <3>6. Taken(c)' = R + I + 1
        BY <1>1, <1>2, <3>3, <3>5, TakenIs
      <3> QED
        BY <1>3, <3>4, <3>6
    <2> QED
      BY <2>1, <2>2
  <1>9. job'[c] = J /\ sent'[c] = N
    BY <1>1, <1>2
  <1> HIDE DEF m
  <1> QED
    BY <1>3, <1>6, <1>8, <1>9, WayIsQueueNext

\* It takes a message of another call.
LEMMA WayOtherTaken ==
    ASSUME TypeOK, IdsUnique, RefsRight, NothingLost, DemuxMessage,
           NEW c \in Call, stage[c] \in {"wait", "open"}, Head(fromWorker).call # c
    PROVE  OnTheWay(c)'
  <1> DEFINE m == Head(fromWorker)
  <1>1. demux = "select" /\ fromWorker # <<>> /\ UNCHANGED <<job, received, sent>>
        /\ fromWorker' = Tail(fromWorker) /\ ~DemuxGone
    BY DEF DemuxMessage, callVars, workerVars, DemuxGone
  <1>2. PICK T \in Nat, J \in Nat, N \in Nat : T = Taken(c) /\ J = job[c] /\ N = sent[c]
    BY TakenNat DEF TypeOK
  <1>3. m \in Range(fromWorker)
    BY <1>1, Received DEF TypeOK
  <1>4. hand = <<>>
    BY <1>1, HandHolds
  <1>5. inbox'[c] = inbox[c]
    <2>1. <<m.job, c>> \notin waitingOnce
      BY <1>3, MessageOwner
    <2> QED
      BY <2>1 DEF DemuxMessage, Listening, TypeOK
  <1>6. ~InHand(c)' /\ ~InHand(c)
    <2>1. hand' = hand \/ hand' = <<m>>
      BY DEF DemuxMessage
    <2>2. <<m>>[1] = m
      OBVIOUS
    <2> QED
      BY <1>4, <2>1, <2>2 DEF InHand
  <1>7. Taken(c)' = T
    BY <1>1, <1>2, <1>5, <1>6, TakenIs
  <1>8. Queued(fromWorker', c, J, T, N)
    <2>1. Queued(fromWorker, c, J, T, N)
      BY <1>1, <1>2, WayIsQueue DEF NothingLost
    <2>2. PICK q, r : q \in Seq(Message) /\ q = fromWorker /\ r = fromWorker' /\ r = Tail(q)
      BY <1>1 DEF TypeOK
    <2>3. Queued(q, c, J, T, N) /\ q # <<>> /\ Head(q).call # c
      BY <1>1, <2>1, <2>2
    <2> HIDE <1>2
    <2>4. Queued(r, c, J, T, N)
      BY <2>2, <2>3, QueueOtherTaken
    <2> QED
      BY <2>2, <2>4
  <1>9. job'[c] = J /\ sent'[c] = N
    BY <1>1, <1>2
  <1> QED
    BY <1>6, <1>7, <1>8, <1>9, WayIsQueueNext

\* It sends the message it has in hand.
LEMMA WaySent ==
    ASSUME TypeOK, IdsUnique, RefsRight, NothingLost, DemuxSend,
           NEW c \in Call, stage[c] \in {"wait", "open"}
    PROVE  OnTheWay(c)'
  <1>1. demux = "send" /\ UNCHANGED <<job, received, sent, fromWorker>> /\ hand' = <<>> /\ ~DemuxGone
    BY DEF DemuxSend, callVars, workerVars, DemuxGone
  <1>2. PICK T \in Nat, R \in Nat, I \in Nat :
           T = Taken(c) /\ R = Len(received[c]) /\ I = Len(inbox[c])
    BY TakenNat
  <1>3. hand # <<>> /\ hand[1] \in Range(hand) /\ hand[1] \in Message
    BY <1>1, HandHolds
  <1>4. PICK d \in Call : /\ <<hand[1].job, d>> \in waiting
                          /\ \/ stage[d] \in Live /\ inbox' = [inbox EXCEPT ![d] = Append(@, hand[1])]
                             \/ stage[d] \notin Live /\ UNCHANGED inbox
    BY DEF DemuxSend
  <1>5. hand[1].call = d
    BY <1>3, <1>4, MessageOwner
  <1>6. ~InHand(c)'
    BY <1>1 DEF InHand
  <1>7. Taken(c)' = T
    <2>1. CASE InHand(c)
      <3>1. d = c
        BY <1>5, <2>1 DEF InHand
      <3>2. inbox'[c] = Append(inbox[c], hand[1])
        BY <1>4, <3>1 DEF Live, InCall, TypeOK
      <3>3. Len(inbox'[c]) = I + 1
        BY <1>2, <1>3, <3>2 DEF TypeOK
      <3>4. Taken(c)' = R + (I + 1) + 0 /\ T = R + I + 1
        BY <1>1, <1>2, <1>6, <2>1, <3>3, TakenIs
      <3>5. R + (I + 1) + 0 = R + I + 1
        <4> HIDE <1>2
        <4> QED
          OBVIOUS
      <3> QED
        BY <3>4, <3>5
    <2>2. CASE ~InHand(c)
      <3>1. d # c
        BY <1>3, <1>5, <2>2 DEF InHand
      <3>2. inbox'[c] = inbox[c]
        BY <1>4, <3>1 DEF TypeOK
      <3> QED
        BY <1>1, <1>2, <1>6, <2>2, <3>2, TakenIs
    <2> QED
      BY <2>1, <2>2
  <1>8. Queued(fromWorker', c, job'[c], T, sent'[c])
    BY <1>1, <1>2, WayIsQueue DEF NothingLost
  <1> QED
    BY <1>6, <1>7, <1>8, WayIsQueueNext

\* The worker sends a message, to c or to another call.
LEMMA WayReplied ==
    ASSUME TypeOK, RefsRight, NothingLost, ~DemuxGone, NEW c \in Call, stage[c] \in {"wait", "open"},
           NEW x \in serving, WorkerReplies(x[1], x[2])
    PROVE  OnTheWay(c)'
  <1>1. UNCHANGED <<job, received, inbox, hand>>
    BY DEF WorkerReplies, callVars, demuxVars
  <1>2. PICK T \in Nat, J \in Nat, N \in Nat : T = Taken(c) /\ J = job[c] /\ N = sent[c]
    BY TakenNat DEF TypeOK
  <1>3. OnTheWay(c)
    BY DEF NothingLost
  <1>4. Queued(fromWorker, c, J, T, N) /\ (InHand(c) => hand[1] = Nth(J, c, T))
    BY <1>2, <1>3, WayIsQueue
  <1>5. Taken(c)' = T /\ (InHand(c)' <=> InHand(c))
    BY <1>1, <1>2 DEF Taken, InHand
  <1>6. x[1] \in Nat /\ x[2] \in Call /\ x = <<x[1], x[2]>>
    BY DEF TypeOK, Job
  <1> DEFINE m == Nth(x[1], x[2], sent[x[2]] + 1)
  <1>7. m \in Message /\ m.call = x[2] /\ fromWorker' = Append(fromWorker, m)
    <2>1. sent[x[2]] + 1 \in Nat
      <3>1. sent \in [Call -> Nat]
        BY DEF TypeOK
      <3> QED
        BY <1>6, <3>1
    <2>2. m \in Message /\ m.call = x[2]
      BY <1>6, <2>1 DEF Nth, Message
    <2>3. fromWorker' = Append(fromWorker, m)
      BY DEF Nth, WorkerReplies
    <2> QED
      BY <2>2, <2>3
  <1>8. Queued(fromWorker', c, J, T, sent'[c])
    <2>1. PICK q, r : q \in Seq(Message) /\ q = fromWorker /\ r = fromWorker' /\ r = Append(q, m)
      BY <1>7 DEF TypeOK
    <2>2. CASE x[2] = c
      <3>1. x[1] = job[c] /\ sent'[c] = N + 1
        BY <1>2, <1>6, <2>2 DEF RefsRight, WorkerReplies, TypeOK
      <3>2. m = Nth(J, c, N + 1)
        BY <1>2, <2>2, <3>1
      <3> HIDE <1>2 DEF m
      <3>3. Queued(r, c, J, T, N + 1)
        BY <1>4, <2>1, <3>2, QueueOwnSent
      <3> QED
        BY <2>1, <3>1, <3>3
    <2>3. CASE x[2] # c
      <3>1. sent'[c] = N
        BY <1>2, <1>6, <2>3 DEF WorkerReplies, TypeOK
      <3> HIDE <1>2 DEF m
      <3>2. Queued(r, c, J, T, N)
        BY <1>4, <1>7, <2>1, <2>3, QueueOtherSent
      <3> QED
        BY <2>1, <3>1, <3>2
    <2> QED
      BY <2>2, <2>3
  <1>9. InHand(c)' => hand'[1] = Nth(job'[c], c, T)
    BY <1>1, <1>2, <1>4, <1>5
  <1>10. job'[c] = J
    BY <1>1, <1>2
  <1> QED
    BY <1>5, <1>8, <1>9, <1>10, WayIsQueueNext

\* No reply is lost: every step moves the replies to a waiting call along, or
\* leaves them where they are.
LEMMA LostStep ==
    ASSUME Inv, Next
    PROVE  NothingLost'
  <1>0. /\ TypeOK /\ IdsUnique /\ RefsRight /\ Heard /\ CallShape /\ AllDelivered /\ NothingLost
    BY DEF Inv
  <1> SUFFICES ASSUME NEW c \in Call, stage'[c] \in {"wait", "open"}, ~DemuxGone'
               PROVE  Delivered(c)' /\ OnTheWay(c)'
    BY DEF NothingLost
  <1>1. Delivered(c)'
    BY <1>0, DeliveredStep DEF AllDelivered
  <1>2. ~DemuxGone
    BY DemuxGoneStays
  <1>3. CASE SendRequest(c)
    BY <1>0, <1>1, <1>3, NothingYet
  <1>4. CASE ~SendRequest(c)
    <2>1. stage[c] \in {"wait", "open"}
      BY <1>0, <1>4, StageStep
    <2>2. OnTheWay(c) /\ job'[c] = job[c]
      BY <1>0, <1>2, <2>1, Progress DEF NothingLost
    <2>3. ASSUME Taken(c)' = Taken(c), UNCHANGED <<fromWorker, hand, sent>> PROVE OnTheWay(c)'
      BY <2>2, <2>3, WayKept
    <2>4. ASSUME NEW d \in Call, CallStep(d), ~(d = c /\ Receive(c)) PROVE OnTheWay(c)'
      <3>1. UNCHANGED <<fromWorker, hand, sent>>
        BY <2>4 DEF CallStep, NextId, SendCommand, AwaitAck, SendRequest, Receive, Abandon,
                    GiveInput, TakeInput, SendInput, InputFails,
                    demuxVars, workerVars
      <3>2. received'[c] = received[c] /\ inbox'[c] = inbox[c]
        BY <1>0, <2>4 DEF CallStep, NextId, SendCommand, AwaitAck, SendRequest, Receive, Abandon,
                          GiveInput, TakeInput, SendInput, InputFails, TypeOK
      <3>3. Taken(c)' = Taken(c)
        BY <3>1, <3>2 DEF Taken, InHand
      <3> QED
        BY <2>3, <3>1, <3>3
    <2>5. CASE Receive(c)
      <3>1. inbox[c] # <<>> /\ inbox'[c] = Tail(inbox[c]) /\ UNCHANGED <<fromWorker, hand, sent>>
            /\ received'[c] = Append(received[c], Head(inbox[c]))
        BY <1>0, <1>2, <2>5 DEF Receive, TypeOK, demuxVars, workerVars
      <3>2. PICK R \in Nat, I \in Nat : R = Len(received[c]) /\ I = Len(inbox[c])
        BY <1>0, TakenNat
      <3>3. Len(received'[c]) = R + 1 /\ Len(inbox'[c]) = I - 1
        <4>1. received[c] \in Seq(Message) /\ inbox[c] \in Seq(Message)
          BY <1>0, TakenNat
        <4>2. Head(inbox[c]) \in Message
          BY <3>1, <4>1
        <4> QED
          BY <3>1, <3>2, <4>1, <4>2
      <3>4. R + 1 + (I - 1) + 1 = R + I + 1 /\ R + 1 + (I - 1) + 0 = R + I + 0
        <4> HIDE <3>2
        <4> QED
          OBVIOUS
      <3>5. InHand(c)' <=> InHand(c)
        BY <3>1 DEF InHand
      <3>6. Taken(c)' = Taken(c)
        <4>1. CASE InHand(c)
          <5>1. Taken(c)' = R + 1 + (I - 1) + 1
            BY <3>3, <3>5, <4>1, TakenIs, Zenon
          <5>2. Taken(c) = R + I + 1
            BY <3>2, <4>1, TakenIs, Zenon
          <5> QED
            BY <3>4, <5>1, <5>2, Zenon
        <4>2. CASE ~InHand(c)
          <5>1. Taken(c)' = R + 1 + (I - 1) + 0
            BY <3>3, <3>5, <4>2, TakenIs, Zenon
          <5>2. Taken(c) = R + I + 0
            BY <3>2, <4>2, TakenIs, Zenon
          <5> QED
            BY <3>4, <5>1, <5>2, Zenon
        <4> QED
          BY <4>1, <4>2
      <3> QED
        BY <1>1, <2>3, <3>1, <3>6
    <2>6. CASE DropCommander \/ DemuxCommand \/ DemuxGc \/ WriteRequest \/ WorkerDies
               \/ (\E d \in Many : ProgramReads(d))
      <3>1. UNCHANGED <<fromWorker, hand, sent, received, inbox>>
        BY <2>6 DEF DropCommander, DemuxCommand, DemuxGc, WriteRequest, WorkerDies, ProgramReads, demuxVars, workerVars
      <3>2. Taken(c)' = Taken(c)
        BY <3>1 DEF Taken, InHand
      <3> QED
        BY <1>1, <2>3, <3>1, <3>2
    <2>7. CASE DemuxMessage
      BY <1>0, <1>1, <2>1, <2>7, WayOwnTaken, WayOtherTaken
    <2>8. CASE DemuxSend
      BY <1>0, <1>1, <2>1, <2>8, WaySent
    <2>9. CASE DemuxEnd \/ DemuxAborted
      BY <2>9 DEF DemuxEnd, DemuxAborted, DemuxGone
    <2>10. ASSUME NEW x \in serving, WorkerReplies(x[1], x[2]) PROVE OnTheWay(c)'
      BY <1>0, <1>2, <2>1, <2>10, WayReplied
    <2> QED
      BY <1>1, <2>4, <2>5, <2>6, <2>7, <2>8, <2>9, <2>10 DEF Next, Demultiplex, Worker
  <1> QED
    BY <1>3, <1>4

-----------------------------------------------------------------------------
\* No call was made yet.
LEMMA InitInv == Init => Inv
  <1> SUFFICES ASSUME Init PROVE Inv
    OBVIOUS
  <1> USE DEF Init
  <1>1. TypeOK
    BY CommanderAssumption DEF TypeOK, Stage, Live, InCall
  <1>2. IdsUnique
    BY DEF IdsUnique
  <1>3. RefsRight
    BY EmptyRange DEF RefsRight, Jobs
  <1>4. CommandsOnce
    BY EmptyRange DEF CommandsOnce
  <1>5. Heard
    BY DEF Heard
  <1>6. CallShape
    BY DEF CallShape, Call
  <1>7. AllDelivered
    BY DEF AllDelivered, Delivered
  <1>8. NothingLost
    BY DEF NothingLost
  <1>9. NoDuplicateId
    BY DEF NoDuplicateId
  <1> QED
    BY <1>1, <1>2, <1>3, <1>4, <1>5, <1>6, <1>7, <1>8, <1>9 DEF Inv

\* A step in which nothing changes keeps the invariant.
LEMMA StutterInv == Inv /\ UNCHANGED vars => Inv'
  <1> SUFFICES ASSUME Inv, UNCHANGED vars PROVE Inv'
    OBVIOUS
  <1> USE DEF Inv, vars, callVars, demuxVars, workerVars
  <1>1. TypeOK'
    BY DEF TypeOK
  <1>2. IdsUnique'
    BY DEF IdsUnique
  <1>3. RefsRight'
    BY DEF RefsRight
  <1>4. CommandsOnce'
    BY DEF CommandsOnce, Listener
  <1>5. Heard'
    BY DEF Heard, Listener, DemuxGone
  <1>6. CallShape'
    BY DEF CallShape
  <1>7. AllDelivered'
    BY DEF AllDelivered, Delivered, Reply
  <1>8. NothingLost'
    <2> SUFFICES ASSUME NEW c \in Call, stage'[c] \in {"wait", "open"}, ~DemuxGone'
                 PROVE  Delivered(c)' /\ OnTheWay(c)'
      BY DEF NothingLost
    <2>1. OnTheWay(c)
      BY DEF NothingLost, DemuxGone
    <2>2. Taken(c)' = Taken(c)
      BY DEF Taken, InHand
    <2>3. OnTheWay(c)'
      BY <2>1, <2>2, WayKept
    <2> QED
      BY <1>7, <2>3 DEF AllDelivered
  <1>9. NoDuplicateId'
    BY DEF NoDuplicateId
  <1> QED
    BY <1>1, <1>2, <1>3, <1>4, <1>5, <1>6, <1>7, <1>8, <1>9

\* The inductive invariant holds in every reachable state.
THEOREM Invariance == Spec => []Inv
  <1>1. Inv /\ Next => Inv'
    <2> SUFFICES ASSUME Inv, Next PROVE Inv'
      OBVIOUS
    <2>1. /\ TypeOK /\ IdsUnique /\ RefsRight /\ CommandsOnce /\ Heard /\ CallShape
          /\ AllDelivered /\ NothingLost /\ NoDuplicateId
      BY DEF Inv
    <2>2. TypeOK' /\ NothingLost'
      BY TypeStep, LostStep
    <2>3. IdsUnique' /\ RefsRight'
      BY <2>1, IdsStep, RefsStep
    <2>4. CommandsOnce' /\ NoDuplicateId'
      BY <2>1, CommandsStep, DuplicateStep
    <2>5. Heard' /\ CallShape'
      BY <2>1, HeardStep, ShapeStep
    <2>6. AllDelivered'
      BY <2>1, DeliveredStep
    <2> QED
      BY <2>2, <2>3, <2>4, <2>5, <2>6 DEF Inv
  <1> QED
    BY <1>1, InitInv, StutterInv, PTL DEF Spec

\* As long as a call waits and the demultiplexer runs, every message the worker
\* sent for it has been given to it or is on its way to it, each once and in
\* order: none is logged as having no listener, none goes to another call.
THEOREM NoReplyLost == Spec => []NothingLost
  <1>1. Inv => NothingLost
    BY DEF Inv
  <1> QED
    BY <1>1, Invariance, PTL

\* `Commander::one` returns the answer to its own request.
THEOREM AnswersAreOwn == Spec => []OwnAnswer
  <1>1. Inv => OwnAnswer
    <2> SUFFICES ASSUME Inv, NEW c \in One, stage[c] = "done"
                 PROVE  received[c] = <<Reply(c, 1)>>
      BY DEF OwnAnswer
    <2>1. c \in Call
      BY DEF Call
    <2>2. received[c] \in Seq(Message) /\ Len(received[c]) = 1
      BY <2>1 DEF Inv, TypeOK, CallShape
    <2>3. received[c][1] = Reply(c, 1)
      BY <2>1, <2>2 DEF Inv, AllDelivered, Delivered
    <2>4. PICK q, m : q \in Seq(Message) /\ q = received[c] /\ m = Reply(c, 1)
      BY <2>2
    <2>5. Len(q) = 1 /\ q[1] = m
      BY <2>2, <2>3, <2>4
    <2>6. q = <<m>>
      BY <2>4, <2>5
    <2> QED
      BY <2>4, <2>6, Zenon
  <1> QED
    BY <1>1, Invariance, PTL

\* The demultiplexer never stops over a duplicate id ("the job ID was already
\* waiting").
THEOREM IdsNeverCollide == Spec => []NoDuplicateId
  <1>1. Inv => NoDuplicateId
    BY DEF Inv
  <1> QED
    BY <1>1, Invariance, PTL
=============================================================================
