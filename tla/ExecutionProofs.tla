-------------------------- MODULE ExecutionProofs ---------------------------
(***************************************************************************)
(* Proofs about Execution for any capacity and any amount of input and     *)
(* output.                                                                 *)
(*                                                                         *)
(* The argument, for either direction: cut between any two of the tasks,   *)
(* what has arrived and what is on its way make up what was sent, in order *)
(* (StdinFlow, OutFlow), and the end travels behind the last of it         *)
(* (StdinEnd, Reported).                                                   *)
(***************************************************************************)
EXTENDS Execution, SequenceTheorems, TLAPS

\* The cargo task waits to pass on a packet of stdin.
HasIn == cargo = "send" /\ cargoHas[1].type = "StdinPacket"

\* A program that runs has a worker; one about to write has room left for it.
ChildRuns ==
    /\ Running => worker = "up"
    /\ child = "writing" => NWritten < MaxOut

\* The report of the job is its last message.
Reported ==
    /\ \A i \in 1 .. Len(fromWorker) : fromWorker[i].type # "Output" =>
          i = Len(fromWorker) /\ child = "reported"
    /\ cargo = "ok" => fromWorker = <<>> /\ child = "reported"
    /\ cargo = "err" => ~Running

\* Who holds the ends of the channels.
Ends ==
    /\ consumer = "done" => cancelled /\ ~stdinTx /\ userIn = <<>>
    /\ consumer # "done" => outRx /\ result = "none"
    /\ consumer = "stdin" => stdinTx
    /\ ~stdinTx /\ ~cancelled => userIn = <<>> /\ ~userOpen

\* The end of stdin follows the last packet.
StdinEnd ==
    /\ ~stdinOpen => ~stdinTx /\ stdinCh = <<>>
    /\ cargo = "send" /\ cargoHas[1].type = "StdinClose" => ~stdinOpen
    /\ \A i \in 1 .. Len(toWorker) : toWorker[i].type = "StdinClose" =>
          /\ ~stdinOpen /\ ~HasIn
          /\ \A k \in i + 1 .. Len(toWorker) : toWorker[k].type # "StdinPacket"
    /\ childEof =>
          /\ ~stdinOpen /\ ~HasIn
          /\ \A i \in 1 .. Len(toWorker) : toWorker[i].type # "StdinPacket"

\* m is the n-th packet of stdin.
IsIn(m, n) == m.type = "StdinPacket" /\ m.data = n

\* q holds the packets after the t-th up to the s-th, in order and each once.
Queued(q, t, s) ==
    /\ t <= s
    /\ \A n \in t + 1 .. s : \E i \in 1 .. Len(q) : IsIn(q[i], n)
    /\ \A i \in 1 .. Len(q) : q[i].type = "StdinPacket" =>
          /\ q[i].data \in t + 1 .. s
          /\ \A k \in i + 1 .. Len(q) : q[k].type = "StdinPacket" => q[i].data < q[k].data

\* The packets in the channel, in the consumer's hand and on their way from the
\* user follow the t-th one; the last is the n-th, unless the consumer is over.
Line(t, ch, has, user, over, n) ==
    /\ \A i \in 1 .. Len(ch) : ch[i] = t + i
    /\ \A i \in 1 .. Len(has) : has[i] = t + Len(ch) + i
    /\ \A i \in 1 .. Len(user) : user[i] = t + Len(ch) + Len(has) + i
    /\ t + Len(ch) + Len(has) + Len(user) <= n
    /\ ~over => t + Len(ch) + Len(has) + Len(user) = n

Behind(t) == Line(t, stdinCh, consumerHas, userIn, consumer = "done", nIn)

StdinFlow ==
    /\ \A i \in 1 .. Len(childIn) : childIn[i] = i
    /\ Len(childIn) <= nIn
    /\ Running => \E s \in 0 .. nIn :
          /\ Queued(toWorker, Len(childIn), s)
          /\ HasIn => cargoHas[1].data = s + 1
          /\ Behind(IF HasIn THEN s + 1 ELSE s)

\* m is a packet of output stream s, and its number.
Of(m, s) == m.type = "Output" /\ m.packet[1] = s
No(m) == m.packet[2]

\* The packets of a stream are numbered in the order they were written.
Numbered(w, n) ==
    /\ \A i \in 1 .. Len(w) : w[i] <= n
    /\ \A i, k \in 1 .. Len(w) : i < k => w[i] < w[k]

\* Of stream s, q holds what w has after the t-th packet, in order and each once.
Carried(q, s, w, t) ==
    /\ t <= Len(w)
    /\ \A n \in t + 1 .. Len(w) : \E i \in 1 .. Len(q) : Of(q[i], s) /\ No(q[i]) = w[n]
    /\ \A i \in 1 .. Len(q) : Of(q[i], s) =>
          /\ \E n \in t + 1 .. Len(w) : No(q[i]) = w[n]
          /\ \A k \in i + 1 .. Len(q) : Of(q[k], s) => No(q[i]) < No(q[k])

\* Of what was written to s, the first packets were delivered, the next ones are
\* in the channel and in the cargo task's hand, and q carries the rest.
Trail(s, w, d, o, has, q) ==
    /\ \A i \in 1 .. Len(d) : d[i] = w[i]
    /\ \A i \in 1 .. Len(o) : o[i] = w[Len(d) + i]
    /\ \A i \in 1 .. Len(has) : has[i] = w[Len(d) + Len(o) + i]
    /\ Carried(q, s, w, Len(d) + Len(o) + Len(has))

\* The packet of s that the cargo task waits to pass on.
Hand(s) == IF cargo = "out" /\ Of(cargoHas[1], s) THEN <<No(cargoHas[1])>> ELSE <<>>

OutFlow ==
    \A s \in Stream :
      /\ Numbered(written[s], NWritten)
      /\ consumer # "done" =>
            Trail(s, written[s], delivered[s], outCh[s], Hand(s), fromWorker)

Ended == result = "end" => child = "reported"

Inv == TypeOK /\ ChildRuns /\ Reported /\ Ends /\ StdinEnd /\ StdinFlow /\ OutFlow
       /\ Ended /\ OutputBeforeEnd

-----------------------------------------------------------------------------
\* What is in a channel after a send ...
LEMMA Appended ==
    ASSUME NEW S, NEW q \in Seq(S), NEW m \in S, NEW r, r = Append(q, m)
    PROVE  /\ r \in Seq(S) /\ Len(r) = Len(q) + 1 /\ Len(q) \in Nat /\ r[Len(q) + 1] = m
           /\ \A i \in 1 .. Len(q) : i \in 1 .. Len(r) /\ r[i] = q[i]
           /\ \A i \in 1 .. Len(r) : \/ i \in 1 .. Len(q) /\ r[i] = q[i]
                                     \/ i = Len(q) + 1 /\ r[i] = m
  <1>1. /\ r \in Seq(S) /\ Len(r) = Len(q) + 1 /\ Len(q) \in Nat /\ r[Len(q) + 1] = m
        /\ \A i \in 1 .. Len(q) : r[i] = q[i] /\ q[i] \in S
    OBVIOUS
  <1> QED
    BY <1>1

\* ... and after a receive.
LEMMA Received ==
    ASSUME NEW S, NEW q \in Seq(S), q # <<>>, NEW r, r = Tail(q)
    PROVE  /\ r \in Seq(S) /\ Len(r) = Len(q) - 1 /\ Len(q) \in Nat /\ Len(q) > 0
           /\ Head(q) = q[1] /\ 1 \in 1 .. Len(q) /\ Head(q) \in S
           /\ \A i \in 1 .. Len(r) : i + 1 \in 1 .. Len(q) /\ r[i] = q[i + 1]
           /\ \A i \in 1 .. Len(q) : i # 1 => i - 1 \in 1 .. Len(r) /\ r[i - 1] = q[i]
  <1>1. /\ r \in Seq(S) /\ Len(r) = Len(q) - 1 /\ Len(q) \in Nat /\ Len(q) > 0
        /\ Head(q) = q[1] /\ 1 \in 1 .. Len(q) /\ Head(q) \in S
        /\ \A i \in 1 .. Len(r) : i + 1 \in 1 .. Len(q) /\ r[i] = q[i + 1]
    OBVIOUS
  <1>2. \A i \in 1 .. Len(q) : i # 1 => i - 1 \in 1 .. Len(r) /\ r[i - 1] = q[i]
    BY <1>1
  <1> QED
    BY <1>1, <1>2

\* A channel or hand that holds one message.
LEMMA Singleton ==
    ASSUME NEW S, NEW q \in Seq(S), Len(q) = 1
    PROVE  q # <<>> /\ q[1] \in S /\ Head(q) = q[1] /\ q = <<q[1]>>
  <1>1. q # <<>> /\ 1 \in 1 .. Len(q)
    OBVIOUS
  <1> QED
    BY <1>1

\* A message for the worker, or from it, of a given type.
LEMMA Messages ==
    /\ \A m \in ToWorker : m.type \in {"StdinPacket", "StdinClose", "Kill"}
                           /\ (m.type = "StdinPacket" => m.data \in 1 .. MaxIn)
    /\ \A n \in 1 .. MaxIn : [type |-> "StdinPacket", data |-> n] \in ToWorker
    /\ [type |-> "StdinClose"] \in ToWorker /\ [type |-> "Kill"] \in ToWorker
    /\ \A m \in FromWorker : m.type \in {"Output", "ExecuteCommand", "Error"}
                             /\ (m.type = "Output" => m \in [type : {"Output"}, packet : Packet])
    /\ \A m \in [type : {"Output"}, packet : Packet] :
          m \in FromWorker /\ m.type = "Output" /\ m.packet[1] \in Stream /\ m.packet[2] \in 1 .. MaxOut
    /\ [type |-> "ExecuteCommand"] \in FromWorker /\ [type |-> "Error"] \in FromWorker
  BY DEF ToWorker, FromWorker, Packet

\* What the cargo task and the consumer have in hand.
LEMMA InHand ==
    ASSUME TypeOK
    PROVE  /\ cargo = "send" => cargoHas \in Seq(ToWorker) /\ Len(cargoHas) = 1
                                /\ cargoHas[1] \in ToWorker
           /\ cargo = "out" => cargoHas[1] \in [type : {"Output"}, packet : Packet]
           /\ cargo \notin {"send", "out"} => Len(cargoHas) = 0
           /\ consumer = "stdin" => consumerHas[1] \in 1 .. MaxIn /\ Len(consumerHas) = 1
           /\ consumer # "stdin" => consumerHas = <<>>
  <1>1. ASSUME cargo = "send"
        PROVE  cargoHas \in Seq(ToWorker) /\ Len(cargoHas) = 1 /\ cargoHas[1] \in ToWorker
    <2>1. cargoHas \in Seq(ToWorker) /\ Len(cargoHas) = 1
      BY <1>1 DEF TypeOK
    <2> QED
      BY <2>1, Singleton
  <1>2. ASSUME cargo = "out" PROVE cargoHas[1] \in [type : {"Output"}, packet : Packet]
    <2>1. cargoHas \in Seq([type : {"Output"}, packet : Packet]) /\ Len(cargoHas) = 1
      BY <1>2 DEF TypeOK
    <2> QED
      BY <2>1, Singleton
  <1>3. ASSUME consumer = "stdin" PROVE consumerHas[1] \in 1 .. MaxIn /\ Len(consumerHas) = 1
    <2>1. consumerHas \in Seq(1 .. MaxIn) /\ Len(consumerHas) = 1
      BY <1>3 DEF TypeOK
    <2> QED
      BY <2>1, Singleton
  <1>4. /\ cargo \notin {"send", "out"} => Len(cargoHas) = 0
        /\ consumer # "stdin" => consumerHas = <<>>
    BY DEF TypeOK
  <1> QED
    BY <1>1, <1>2, <1>3, <1>4

-----------------------------------------------------------------------------
\* The flags stay Boolean.
LEMMA FlagsStep ==
    ASSUME TypeOK, Next
    PROVE  /\ userOpen' \in BOOLEAN /\ cancelled' \in BOOLEAN /\ stdinTx' \in BOOLEAN
           /\ outRx' \in BOOLEAN /\ stdinOpen' \in BOOLEAN /\ killSent' \in BOOLEAN
           /\ childEof' \in BOOLEAN
  <1>0. /\ userOpen \in BOOLEAN /\ cancelled \in BOOLEAN /\ stdinTx \in BOOLEAN
        /\ outRx \in BOOLEAN /\ stdinOpen \in BOOLEAN /\ killSent \in BOOLEAN
        /\ childEof \in BOOLEAN
    BY DEF TypeOK
  <1> USE <1>0 DEF userVars, consumerVars, cargoVars, workerVars
  <1>1. CASE User
    BY <1>1, Zenon DEF User, UserStdin, UserStdinClose, UserKill
  <1>2. CASE ConsumeStdin \/ SendStdin \/ TaskResponse \/ EndSession \/ AbortConsumer
    BY <1>2, Zenon DEF ConsumeStdin, SendStdin, TaskResponse, EndSession, AbortConsumer, Finish
  <1>3. ASSUME NEW s \in Stream, ConsumeOutput(s) \/ Drain(s)
        PROVE  UNCHANGED <<userOpen, cancelled, stdinTx, outRx, stdinOpen, killSent, childEof>>
    BY <1>3 DEF ConsumeOutput, Drain
  <1>4. CASE Cargo
    BY <1>4, Zenon DEF Cargo, CargoCancelled, CargoStdin, CargoSend, CargoFromWorker, CargoOut
  <1>5. CASE Worker \/ Child \/ WorkerDies
    BY <1>5, Zenon DEF Worker, WorkerCommand, WorkerReports, ChildWrites, IoQueueFails, Child,
                       ChildReads, ChildExits, ChildWants, WorkerDies
  <1> QED
    BY <1>1, <1>2, <1>3, <1>4, <1>5 DEF Next, Consumer

\* Every step keeps the types; that no more is written than the bound allows
\* is ChildRuns.
LEMMA TypeStep ==
    ASSUME TypeOK, ChildRuns, Next
    PROVE  TypeOK'
  <1>0. Cap \in Nat /\ Cap >= 1 /\ MaxIn \in Nat /\ MaxOut \in Nat
    BY ExecutionAssumption
  <1>e. ASSUME NEW S PROVE <<>> \in Seq(S) /\ Len(<<>>) = 0
    OBVIOUS
  <1>f. /\ userOpen' \in BOOLEAN /\ cancelled' \in BOOLEAN /\ stdinTx' \in BOOLEAN
        /\ outRx' \in BOOLEAN /\ stdinOpen' \in BOOLEAN /\ killSent' \in BOOLEAN
        /\ childEof' \in BOOLEAN
    BY FlagsStep
  <1> USE <1>0, <1>f DEF TypeOK, userVars, consumerVars, cargoVars, workerVars
  <1>1. CASE UserStdin
    <2>1. nIn + 1 \in 1 .. MaxIn /\ nIn + 1 \in 0 .. MaxIn
      BY <1>1 DEF UserStdin
    <2>2. userIn' \in Seq(1 .. MaxIn)
      BY <1>1, <2>1 DEF UserStdin
    <2> QED
      BY <1>1, <2>1, <2>2 DEF UserStdin
  <1>2. CASE UserStdinClose \/ UserKill
    <2>1. UNCHANGED <<nIn, userIn, consumerVars, stdinCh, outCh, cargoVars, toWorker, fromWorker,
                      workerVars>>
      BY <1>2 DEF UserStdinClose, UserKill
    <2> QED
      BY <2>1
  <1>3. CASE ConsumeStdin
    <2>1. CASE userIn # <<>> /\ consumer' = "stdin" /\ consumerHas' = <<Head(userIn)>>
               /\ userIn' = Tail(userIn) /\ UNCHANGED stdinTx
      <3>1. Head(userIn) \in 1 .. MaxIn /\ userIn' \in Seq(1 .. MaxIn)
        BY <2>1
      <3>2. consumerHas' \in Seq(1 .. MaxIn) /\ Len(consumerHas') = 1
        BY <2>1, <3>1
      <3> QED
        BY <1>3, <2>1, <3>1, <3>2 DEF ConsumeStdin
    <2> QED
      BY <1>3, <2>1 DEF ConsumeStdin
  <1>4. ASSUME NEW r \in {"end", "error", "abandoned"}, Finish(r),
               UNCHANGED <<nIn, delivered, stdinCh, outCh, cargoVars, toWorker, fromWorker, workerVars>>
        PROVE  TypeOK'
    <2>1. consumerHas' \in Seq(1 .. MaxIn) /\ Len(consumerHas') = 0 /\ userIn' \in Seq(1 .. MaxIn)
      BY <1>4, <1>e DEF Finish
    <2> QED
      BY <1>4, <2>1 DEF Finish
  <1>5. CASE SendStdin
    <2>1. CASE /\ consumer = "stdin" /\ Len(stdinCh) < Cap
               /\ stdinCh' = Append(stdinCh, consumerHas[1])
               /\ consumer' = "loop" /\ consumerHas' = <<>>
               /\ UNCHANGED <<userIn, userOpen, cancelled, stdinTx, outRx, result>>
      <3>1. consumerHas[1] \in 1 .. MaxIn
        BY <2>1, InHand
      <3>2. stdinCh' \in Seq(1 .. MaxIn) /\ Len(stdinCh') <= Cap
        BY <2>1, <3>1
      <3>3. consumerHas' \in Seq(1 .. MaxIn) /\ Len(consumerHas') = 0
        BY <2>1, <1>e
      <3> QED
        BY <1>5, <2>1, <3>2, <3>3 DEF SendStdin
    <2> QED
      BY <1>4, <1>5, <2>1 DEF SendStdin
  <1>6. CASE EndSession \/ AbortConsumer
    BY <1>4, <1>6 DEF EndSession, AbortConsumer
  <1>7. CASE TaskResponse
    BY <1>7 DEF TaskResponse
  <1>8. ASSUME NEW s \in Stream, ConsumeOutput(s) \/ Drain(s) PROVE TypeOK'
    <2>1. outCh[s] # <<>> /\ outCh[s] \in Seq(1 .. MaxOut) /\ delivered[s] \in Seq(1 .. MaxOut)
          /\ Len(outCh[s]) <= Cap
          /\ delivered' = [delivered EXCEPT ![s] = Append(@, Head(outCh[s]))]
          /\ outCh' = [outCh EXCEPT ![s] = Tail(@)]
      BY <1>8 DEF ConsumeOutput, Drain, Deliver
    <2>2. /\ Tail(outCh[s]) \in Seq(1 .. MaxOut) /\ Len(Tail(outCh[s])) <= Cap
          /\ Append(delivered[s], Head(outCh[s])) \in Seq(1 .. MaxOut)
      <3>1. PICK q \in Seq(1 .. MaxOut), d \in Seq(1 .. MaxOut) : q = outCh[s] /\ d = delivered[s]
        BY <2>1
      <3>2. Tail(q) \in Seq(1 .. MaxOut) /\ Len(Tail(q)) = Len(q) - 1 /\ Head(q) \in 1 .. MaxOut
            /\ Len(q) \in Nat
        BY <2>1, <3>1, Received
      <3>3. Append(d, Head(q)) \in Seq(1 .. MaxOut)
        BY <3>2
      <3> QED
        BY <2>1, <3>1, <3>2, <3>3
    <2>3. delivered' \in [Stream -> Seq(1 .. MaxOut)]
      BY <2>1, <2>2
    <2>4. outCh' \in [Stream -> Seq(1 .. MaxOut)] /\ \A t \in Stream : Len(outCh'[t]) <= Cap
      BY <2>1, <2>2
    <2>5. UNCHANGED <<nIn, userIn, userOpen, cancelled, consumer, consumerHas, stdinTx, outRx, result, stdinCh,
                      cargo, cargoHas, stdinOpen, killSent, toWorker, fromWorker,
                      worker, child, childTo, childIn, childEof, written>>
      BY <1>8 DEF ConsumeOutput, Drain
    <2> QED
      BY <2>3, <2>4, <2>5, SMTT(30)
  <1>9. CASE CargoCancelled
    <2>1. PICK m \in ToWorker : m = [type |-> "Kill"]
      BY Messages
    <2>2. cargoHas' = <<m>>
      BY <1>9, <2>1 DEF CargoCancelled
    <2>3. cargoHas' \in Seq(ToWorker) /\ Len(cargoHas') = 1
      BY <2>2
    <2> QED
      BY <1>9, <2>3 DEF CargoCancelled
  <1>10. CASE CargoStdin
    <2>1. stdinCh' \in Seq(1 .. MaxIn) /\ Len(stdinCh') <= Cap
      <3>1. CASE stdinCh # <<>> /\ stdinCh' = Tail(stdinCh)
        BY <3>1
      <3>2. CASE UNCHANGED stdinCh
        BY <3>2
      <3> QED
        BY <1>10, <3>1, <3>2 DEF CargoStdin
    <2>2. PICK m \in ToWorker : cargoHas' = <<m>>
      <3>1. CASE stdinCh # <<>> /\ cargoHas' = <<[type |-> "StdinPacket", data |-> Head(stdinCh)]>>
        <4>1. Head(stdinCh) \in 1 .. MaxIn
          BY <3>1
        <4> QED
          BY <3>1, <4>1, Messages
      <3>2. CASE cargoHas' = <<[type |-> "StdinClose"]>>
        BY <3>2, Messages
      <3> QED
        BY <1>10, <3>1, <3>2 DEF CargoStdin
    <2>3. cargoHas' \in Seq(ToWorker) /\ Len(cargoHas') = 1
      BY <2>2
    <2> QED
      BY <1>10, <2>1, <2>3 DEF CargoStdin
  <1>11. CASE CargoSend
    <2>1. toWorker' \in Seq(ToWorker) /\ Len(toWorker') <= Cap
      <3>1. cargoHas[1] \in ToWorker
        BY <1>11, InHand DEF CargoSend
      <3>2. CASE UNCHANGED toWorker
        BY <3>2
      <3>3. CASE toWorker' = Append(toWorker, cargoHas[1]) /\ Len(toWorker) < Cap
        BY <3>1, <3>3
      <3> QED
        BY <1>11, <3>2, <3>3 DEF CargoSend
    <2>2. Len(cargoHas') = 0 /\ cargo' \in {"select", "err"}
      BY <1>11, <1>e DEF CargoSend
    <2> QED
      BY <1>11, <2>1, <2>2 DEF CargoSend
  <1>12. CASE CargoFromWorker
    <2>1. fromWorker' \in Seq(FromWorker) /\ Len(fromWorker') <= Cap /\ Head(fromWorker) \in FromWorker
      BY <1>12 DEF CargoFromWorker
    <2>2. CASE Head(fromWorker).type = "Output" /\ cargo' = "out" /\ cargoHas' = <<Head(fromWorker)>>
      <3>1. PICK m \in [type : {"Output"}, packet : Packet] : m = Head(fromWorker)
        BY <2>1, <2>2, Messages
      <3>2. cargoHas' = <<m>>
        BY <2>2, <3>1
      <3>3. cargoHas' \in Seq([type : {"Output"}, packet : Packet]) /\ Len(cargoHas') = 1
        BY <3>2
      <3> QED
        BY <1>12, <2>1, <2>2, <3>3 DEF CargoFromWorker
    <2>3. CASE cargo' \in {"ok", "err"} /\ UNCHANGED cargoHas
      BY <1>12, <2>1, <2>3 DEF CargoFromWorker
    <2> QED
      BY <1>12, <2>2, <2>3 DEF CargoFromWorker
  <1>13. CASE CargoOut
    <2>1. PICK s \in Stream, p \in 1 .. MaxOut : s = cargoHas[1].packet[1] /\ p = cargoHas[1].packet[2]
      BY <1>13, InHand, Messages DEF CargoOut
    <2>2. outCh' \in [Stream -> Seq(1 .. MaxOut)] /\ \A t \in Stream : Len(outCh'[t]) <= Cap
      <3>1. CASE UNCHANGED outCh
        BY <3>1
      <3>2. CASE outCh' = [outCh EXCEPT ![s] = Append(@, p)] /\ Len(outCh[s]) < Cap
        <4>1. Append(outCh[s], p) \in Seq(1 .. MaxOut) /\ Len(Append(outCh[s], p)) <= Cap
          BY <3>2
        <4> QED
          BY <3>2, <4>1
      <3> QED
        BY <1>13, <2>1, <3>1, <3>2 DEF CargoOut
    <2>3. Len(cargoHas') = 0 /\ cargo' = "select"
      BY <1>13, <1>e DEF CargoOut
    <2> QED
      BY <1>13, <2>2, <2>3, SMTT(30) DEF CargoOut
  <1>14. CASE ChildReads
    <2>1. Head(toWorker).data \in 1 .. MaxIn /\ toWorker' \in Seq(ToWorker) /\ Len(toWorker') <= Cap
      BY <1>14, Messages DEF ChildReads
    <2>2. childIn' \in Seq(1 .. MaxIn)
      BY <1>14, <2>1 DEF ChildReads
    <2> QED
      BY <1>14, <2>1, <2>2 DEF ChildReads
  <1>15. CASE WorkerCommand
    <2>1. toWorker' \in Seq(ToWorker) /\ Len(toWorker') <= Cap
      BY <1>15 DEF WorkerCommand
    <2> QED
      BY <1>15, <2>1 DEF WorkerCommand
  <1>16. ASSUME NEW s \in Stream, ChildWants(s) PROVE TypeOK'
    BY <1>16 DEF ChildWants
  <1>17. CASE ChildWrites
    <2>1. PICK n : n = NWritten + 1
      OBVIOUS
    <2>2. n \in 1 .. MaxOut
      <3>1. NWritten \in Nat /\ NWritten < MaxOut
        BY <1>17 DEF ChildRuns, ChildWrites, NWritten, Stream
      <3> QED
        BY <2>1, <3>1
    <2>3. [type |-> "Output", packet |-> <<childTo, n>>] \in FromWorker
      BY <2>2 DEF FromWorker, Packet
    <2>4. fromWorker' \in Seq(FromWorker) /\ Len(fromWorker') <= Cap
      BY <1>17, <2>1, <2>3 DEF ChildWrites
    <2>5. Append(written[childTo], n) \in Seq(1 .. MaxOut)
      BY <2>2
    <2>6. written' \in [Stream -> Seq(1 .. MaxOut)]
      BY <1>17, <2>1, <2>5 DEF ChildWrites
    <2> QED
      BY <1>17, <2>4, <2>6 DEF ChildWrites
  <1>18. CASE ChildExits \/ WorkerDies
    BY <1>18 DEF ChildExits, WorkerDies
  <1>19. CASE WorkerReports
    <2>1. PICK m \in FromWorker : fromWorker' = Append(fromWorker, m)
      BY <1>19, Messages DEF WorkerReports
    <2>2. fromWorker' \in Seq(FromWorker) /\ Len(fromWorker') <= Cap
      BY <1>19, <2>1 DEF WorkerReports
    <2> QED
      BY <1>19, <2>2 DEF WorkerReports
  <1>20. CASE IoQueueFails
    <2>1. toWorker' \in Seq(ToWorker) /\ Len(toWorker') <= Cap
      BY <1>20, <1>e DEF IoQueueFails
    <2> QED
      BY <1>20, <2>1 DEF IoQueueFails
  <1> HIDE DEF TypeOK
  <1> QED
    BY <1>1, <1>2, <1>3, <1>5, <1>6, <1>7, <1>8, <1>9, <1>10, <1>11, <1>12, <1>13, <1>14, <1>15,
       <1>16, <1>17, <1>18, <1>19, <1>20 DEF Next, Consumer, Cargo, Worker, Child, User

-----------------------------------------------------------------------------
\* A program that has ended stays so, and one that was reported is reported.
LEMMA ChildStep ==
    ASSUME Next
    PROVE  /\ Running' => Running
           /\ child = "reported" => child' = "reported"
  <1> USE DEF Running, workerVars
  <1>1. CASE User \/ Consumer \/ Cargo \/ AbortConsumer
    <2>1. UNCHANGED child
      BY <1>1 DEF User, UserStdin, UserStdinClose, UserKill, Consumer, ConsumeStdin, SendStdin,
                  TaskResponse, EndSession, ConsumeOutput, Drain, Cargo, CargoCancelled, CargoStdin,
                  CargoSend, CargoFromWorker, CargoOut, AbortConsumer
    <2> QED
      BY <2>1
  <1>2. CASE Worker \/ Child \/ WorkerDies
    BY <1>2 DEF Worker, WorkerCommand, WorkerReports, ChildWrites, IoQueueFails, Child,
                ChildReads, ChildExits, ChildWants, WorkerDies
  <1> QED
    BY <1>1, <1>2 DEF Next

\* A program runs only while its worker is up, and writes only where it has room.
LEMMA ChildRunsStep ==
    ASSUME TypeOK, ChildRuns, Next
    PROVE  ChildRuns'
  <1> USE DEF ChildRuns, Running, workerVars, NWritten
  <1>1. CASE User \/ Consumer \/ Cargo \/ AbortConsumer
    <2>1. UNCHANGED workerVars
      BY <1>1 DEF User, UserStdin, UserStdinClose, UserKill, Consumer, ConsumeStdin, SendStdin,
                  TaskResponse, EndSession, ConsumeOutput, Drain, Cargo, CargoCancelled, CargoStdin,
                  CargoSend, CargoFromWorker, CargoOut, AbortConsumer
    <2> QED
      BY <2>1
  <1>2. CASE Worker \/ Child \/ WorkerDies
    BY <1>2 DEF Worker, WorkerCommand, WorkerReports, ChildWrites, IoQueueFails, Child,
                ChildReads, ChildExits, ChildWants, WorkerDies
  <1> QED
    BY <1>1, <1>2 DEF Next

\* The report is the job's last message, so that the task that takes it has
\* taken all the others.
LEMMA ReportedStep ==
    ASSUME TypeOK, ChildRuns, Reported, Next
    PROVE  Reported'
  <1>0. fromWorker \in Seq(FromWorker)
    BY DEF TypeOK
  <1>r. (Running' => Running) /\ (child = "reported" => child' = "reported")
    BY ChildStep
  <1> USE DEF cargoVars, workerVars
  <1>1. ASSUME UNCHANGED fromWorker, cargo' = cargo \/ cargo' \in {"select", "send"} PROVE Reported'
    BY <1>1, <1>r DEF Reported
  <1>2. CASE User \/ Consumer \/ AbortConsumer \/ CargoCancelled \/ CargoStdin \/ CargoOut
             \/ Child \/ WorkerCommand \/ IoQueueFails \/ WorkerDies
    <2>1. UNCHANGED fromWorker /\ (cargo' = cargo \/ cargo' \in {"select", "send"})
      BY <1>2 DEF User, UserStdin, UserStdinClose, UserKill, Consumer, ConsumeStdin, SendStdin,
                  TaskResponse, EndSession, ConsumeOutput, Drain, CargoCancelled, CargoStdin,
                  CargoOut, AbortConsumer, Child, ChildReads, ChildExits, ChildWants,
                  WorkerCommand, IoQueueFails, WorkerDies
    <2> QED
      BY <1>1, <2>1
  <1>3. CASE CargoSend
    <2>1. UNCHANGED <<fromWorker, child>> /\ (cargo' = "select" \/ (cargo' = "err" /\ worker = "closed"))
      BY <1>3 DEF CargoSend
    <2> QED
      BY <1>r, <2>1 DEF Reported, ChildRuns, Running
  <1>4. CASE CargoFromWorker
    <2>1. /\ fromWorker # <<>> /\ fromWorker' = Tail(fromWorker) /\ UNCHANGED child
          /\ cargo' = "out" \/ (cargo' \in {"ok", "err"} /\ Head(fromWorker).type # "Output")
      BY <1>4 DEF CargoFromWorker
    <2>2. /\ Len(fromWorker') = Len(fromWorker) - 1 /\ Head(fromWorker) = fromWorker[1]
          /\ 1 \in 1 .. Len(fromWorker) /\ Len(fromWorker) \in Nat /\ fromWorker' \in Seq(FromWorker)
          /\ \A i \in 1 .. Len(fromWorker') :
                i + 1 \in 1 .. Len(fromWorker) /\ fromWorker'[i] = fromWorker[i + 1]
      BY <1>0, <2>1, Received
    <2>3. ASSUME NEW i \in 1 .. Len(fromWorker'), fromWorker'[i].type # "Output"
          PROVE  i = Len(fromWorker') /\ child' = "reported"
      <3>1. i + 1 = Len(fromWorker) /\ child = "reported"
        BY <2>2, <2>3 DEF Reported
      <3>2. i \in Int /\ \A a, b \in Int : b = a - 1 /\ i + 1 = a => i = b
        BY <2>2
      <3>3. Len(fromWorker) \in Int /\ Len(fromWorker') \in Int
        BY <2>2
      <3>4. i = Len(fromWorker')
        BY <2>2, <3>1, <3>2, <3>3, Zenon
      <3> QED
        BY <2>1, <3>1, <3>4
    <2>4. ASSUME cargo' # "out" PROVE fromWorker' = <<>> /\ child' = "reported"
      <3>1. 1 = Len(fromWorker) /\ child = "reported"
        BY <2>1, <2>2, <2>4 DEF Reported
      <3>2. Len(fromWorker') = 0
        <4>1. Len(fromWorker') = 1 - 1
          BY <2>2, <3>1, Zenon
        <4> QED
          BY <4>1
      <3>3. fromWorker' = <<>>
        BY <2>2, <3>2
      <3> QED
        BY <2>1, <3>1, <3>3
    <2> QED
      BY <2>1, <2>3, <2>4 DEF Reported, Running
  <1>5. ASSUME NEW m \in FromWorker, fromWorker' = Append(fromWorker, m), child # "reported",
               m.type = "Output" \/ child' = "reported", UNCHANGED cargo
        PROVE  Reported'
    <2>1. /\ Len(fromWorker') = Len(fromWorker) + 1 /\ Len(fromWorker) \in Nat
          /\ \A i \in 1 .. Len(fromWorker') :
                \/ i \in 1 .. Len(fromWorker) /\ fromWorker'[i] = fromWorker[i]
                \/ i = Len(fromWorker) + 1 /\ fromWorker'[i] = m
      BY <1>0, <1>5, Appended
    <2>2. \A i \in 1 .. Len(fromWorker) : fromWorker[i].type = "Output"
      BY <1>5 DEF Reported
    <2>3. \A i \in 1 .. Len(fromWorker') : fromWorker'[i].type # "Output" =>
             i = Len(fromWorker') /\ child' = "reported"
      BY <1>5, <2>1, <2>2
    <2> QED
      BY <1>5, <1>r, <2>3 DEF Reported
  <1>6. CASE ChildWrites
    <2>1. PICK m : m = [type |-> "Output", packet |-> <<childTo, NWritten + 1>>]
      OBVIOUS
    <2>2. m.type = "Output"
      BY <2>1
    <2>3. m \in FromWorker
      <3>1. NWritten \in Nat /\ NWritten < MaxOut /\ childTo \in Stream
        BY <1>6 DEF ChildRuns, ChildWrites, NWritten, Stream, TypeOK
      <3>2. NWritten + 1 \in 1 .. MaxOut
        BY <3>1, ExecutionAssumption
      <3> QED
        BY <2>1, <3>1, <3>2 DEF FromWorker, Packet
    <2> QED
      BY <1>5, <1>6, <2>1, <2>2, <2>3 DEF ChildWrites
  <1>7. CASE WorkerReports
    <2>1. PICK m \in FromWorker : fromWorker' = Append(fromWorker, m)
      BY <1>7, Messages DEF WorkerReports
    <2> QED
      BY <1>5, <1>7, <2>1 DEF WorkerReports
  <1> QED
    BY <1>2, <1>3, <1>4, <1>6, <1>7 DEF Next, Cargo, Worker

\* A consumer that is over has cancelled the job; one that has closed stdin
\* without that has passed on all that the user sent.
LEMMA EndsStep ==
    ASSUME TypeOK, Ends, Next
    PROVE  Ends'
  <1> USE DEF Ends, userVars, consumerVars
  <1>1. CASE Cargo \/ Worker \/ Child \/ WorkerDies
    <2>1. UNCHANGED <<userVars, cancelled, consumerVars>>
      BY <1>1 DEF Cargo, CargoCancelled, CargoStdin, CargoSend, CargoFromWorker, CargoOut, Worker,
                  WorkerCommand, WorkerReports, ChildWrites, IoQueueFails, Child, ChildReads,
                  ChildExits, ChildWants, WorkerDies
    <2> QED
      BY <2>1
  <1>2. CASE User
    BY <1>2 DEF User, UserStdin, UserStdinClose, UserKill
  <1>3. CASE Consumer \/ AbortConsumer
    BY <1>3 DEF Consumer, ConsumeStdin, SendStdin, TaskResponse, EndSession, ConsumeOutput, Drain,
                AbortConsumer, Finish
  <1> QED
    BY <1>1, <1>2, <1>3 DEF Next

\* The end of stdin follows the last packet, all the way to the program.
LEMMA StdinEndStep ==
    ASSUME TypeOK, Ends, StdinEnd, Next
    PROVE  StdinEnd'
  <1>0. toWorker \in Seq(ToWorker) /\ Len(toWorker) \in Nat
    BY DEF TypeOK
  <1> USE DEF userVars, consumerVars, cargoVars, workerVars
  <1>1. ASSUME UNCHANGED <<toWorker, childEof, stdinOpen, stdinCh, cargo, cargoHas>>, stdinTx' => stdinTx
        PROVE  StdinEnd'
    BY <1>1 DEF StdinEnd, HasIn
  <1>2. CASE User \/ TaskResponse \/ EndSession \/ AbortConsumer \/ ConsumeStdin \/ (Child /\ ~ChildReads)
             \/ ChildWrites \/ WorkerReports \/ WorkerDies
             \/ \E s \in Stream : ConsumeOutput(s) \/ Drain(s)
    <2>1. UNCHANGED <<toWorker, childEof, stdinOpen, stdinCh, cargo, cargoHas>>
      BY <1>2 DEF User, UserStdin, UserStdinClose, UserKill, TaskResponse, EndSession, AbortConsumer,
                  ConsumeStdin, Child, ChildExits, ChildWants, ChildWrites, WorkerReports, WorkerDies,
                  ConsumeOutput, Drain
    <2>2. stdinTx' => stdinTx
      BY <1>2 DEF User, UserStdin, UserStdinClose, UserKill, TaskResponse, EndSession, AbortConsumer,
                  ConsumeStdin, Child, ChildExits, ChildWants, ChildWrites, WorkerReports, WorkerDies,
                  ConsumeOutput, Drain, Finish
    <2> QED
      BY <1>1, <2>1, <2>2
  <1>3. CASE SendStdin
    <2>1. UNCHANGED <<toWorker, childEof, stdinOpen, cargo, cargoHas>> /\ stdinTx
          /\ (UNCHANGED <<stdinCh, stdinTx>> \/ UNCHANGED stdinTx \/ (UNCHANGED stdinCh /\ ~stdinTx'))
      BY <1>3 DEF SendStdin, Finish, Ends
    <2>2. stdinOpen
      BY <2>1 DEF StdinEnd
    <2> QED
      BY <2>1, <2>2 DEF StdinEnd, HasIn
  <1>4. ASSUME UNCHANGED <<toWorker, childEof, stdinOpen, stdinCh, stdinTx>>,
               cargo' = "send" => cargoHas'[1].type = "Kill"
        PROVE  StdinEnd'
    BY <1>4 DEF StdinEnd, HasIn
  <1>5. CASE CargoCancelled
    <2>1. cargoHas'[1].type = "Kill"
      BY <1>5 DEF CargoCancelled
    <2> QED
      BY <1>4, <1>5, <2>1 DEF CargoCancelled
  <1>6. CASE CargoFromWorker \/ CargoOut
    BY <1>4, <1>6 DEF CargoFromWorker, CargoOut
  <1>7. CASE CargoStdin
    <2>1. stdinOpen /\ UNCHANGED <<toWorker, childEof, stdinTx>>
      BY <1>7 DEF CargoStdin
    <2>2. ~childEof /\ \A i \in 1 .. Len(toWorker) : toWorker[i].type # "StdinClose"
      BY <2>1 DEF StdinEnd
    <2>3. CASE UNCHANGED stdinOpen
      <3>1. cargoHas'[1].type = "StdinPacket"
        BY <1>7, <2>1, <2>3 DEF CargoStdin
      <3> QED
        BY <2>1, <2>2, <2>3, <3>1 DEF StdinEnd, HasIn
    <2>4. CASE ~stdinOpen' /\ cargoHas' = <<[type |-> "StdinClose"]>> /\ stdinCh' = <<>> /\ ~stdinTx
      <3>1. cargoHas'[1].type = "StdinClose"
        BY <2>4
      <3> QED
        BY <2>1, <2>2, <2>4, <3>1 DEF StdinEnd, HasIn
    <2> QED
      BY <1>7, <2>3, <2>4 DEF CargoStdin
  <1>8. CASE CargoSend
    <2>1. cargo = "send" /\ UNCHANGED <<childEof, stdinOpen, stdinTx, stdinCh>> /\ cargo' # "send"
      BY <1>8 DEF CargoSend
    <2>2. CASE UNCHANGED toWorker
      BY <2>1, <2>2 DEF StdinEnd, HasIn
    <2>3. CASE toWorker' = Append(toWorker, cargoHas[1])
      <3>1. PICK m \in ToWorker : m = cargoHas[1]
        BY <2>1, InHand
      <3>2. /\ Len(toWorker') = Len(toWorker) + 1
            /\ \A i \in 1 .. Len(toWorker') :
                  \/ i \in 1 .. Len(toWorker) /\ toWorker'[i] = toWorker[i]
                  \/ i = Len(toWorker) + 1 /\ toWorker'[i] = m
        <4>1. toWorker' = Append(toWorker, m)
          BY <2>3, <3>1
        <4> QED
          BY <1>0, <4>1, Appended
      <3>3. ~HasIn'
        BY <2>1 DEF HasIn
      <3>4. m.type = "StdinPacket" =>
               /\ ~childEof /\ \A i \in 1 .. Len(toWorker) : toWorker[i].type # "StdinClose"
        BY <2>1, <3>1 DEF StdinEnd, HasIn
      <3>5. m.type = "StdinClose" => ~stdinOpen
        BY <2>1, <3>1 DEF StdinEnd
      <3>6. childEof' =>
               ~stdinOpen' /\ ~HasIn' /\ \A i \in 1 .. Len(toWorker') : toWorker'[i].type # "StdinPacket"
        BY <2>1, <3>2, <3>3, <3>4 DEF StdinEnd
      <3>7. ASSUME NEW i \in 1 .. Len(toWorker'), toWorker'[i].type = "StdinClose"
            PROVE  /\ ~stdinOpen'
                   /\ \A k \in i + 1 .. Len(toWorker') : toWorker'[k].type # "StdinPacket"
        <4>1. CASE i \in 1 .. Len(toWorker) /\ toWorker'[i] = toWorker[i]
          <5>1. /\ ~stdinOpen /\ m.type # "StdinPacket"
                /\ \A k \in i + 1 .. Len(toWorker) : toWorker[k].type # "StdinPacket"
            BY <3>4, <3>7, <4>1 DEF StdinEnd
          <5>2. ASSUME NEW k \in i + 1 .. Len(toWorker') PROVE toWorker'[k].type # "StdinPacket"
            <6>1. k \in 1 .. Len(toWorker')
              BY <1>0, <3>2
            <6>2. k \in 1 .. Len(toWorker) => k \in i + 1 .. Len(toWorker)
              BY <1>0
            <6> QED
              BY <3>2, <5>1, <6>1, <6>2
          <5> QED
            BY <2>1, <5>1, <5>2
        <4>2. CASE i = Len(toWorker) + 1 /\ toWorker'[i] = m
          BY <1>0, <2>1, <3>2, <3>5, <3>7, <4>2
        <4> QED
          BY <3>2, <4>1, <4>2
      <3> QED
        BY <2>1, <3>3, <3>6, <3>7 DEF StdinEnd
    <2> QED
      BY <1>8, <2>2, <2>3 DEF CargoSend
  <1>9. ASSUME toWorker # <<>>, toWorker' = Tail(toWorker),
               UNCHANGED <<stdinOpen, stdinTx, stdinCh, cargo, cargoHas>>,
               childEof' => childEof \/ Head(toWorker).type = "StdinClose"
        PROVE  StdinEnd'
    <2>1. /\ Len(toWorker') = Len(toWorker) - 1 /\ Head(toWorker) = toWorker[1] /\ 1 \in 1 .. Len(toWorker)
          /\ \A i \in 1 .. Len(toWorker') : i + 1 \in 1 .. Len(toWorker) /\ toWorker'[i] = toWorker[i + 1]
      BY <1>0, <1>9, Received
    <2>2. HasIn' <=> HasIn
      BY <1>9 DEF HasIn
    <2>3. ASSUME NEW i \in 1 .. Len(toWorker'), toWorker'[i].type = "StdinClose"
          PROVE  /\ ~stdinOpen' /\ ~HasIn'
                 /\ \A k \in i + 1 .. Len(toWorker') : toWorker'[k].type # "StdinPacket"
      <3>1. /\ ~stdinOpen /\ ~HasIn
            /\ \A k \in i + 1 + 1 .. Len(toWorker) : toWorker[k].type # "StdinPacket"
        BY <2>1, <2>3 DEF StdinEnd
      <3>2. ASSUME NEW k \in i + 1 .. Len(toWorker') PROVE toWorker'[k].type # "StdinPacket"
        <4>1. k \in 1 .. Len(toWorker') /\ k + 1 \in i + 1 + 1 .. Len(toWorker)
          BY <1>0, <2>1
        <4> QED
          BY <2>1, <3>1, <4>1
      <3> QED
        BY <1>9, <2>2, <3>1, <3>2
    <2>4. ASSUME childEof'
          PROVE  /\ ~stdinOpen' /\ ~HasIn'
                 /\ \A i \in 1 .. Len(toWorker') : toWorker'[i].type # "StdinPacket"
      <3>1. CASE childEof
        BY <1>9, <2>1, <2>2, <3>1 DEF StdinEnd
      <3>2. CASE toWorker[1].type = "StdinClose"
        <4>1. /\ ~stdinOpen /\ ~HasIn
              /\ \A k \in 1 + 1 .. Len(toWorker) : toWorker[k].type # "StdinPacket"
          BY <2>1, <3>2 DEF StdinEnd
        <4>2. ASSUME NEW i \in 1 .. Len(toWorker') PROVE i + 1 \in 1 + 1 .. Len(toWorker)
          BY <1>0, <2>1
        <4> QED
          BY <1>9, <2>1, <2>2, <4>1, <4>2
      <3> QED
        BY <1>9, <2>1, <2>4, <3>1, <3>2
    <2> QED
      BY <1>9, <2>3, <2>4 DEF StdinEnd
  <1>10. CASE ChildReads \/ WorkerCommand
    BY <1>9, <1>10 DEF ChildReads, WorkerCommand
  <1>11. CASE IoQueueFails
    <2>1. toWorker' = <<>> /\ UNCHANGED <<stdinOpen, stdinTx, stdinCh, cargo, cargoHas, childEof>>
      BY <1>11 DEF IoQueueFails
    <2>2. 1 .. Len(toWorker') = {}
      BY <2>1
    <2> QED
      BY <2>1, <2>2 DEF StdinEnd, HasIn
  <1> QED
    BY <1>2, <1>3, <1>5, <1>6, <1>7, <1>8, <1>10, <1>11 DEF Next, Consumer, Cargo, Worker, Child

-----------------------------------------------------------------------------
\* Stdin in a channel: the next packet is sent,
LEMMA QueueSent ==
    ASSUME NEW S, NEW q \in Seq(S), NEW t \in Nat, NEW s \in Nat, Queued(q, t, s),
           NEW m \in S, IsIn(m, s + 1), NEW r, r = Append(q, m)
    PROVE  Queued(r, t, s + 1)
  <1>1. /\ Len(r) = Len(q) + 1 /\ Len(q) \in Nat /\ r[Len(q) + 1] = m
        /\ \A i \in 1 .. Len(q) : i \in 1 .. Len(r) /\ r[i] = q[i]
        /\ \A i \in 1 .. Len(r) : \/ i \in 1 .. Len(q) /\ r[i] = q[i]
                                  \/ i = Len(q) + 1 /\ r[i] = m
    BY Appended
  <1>2. m.type = "StdinPacket" /\ m.data = s + 1
    BY DEF IsIn
  <1>3. ASSUME NEW n \in t + 1 .. s + 1 PROVE \E i \in 1 .. Len(r) : IsIn(r[i], n)
    <2>1. CASE n = s + 1
      <3>1. Len(q) + 1 \in 1 .. Len(r) /\ IsIn(r[Len(q) + 1], n)
        BY <1>1, <2>1
      <3> QED
        BY <3>1
    <2>2. CASE n # s + 1
      <3>1. n \in t + 1 .. s
        BY <2>2
      <3>2. PICK i \in 1 .. Len(q) : IsIn(q[i], n)
        BY <3>1 DEF Queued
      <3> QED
        BY <1>1, <3>2
    <2> QED
      BY <2>1, <2>2
  <1>4. ASSUME NEW i \in 1 .. Len(r), r[i].type = "StdinPacket"
        PROVE  /\ r[i].data \in t + 1 .. s + 1
               /\ \A k \in i + 1 .. Len(r) : r[k].type = "StdinPacket" => r[i].data < r[k].data
    <2>1. CASE i \in 1 .. Len(q) /\ r[i] = q[i]
      <3>1. /\ r[i].data \in t + 1 .. s
            /\ \A k \in i + 1 .. Len(q) : q[k].type = "StdinPacket" => r[i].data < q[k].data
        BY <1>4, <2>1 DEF Queued
      <3>2. ASSUME NEW k \in i + 1 .. Len(r), r[k].type = "StdinPacket" PROVE r[i].data < r[k].data
        <4>1. k \in 1 .. Len(r)
          BY <1>1
        <4>2. CASE k \in 1 .. Len(q) /\ r[k] = q[k]
          <5>1. k \in i + 1 .. Len(q)
            BY <1>1, <4>2
          <5> QED
            BY <3>1, <3>2, <4>2, <5>1
        <4>3. CASE r[k] = m
          BY <1>2, <3>1, <4>3
        <4> QED
          BY <1>1, <4>1, <4>2, <4>3
      <3>3. r[i].data \in t + 1 .. s + 1
        BY <3>1
      <3> QED
        BY <3>2, <3>3
    <2>2. CASE i = Len(q) + 1 /\ r[i] = m
      <3>1. t + 1 <= s + 1
        BY DEF Queued
      <3>2. i + 1 .. Len(r) = {}
        BY <1>1, <2>2
      <3> QED
        BY <1>2, <2>2, <3>1, <3>2
    <2> QED
      BY <1>1, <2>1, <2>2
  <1>5. t <= s + 1
    BY DEF Queued
  <1> QED
    BY <1>3, <1>4, <1>5 DEF Queued

\* or one that is not stdin is,
LEMMA QueueOtherSent ==
    ASSUME NEW S, NEW q \in Seq(S), NEW t \in Nat, NEW s \in Nat, Queued(q, t, s),
           NEW m \in S, m.type # "StdinPacket", NEW r, r = Append(q, m)
    PROVE  Queued(r, t, s)
  <1>1. /\ Len(r) = Len(q) + 1 /\ Len(q) \in Nat
        /\ \A i \in 1 .. Len(q) : i \in 1 .. Len(r) /\ r[i] = q[i]
        /\ \A i \in 1 .. Len(r) : \/ i \in 1 .. Len(q) /\ r[i] = q[i]
                                  \/ i = Len(q) + 1 /\ r[i] = m
    BY Appended
  <1>2. \A i \in 1 .. Len(r) : r[i].type = "StdinPacket" => i \in 1 .. Len(q) /\ r[i] = q[i]
    BY <1>1
  <1>3. ASSUME NEW n \in t + 1 .. s PROVE \E i \in 1 .. Len(r) : IsIn(r[i], n)
    <2>1. PICK i \in 1 .. Len(q) : IsIn(q[i], n)
      BY DEF Queued
    <2> QED
      BY <1>1, <2>1
  <1>4. ASSUME NEW i \in 1 .. Len(r), r[i].type = "StdinPacket"
        PROVE  /\ r[i].data \in t + 1 .. s
               /\ \A k \in i + 1 .. Len(r) : r[k].type = "StdinPacket" => r[i].data < r[k].data
    <2>1. i \in 1 .. Len(q) /\ r[i] = q[i]
      BY <1>2, <1>4
    <2>2. /\ r[i].data \in t + 1 .. s
          /\ \A k \in i + 1 .. Len(q) : q[k].type = "StdinPacket" => r[i].data < q[k].data
      BY <1>4, <2>1 DEF Queued
    <2>3. ASSUME NEW k \in i + 1 .. Len(r), r[k].type = "StdinPacket" PROVE r[i].data < r[k].data
      <3>1. k \in 1 .. Len(r)
        BY <1>1
      <3>2. k \in 1 .. Len(q) /\ r[k] = q[k]
        BY <1>2, <2>3, <3>1
      <3>3. k \in i + 1 .. Len(q)
        BY <1>1, <3>2
      <3> QED
        BY <2>2, <2>3, <3>2, <3>3
    <2> QED
      BY <2>2, <2>3
  <1>5. t <= s
    BY DEF Queued
  <1> QED
    BY <1>3, <1>4, <1>5 DEF Queued

\* the first message is taken and is not stdin.
LEMMA QueueOtherTaken ==
    ASSUME NEW S, NEW q \in Seq(S), NEW t \in Nat, NEW s \in Nat, Queued(q, t, s),
           q # <<>>, Head(q).type # "StdinPacket", NEW r, r = Tail(q)
    PROVE  Queued(r, t, s)
  <1>1. /\ Len(r) = Len(q) - 1 /\ Len(q) \in Nat /\ Head(q) = q[1]
        /\ \A i \in 1 .. Len(r) : i + 1 \in 1 .. Len(q) /\ r[i] = q[i + 1]
        /\ \A i \in 1 .. Len(q) : i # 1 => i - 1 \in 1 .. Len(r) /\ r[i - 1] = q[i]
    BY Received
  <1>2. ASSUME NEW n \in t + 1 .. s PROVE \E i \in 1 .. Len(r) : IsIn(r[i], n)
    <2>1. PICK i \in 1 .. Len(q) : IsIn(q[i], n)
      BY DEF Queued
    <2>2. i # 1
      BY <1>1, <2>1 DEF IsIn
    <2> QED
      BY <1>1, <2>1, <2>2
  <1>3. ASSUME NEW i \in 1 .. Len(r), r[i].type = "StdinPacket"
        PROVE  /\ r[i].data \in t + 1 .. s
               /\ \A k \in i + 1 .. Len(r) : r[k].type = "StdinPacket" => r[i].data < r[k].data
    <2>1. i + 1 \in 1 .. Len(q) /\ r[i] = q[i + 1]
      BY <1>1
    <2>2. /\ r[i].data \in t + 1 .. s
          /\ \A k \in i + 1 + 1 .. Len(q) : q[k].type = "StdinPacket" => r[i].data < q[k].data
      BY <1>3, <2>1 DEF Queued
    <2>3. ASSUME NEW k \in i + 1 .. Len(r), r[k].type = "StdinPacket" PROVE r[i].data < r[k].data
      <3>1. k \in 1 .. Len(r) /\ k + 1 \in i + 1 + 1 .. Len(q)
        BY <1>1
      <3>2. r[k] = q[k + 1]
        BY <1>1, <3>1
      <3> QED
        BY <2>2, <2>3, <3>1, <3>2
    <2> QED
      BY <2>2, <2>3
  <1>4. t <= s
    BY DEF Queued
  <1> QED
    BY <1>2, <1>3, <1>4 DEF Queued

\* A packet that is taken is the next one the program is to read.
LEMMA QueueTaken ==
    ASSUME NEW S, NEW q \in Seq(S), NEW t \in Nat, NEW s \in Nat, Queued(q, t, s),
           q # <<>>, Head(q).type = "StdinPacket"
    PROVE  Head(q).data = t + 1 /\ t < s /\ Queued(Tail(q), t + 1, s)
  <1>r. PICK r : r = Tail(q)
    OBVIOUS
  <1>1. /\ Len(r) = Len(q) - 1 /\ Len(q) \in Nat /\ Head(q) = q[1] /\ 1 \in 1 .. Len(q)
        /\ \A i \in 1 .. Len(r) : i + 1 \in 1 .. Len(q) /\ r[i] = q[i + 1]
        /\ \A i \in 1 .. Len(q) : i # 1 => i - 1 \in 1 .. Len(r) /\ r[i - 1] = q[i]
    BY <1>r, Received
  <1>2. /\ q[1].data \in t + 1 .. s
        /\ \A k \in 1 + 1 .. Len(q) : q[k].type = "StdinPacket" => q[1].data < q[k].data
    BY <1>1 DEF Queued
  <1>3. q[1].data = t + 1
    <2>1. t + 1 \in t + 1 .. s
      BY <1>2
    <2>2. PICK i \in 1 .. Len(q) : IsIn(q[i], t + 1)
      BY <2>1 DEF Queued
    <2>3. q[i].type = "StdinPacket" /\ q[i].data = t + 1
      BY <2>2 DEF IsIn
    <2>4. i = 1
      <3>1. ASSUME i # 1 PROVE FALSE
        <4>1. i \in 1 + 1 .. Len(q)
          BY <1>1, <3>1
        <4>2. q[1].data < t + 1
          BY <1>2, <2>3, <4>1
        <4> QED
          BY <1>2, <4>2
      <3> QED
        BY <3>1
    <2> QED
      BY <2>3, <2>4
  <1>4. t < s
    BY <1>2
  <1>5. ASSUME NEW n \in t + 1 + 1 .. s PROVE \E i \in 1 .. Len(r) : IsIn(r[i], n)
    <2>1. n \in t + 1 .. s /\ n # t + 1
      OBVIOUS
    <2>2. PICK i \in 1 .. Len(q) : IsIn(q[i], n)
      BY <2>1 DEF Queued
    <2>3. i # 1
      BY <1>3, <2>1, <2>2 DEF IsIn
    <2> QED
      BY <1>1, <2>2, <2>3
  <1>6. ASSUME NEW i \in 1 .. Len(r), r[i].type = "StdinPacket"
        PROVE  /\ r[i].data \in t + 1 + 1 .. s
               /\ \A k \in i + 1 .. Len(r) : r[k].type = "StdinPacket" => r[i].data < r[k].data
    <2>1. i + 1 \in 1 .. Len(q) /\ r[i] = q[i + 1] /\ i + 1 \in 1 + 1 .. Len(q)
      BY <1>1
    <2>2. /\ r[i].data \in t + 1 .. s
          /\ \A k \in i + 1 + 1 .. Len(q) : q[k].type = "StdinPacket" => r[i].data < q[k].data
      BY <1>6, <2>1 DEF Queued
    <2>3. ASSUME NEW k \in i + 1 .. Len(r), r[k].type = "StdinPacket" PROVE r[i].data < r[k].data
      <3>1. k \in 1 .. Len(r) /\ k + 1 \in i + 1 + 1 .. Len(q)
        BY <1>1
      <3>2. r[k] = q[k + 1]
        BY <1>1, <3>1
      <3> QED
        BY <2>2, <2>3, <3>1, <3>2
    <2>4. t + 1 < r[i].data
      BY <1>2, <1>3, <1>6, <2>1
    <2>5. r[i].data \in t + 1 + 1 .. s
      BY <2>2, <2>4
    <2> QED
      BY <2>3, <2>5
  <1>7. t + 1 <= s
    BY <1>4
  <1>8. Head(q).data = t + 1 /\ Queued(r, t + 1, s)
    BY <1>1, <1>3, <1>5, <1>6, <1>7 DEF Queued
  <1> QED
    BY <1>r, <1>4, <1>8, Zenon

\* Behind the cargo task: the user sends a packet,
LEMMA LineSent ==
    ASSUME NEW t \in Nat, NEW ch \in Seq(Nat), NEW has \in Seq(Nat), NEW user \in Seq(Nat), NEW n \in Nat,
           Line(t, ch, has, user, FALSE, n), NEW r, r = Append(user, n + 1)
    PROVE  Line(t, ch, has, r, FALSE, n + 1)
  <1>1. /\ Len(r) = Len(user) + 1 /\ Len(user) \in Nat /\ Len(ch) \in Nat /\ Len(has) \in Nat
        /\ \A i \in 1 .. Len(r) : \/ i \in 1 .. Len(user) /\ r[i] = user[i]
                                  \/ i = Len(user) + 1 /\ r[i] = n + 1
    BY Appended
  <1>2. t + Len(ch) + Len(has) + Len(user) = n
    BY DEF Line
  <1>3. PICK a \in Nat, b \in Nat, c \in Nat : a = Len(ch) /\ b = Len(has) /\ c = Len(user)
    BY <1>1
  <1>4. t + a + b + c = n
    BY <1>2, <1>3
  <1>5. \A i \in Nat : i = c + 1 => t + a + b + i = n + 1
    <2> HIDE <1>3
    <2> QED
      BY <1>4
  <1>6. \A i \in 1 .. Len(r) : r[i] = t + a + b + i
    BY <1>1, <1>3, <1>5 DEF Line
  <1>7. t + a + b + (c + 1) = n + 1
    BY <1>5
  <1> QED
    BY <1>1, <1>3, <1>6, <1>7 DEF Line

\* the consumer takes it,
LEMMA LineTaken ==
    ASSUME NEW t \in Nat, NEW ch \in Seq(Nat), NEW user \in Seq(Nat), NEW n \in Nat, user # <<>>,
           Line(t, ch, <<>>, user, FALSE, n), NEW has, has = <<Head(user)>>, NEW r, r = Tail(user)
    PROVE  Line(t, ch, has, r, FALSE, n)
  <1>1. /\ Len(r) = Len(user) - 1 /\ Len(user) \in Nat /\ Len(user) > 0 /\ Head(user) = user[1]
        /\ \A i \in 1 .. Len(r) : i + 1 \in 1 .. Len(user) /\ r[i] = user[i + 1]
        /\ 1 \in 1 .. Len(user)
    BY Received
  <1>2. Len(has) = 1 /\ has[1] = Head(user) /\ Len(<<>>) = 0 /\ Len(ch) \in Nat
    OBVIOUS
  <1>3. PICK a \in Nat, c \in Nat : a = Len(ch) /\ c = Len(user)
    BY <1>1, <1>2
  <1>4. /\ \A i \in 1 .. Len(user) : user[i] = t + a + 0 + i
        /\ t + a + 0 + c = n
        /\ \A i \in 1 .. Len(ch) : ch[i] = t + i
    BY <1>2, <1>3 DEF Line
  <1>5. \A i \in 1 .. Len(has) : has[i] = t + a + i
    <2>1. has[1] = t + a + 0 + 1
      BY <1>1, <1>2, <1>4
    <2>2. t + a + 0 + 1 = t + a + 1
      BY <1>3
    <2> QED
      BY <1>2, <2>1, <2>2
  <1>6. \A i \in 1 .. Len(r) : r[i] = t + a + 1 + i
    <2> TAKE i \in 1 .. Len(r)
    <2>1. r[i] = t + a + 0 + (i + 1)
      BY <1>1, <1>4
    <2>2. t + a + 0 + (i + 1) = t + a + 1 + i
      <3>1. i \in Nat
        BY <1>1
      <3> HIDE <1>3
      <3> QED
        BY <3>1
    <2> QED
      BY <2>1, <2>2
  <1>7. t + a + 1 + (c - 1) = n
    <2> HIDE <1>3
    <2> QED
      BY <1>4
  <1>8. Len(r) = c - 1
    BY <1>1, <1>3
  <1> QED
    BY <1>2, <1>3, <1>4, <1>5, <1>6, <1>7, <1>8 DEF Line

\* and passes it on;
LEMMA LinePassed ==
    ASSUME NEW t \in Nat, NEW ch \in Seq(Nat), NEW has \in Seq(Nat), NEW user \in Seq(Nat), NEW n \in Nat,
           Len(has) = 1, Line(t, ch, has, user, FALSE, n), NEW r, r = Append(ch, has[1])
    PROVE  Line(t, r, <<>>, user, FALSE, n)
  <1>1. has[1] \in Nat
    BY Singleton
  <1>2. /\ Len(r) = Len(ch) + 1 /\ Len(ch) \in Nat /\ Len(user) \in Nat
        /\ \A i \in 1 .. Len(r) : \/ i \in 1 .. Len(ch) /\ r[i] = ch[i]
                                  \/ i = Len(ch) + 1 /\ r[i] = has[1]
    BY <1>1, Appended
  <1>3. PICK a \in Nat, c \in Nat : a = Len(ch) /\ c = Len(user)
    BY <1>2
  <1>4. /\ \A i \in 1 .. Len(ch) : ch[i] = t + i
        /\ has[1] = t + a + 1
        /\ \A i \in 1 .. Len(user) : user[i] = t + a + 1 + i
        /\ t + a + 1 + c = n
    BY <1>3 DEF Line
  <1>5. \A i \in 1 .. Len(r) : r[i] = t + i
    <2> TAKE i \in 1 .. Len(r)
    <2>1. CASE i \in 1 .. Len(ch) /\ r[i] = ch[i]
      BY <1>4, <2>1
    <2>2. CASE i = a + 1 /\ r[i] = has[1]
      <3>1. t + a + 1 = t + i
        <4>1. i = a + 1
          BY <2>2
        <4> HIDE <1>3
        <4> QED
          BY <4>1
      <3> QED
        BY <1>4, <2>2, <3>1
    <2> QED
      BY <1>2, <1>3, <2>1, <2>2
  <1>6. \A i \in Nat : t + (a + 1) + 0 + i = t + a + 1 + i
    <2> HIDE <1>3
    <2> QED
      OBVIOUS
  <1>7. Len(r) = a + 1 /\ Len(<<>>) = 0 /\ 1 .. 0 = {}
    BY <1>2, <1>3
  <1>8. \A i \in 1 .. Len(user) : i \in Nat
    BY <1>2
  <1>9. \A i \in 1 .. Len(user) : user[i] = t + (a + 1) + 0 + i
    BY <1>4, <1>6, <1>8
  <1>10. t + (a + 1) + 0 + c = n
    BY <1>4, <1>6
  <1> QED
    BY <1>3, <1>5, <1>7, <1>9, <1>10 DEF Line

\* the cargo task takes the next one;
LEMMA LineNext ==
    ASSUME NEW t \in Nat, NEW ch \in Seq(Nat), NEW has \in Seq(Nat), NEW user \in Seq(Nat), NEW n \in Nat,
           NEW over \in BOOLEAN, ch # <<>>, Line(t, ch, has, user, over, n)
    PROVE  Head(ch) = t + 1 /\ Line(t + 1, Tail(ch), has, user, over, n)
  <1>r. PICK r : r = Tail(ch)
    OBVIOUS
  <1>1. /\ Len(r) = Len(ch) - 1 /\ Len(ch) \in Nat /\ Len(ch) > 0 /\ Head(ch) = ch[1]
        /\ \A i \in 1 .. Len(r) : i + 1 \in 1 .. Len(ch) /\ r[i] = ch[i + 1]
        /\ 1 \in 1 .. Len(ch)
    BY <1>r, Received
  <1>2. Len(has) \in Nat /\ Len(user) \in Nat
    OBVIOUS
  <1>3. PICK a \in Nat, b \in Nat, c \in Nat : a = Len(ch) /\ b = Len(has) /\ c = Len(user)
    BY <1>1, <1>2
  <1>4. /\ \A i \in 1 .. Len(ch) : ch[i] = t + i
        /\ \A i \in 1 .. Len(has) : has[i] = t + a + i
        /\ \A i \in 1 .. Len(user) : user[i] = t + a + b + i
        /\ t + a + b + c <= n
        /\ ~over => t + a + b + c = n
    BY <1>3 DEF Line
  <1>5. \A i \in 1 .. Len(r) : r[i] = t + 1 + i
    <2> TAKE i \in 1 .. Len(r)
    <2>1. r[i] = t + (i + 1) /\ i \in Nat
      BY <1>1, <1>4
    <2>2. t + (i + 1) = t + 1 + i
      BY <2>1
    <2> QED
      BY <2>1, <2>2
  <1>6. /\ \A i \in Nat : t + 1 + (a - 1) + i = t + a + i
        /\ \A i \in Nat : t + 1 + (a - 1) + b + i = t + a + b + i
    <2> HIDE <1>3
    <2> QED
      OBVIOUS
  <1>7. Len(r) = a - 1
    BY <1>1, <1>3
  <1>8. (\A i \in 1 .. Len(has) : i \in Nat) /\ (\A i \in 1 .. Len(user) : i \in Nat)
    BY <1>2
  <1>9. /\ \A i \in 1 .. Len(has) : has[i] = t + 1 + (a - 1) + i
        /\ \A i \in 1 .. Len(user) : user[i] = t + 1 + (a - 1) + b + i
    BY <1>4, <1>6, <1>8
  <1>10. t + 1 + (a - 1) + b + c <= n /\ (~over => t + 1 + (a - 1) + b + c = n)
    BY <1>4, <1>6
  <1>11. Head(ch) = t + 1
    BY <1>1, <1>4
  <1>12. Line(t + 1, r, has, user, over, n)
    BY <1>3, <1>5, <1>7, <1>9, <1>10 DEF Line
  <1> QED
    BY <1>r, <1>11, <1>12, Zenon

\* the consumer is over.
LEMMA LineCut ==
    ASSUME NEW t \in Nat, NEW ch \in Seq(Nat), NEW has \in Seq(Nat), NEW user \in Seq(Nat), NEW n \in Nat,
           NEW over \in BOOLEAN, Line(t, ch, has, user, over, n)
    PROVE  Line(t, ch, <<>>, <<>>, TRUE, n) /\ t <= n
  <1>1. PICK a \in Nat, b \in Nat, c \in Nat : a = Len(ch) /\ b = Len(has) /\ c = Len(user)
    OBVIOUS
  <1>2. t + a + b + c <= n /\ \A i \in 1 .. Len(ch) : ch[i] = t + i
    BY <1>1 DEF Line
  <1>3. t + a + 0 + 0 <= n /\ t <= n
    <2> HIDE <1>1
    <2> QED
      BY <1>2
  <1>4. Len(<<>>) = 0 /\ 1 .. 0 = {}
    OBVIOUS
  <1> QED
    BY <1>1, <1>2, <1>3, <1>4 DEF Line

-----------------------------------------------------------------------------
\* The cut behind the last packet that the cargo task has sent, at s: what is
\* before it and what is behind it.
Cut(s) ==
    /\ Queued(toWorker, Len(childIn), s)
    /\ HasIn => cargoHas[1].data = s + 1
    /\ Behind(IF HasIn THEN s + 1 ELSE s)

\* The types that the cut needs.
LEMMA CutTypes ==
    ASSUME TypeOK
    PROVE  /\ nIn \in Nat /\ stdinCh \in Seq(Nat) /\ consumerHas \in Seq(Nat) /\ userIn \in Seq(Nat)
           /\ childIn \in Seq(Nat) /\ Len(childIn) \in Nat /\ toWorker \in Seq(ToWorker)
           /\ consumer # "stdin" => consumerHas = <<>>
  <1>1. MaxIn \in Nat
    BY ExecutionAssumption
  <1>2. \A q \in Seq(1 .. MaxIn) : q \in Seq(Nat)
    <2>1. 1 .. MaxIn \subseteq Nat
      BY <1>1
    <2> QED
      BY <2>1, SeqMonotonic
  <1>3. /\ stdinCh \in Seq(1 .. MaxIn) /\ consumerHas \in Seq(1 .. MaxIn) /\ userIn \in Seq(1 .. MaxIn)
        /\ childIn \in Seq(1 .. MaxIn) /\ toWorker \in Seq(ToWorker) /\ nIn \in 0 .. MaxIn
    BY DEF TypeOK
  <1> QED
    BY <1>1, <1>2, <1>3, InHand

\* Each step of the user and of the consumer,
LEMMA UserCut ==
    ASSUME TypeOK, Ends, Reported, Running, NEW s \in Nat, Cut(s),
           User \/ Consumer \/ AbortConsumer
    PROVE  Cut(s)'
  <1> USE DEF userVars, consumerVars, cargoVars, workerVars
  <1> DEFINE t == IF HasIn THEN s + 1 ELSE s
  <1>0. /\ nIn \in Nat /\ stdinCh \in Seq(Nat) /\ consumerHas \in Seq(Nat) /\ userIn \in Seq(Nat)
        /\ consumer # "stdin" => consumerHas = <<>>
    BY CutTypes
  <1>1. t \in Nat /\ Line(t, stdinCh, consumerHas, userIn, consumer = "done", nIn)
    BY DEF Cut, Behind
  <1>2. UNCHANGED <<toWorker, childIn, cargo, cargoHas>>
    BY DEF User, UserStdin, UserStdinClose, UserKill, Consumer, ConsumeStdin, SendStdin,
           TaskResponse, EndSession, ConsumeOutput, Drain, AbortConsumer
  <1>3. HasIn' <=> HasIn
    BY <1>2 DEF HasIn
  <1> HIDE DEF t
  <1>4. SUFFICES Line(t, stdinCh', consumerHas', userIn', (consumer = "done")', nIn')
    BY <1>2, <1>3 DEF Cut, Behind, t
  <1>5. CASE /\ UNCHANGED <<stdinCh, consumerHas, userIn, nIn>>
             /\ (consumer = "done") <=> (consumer' = "done")
    <2>1. (consumer = "done") = (consumer' = "done")
      BY <1>5
    <2> QED
      BY <1>1, <1>5, <2>1
  <1>6. CASE UserStdin
    <2>1. consumer # "done" /\ UNCHANGED <<stdinCh, consumerHas, consumer>>
          /\ userIn' = Append(userIn, nIn + 1) /\ nIn' = nIn + 1
      BY <1>6 DEF UserStdin
    <2>2. (consumer = "done") = FALSE /\ (consumer' = "done") = FALSE
      BY <2>1
    <2>3. Line(t, stdinCh, consumerHas, userIn, FALSE, nIn)
      BY <1>1, <2>2
    <2>4. Line(t, stdinCh, consumerHas, userIn', FALSE, nIn + 1)
      BY <1>0, <1>1, <2>1, <2>3, LineSent
    <2> QED
      BY <2>1, <2>2, <2>4
  <1>7. CASE UserStdinClose \/ UserKill \/ TaskResponse \/ \E x \in Stream : ConsumeOutput(x) \/ Drain(x)
    BY <1>5, <1>7 DEF UserStdinClose, UserKill, TaskResponse, ConsumeOutput, Drain
  <1>8. CASE ConsumeStdin
    <2>1. CASE userIn = <<>>
      BY <1>5, <1>8, <2>1 DEF ConsumeStdin
    <2>2. CASE userIn # <<>>
      <3>1. /\ consumer = "loop" /\ consumer' = "stdin" /\ UNCHANGED <<stdinCh, nIn>>
            /\ consumerHas' = <<Head(userIn)>> /\ userIn' = Tail(userIn)
        BY <1>8, <2>2 DEF ConsumeStdin
      <3>2. (consumer = "done") = FALSE /\ (consumer' = "done") = FALSE /\ consumerHas = <<>>
        BY <1>0, <3>1
      <3>3. Line(t, stdinCh, <<>>, userIn, FALSE, nIn)
        BY <1>1, <3>2
      <3>4. Line(t, stdinCh, consumerHas', userIn', FALSE, nIn)
        BY <1>0, <1>1, <2>2, <3>1, <3>3, LineTaken
      <3> QED
        BY <3>1, <3>2, <3>4
    <2> QED
      BY <2>1, <2>2
  <1>9. ASSUME NEW r, Finish(r), UNCHANGED <<stdinCh, nIn>>
        PROVE  Line(t, stdinCh', consumerHas', userIn', (consumer = "done")', nIn')
    <2>1. consumerHas' = <<>> /\ userIn' = <<>> /\ (consumer' = "done") = TRUE
      BY <1>9 DEF Finish
    <2>2. Line(t, stdinCh, <<>>, <<>>, TRUE, nIn)
      <3>1. PICK o \in BOOLEAN : o = (consumer = "done")
        OBVIOUS
      <3>2. Line(t, stdinCh, consumerHas, userIn, o, nIn)
        BY <1>1, <3>1
      <3> QED
        BY <1>0, <1>1, <3>2, LineCut
    <2> QED
      BY <1>9, <2>1, <2>2
  <1>10. CASE EndSession \/ AbortConsumer
    BY <1>9, <1>10 DEF EndSession, AbortConsumer
  <1>11. CASE SendStdin
    <2>1. consumer = "stdin" /\ ~CargoDone
      BY <1>11 DEF SendStdin, CargoDone, Reported, Running
    <2>2. /\ consumer' = "loop" /\ stdinCh' = Append(stdinCh, consumerHas[1]) /\ consumerHas' = <<>>
          /\ UNCHANGED <<userIn, nIn>>
      BY <1>11, <2>1 DEF SendStdin
    <2>3. (consumer = "done") = FALSE /\ (consumer' = "done") = FALSE /\ Len(consumerHas) = 1
      BY <2>1, <2>2, InHand
    <2>4. Line(t, stdinCh, consumerHas, userIn, FALSE, nIn)
      BY <1>1, <2>3
    <2>5. Line(t, stdinCh', <<>>, userIn, FALSE, nIn)
      BY <1>0, <1>1, <2>2, <2>3, <2>4, LinePassed
    <2> QED
      BY <2>2, <2>3, <2>5
  <1> QED
    BY <1>6, <1>7, <1>8, <1>10, <1>11 DEF User, Consumer

\* of the cargo task,
LEMMA CargoCut ==
    ASSUME TypeOK, ChildRuns, Running, NEW s \in Nat, Cut(s), Cargo
    PROVE  \E z \in {s, s + 1} : Cut(z)'
  <1> USE DEF userVars, consumerVars, cargoVars, workerVars
  <1>0. /\ nIn \in Nat /\ stdinCh \in Seq(Nat) /\ consumerHas \in Seq(Nat) /\ userIn \in Seq(Nat)
        /\ Len(childIn) \in Nat /\ toWorker \in Seq(ToWorker)
    BY CutTypes
  <1>1. UNCHANGED <<childIn, consumer, consumerHas, userIn, nIn>>
    BY DEF Cargo, CargoCancelled, CargoStdin, CargoSend, CargoFromWorker, CargoOut
  <1>2. CASE UNCHANGED <<toWorker, stdinCh>> /\ ~HasIn /\ ~HasIn'
    BY <1>1, <1>2 DEF Cut, Behind
  <1>3. CASE CargoCancelled
    <2>1. cargo = "select" /\ cargoHas' = <<[type |-> "Kill"]>> /\ UNCHANGED <<toWorker, stdinCh>>
      BY <1>3 DEF CargoCancelled
    <2>2. cargoHas'[1].type = "Kill"
      BY <2>1
    <2> QED
      BY <1>2, <2>1, <2>2 DEF HasIn
  <1>4. CASE CargoFromWorker \/ CargoOut
    <2>1. cargo # "send" /\ cargo' # "send" /\ UNCHANGED <<toWorker, stdinCh>>
      BY <1>4 DEF CargoFromWorker, CargoOut
    <2> QED
      BY <1>2, <2>1 DEF HasIn
  <1>5. CASE CargoStdin
    <2>1. ~HasIn /\ UNCHANGED toWorker
      BY <1>5 DEF CargoStdin, HasIn
    <2>2. CASE cargoHas' = <<[type |-> "StdinClose"]>> /\ UNCHANGED stdinCh
      <3>1. cargoHas'[1].type = "StdinClose"
        BY <2>2
      <3> QED
        BY <1>2, <2>1, <2>2, <3>1 DEF HasIn
    <2>3. CASE /\ stdinCh # <<>> /\ stdinCh' = Tail(stdinCh) /\ cargo' = "send"
               /\ cargoHas' = <<[type |-> "StdinPacket", data |-> Head(stdinCh)]>>
      <3>1. cargoHas'[1].type = "StdinPacket" /\ cargoHas'[1].data = Head(stdinCh)
        BY <2>3
      <3>2. HasIn'
        BY <2>3, <3>1 DEF HasIn
      <3>3. PICK o \in BOOLEAN : o = (consumer = "done")
        OBVIOUS
      <3>4. Line(s, stdinCh, consumerHas, userIn, o, nIn)
        BY <2>1, <3>3 DEF Cut, Behind
      <3>5. Head(stdinCh) = s + 1 /\ Line(s + 1, stdinCh', consumerHas, userIn, o, nIn)
        <4>1. Head(stdinCh) = s + 1 /\ Line(s + 1, Tail(stdinCh), consumerHas, userIn, o, nIn)
          <5> HIDE <3>3
          <5> QED
            BY <1>0, <2>3, <3>4, LineNext
        <4> QED
          BY <2>3, <4>1
      <3>6. Line(s + 1, stdinCh', consumerHas', userIn', (consumer = "done")', nIn')
        BY <1>1, <3>3, <3>5
      <3>7. Queued(toWorker', Len(childIn'), s)
        BY <1>1, <2>1 DEF Cut
      <3>8. Cut(s)'
        BY <3>1, <3>2, <3>5, <3>6, <3>7 DEF Cut, Behind
      <3> QED
        BY <3>8
    <2> QED
      BY <1>5, <2>2, <2>3 DEF CargoStdin
  <1>6. CASE CargoSend
    <2>1. /\ cargo = "send" /\ cargo' = "select" /\ UNCHANGED stdinCh
          /\ toWorker' = Append(toWorker, cargoHas[1])
      BY <1>6 DEF CargoSend, ChildRuns
    <2>2. PICK m \in ToWorker : m = cargoHas[1]
      BY <2>1, InHand
    <2>3. ~HasIn' /\ toWorker' = Append(toWorker, m)
      BY <2>1, <2>2 DEF HasIn
    <2>4. CASE HasIn
      <3>1. IsIn(m, s + 1)
        BY <2>2, <2>4 DEF IsIn, HasIn, Cut
      <3>2. Queued(toWorker', Len(childIn), s + 1)
        BY <1>0, <2>3, <3>1, QueueSent DEF Cut
      <3>3. Cut(s + 1)'
        BY <1>1, <2>1, <2>3, <2>4, <3>2 DEF Cut, Behind
      <3> QED
        BY <3>3
    <2>5. CASE ~HasIn
      <3>1. m.type # "StdinPacket"
        BY <2>1, <2>2, <2>5 DEF HasIn
      <3>2. Queued(toWorker', Len(childIn), s)
        BY <1>0, <2>3, <3>1, QueueOtherSent DEF Cut
      <3>3. Cut(s)'
        BY <1>1, <2>1, <2>3, <2>5, <3>2 DEF Cut, Behind
      <3> QED
        BY <3>3
    <2> QED
      BY <2>4, <2>5
  <1> QED
    BY <1>3, <1>4, <1>5, <1>6 DEF Cargo

\* and of the worker and the program moves the packets along, and no program
\* reads one out of turn.
LEMMA WorkerCut ==
    ASSUME TypeOK, ChildRuns, Running, NEW s \in Nat, Cut(s), Worker \/ Child \/ WorkerDies
    PROVE  /\ Cut(s)'
           /\ \/ UNCHANGED childIn
              \/ childIn' = Append(childIn, Len(childIn) + 1) /\ Len(childIn) < s
  <1> USE DEF userVars, consumerVars, cargoVars, workerVars
  <1>0. Len(childIn) \in Nat /\ toWorker \in Seq(ToWorker) /\ childIn \in Seq(Nat)
    BY CutTypes
  <1>1. UNCHANGED <<consumer, consumerHas, userIn, nIn, stdinCh, cargo, cargoHas>>
    BY DEF Worker, WorkerCommand, WorkerReports, ChildWrites, IoQueueFails, Child, ChildReads,
           ChildExits, ChildWants, WorkerDies
  <1>2. (HasIn' <=> HasIn) /\ \A t : Behind(t)' <=> Behind(t)
    BY <1>1 DEF HasIn, Behind
  <1>3. CASE UNCHANGED <<toWorker, childIn>>
    BY <1>1, <1>2, <1>3 DEF Cut
  <1>4. CASE WorkerReports \/ ChildWrites \/ ChildExits \/ (\E x \in Stream : ChildWants(x)) \/ WorkerDies
    BY <1>3, <1>4 DEF WorkerReports, ChildWrites, ChildExits, ChildWants, WorkerDies
  <1>5. CASE IoQueueFails
    BY <1>5 DEF IoQueueFails, ChildRuns
  <1>6. CASE WorkerCommand
    <2>1. /\ toWorker # <<>> /\ toWorker' = Tail(toWorker) /\ UNCHANGED childIn
          /\ Head(toWorker).type # "StdinPacket"
      BY <1>6 DEF WorkerCommand
    <2>2. Queued(toWorker', Len(childIn), s)
      BY <1>0, <2>1, QueueOtherTaken DEF Cut
    <2> QED
      BY <1>1, <1>2, <2>1, <2>2 DEF Cut
  <1>7. CASE ChildReads
    <2>1. /\ toWorker # <<>> /\ toWorker' = Tail(toWorker) /\ Head(toWorker).type = "StdinPacket"
          /\ childIn' = Append(childIn, Head(toWorker).data)
      BY <1>7 DEF ChildReads
    <2>2. Queued(toWorker, Len(childIn), s)
      BY DEF Cut
    <2>3. /\ Head(toWorker).data = Len(childIn) + 1 /\ Len(childIn) < s
          /\ Queued(toWorker', Len(childIn) + 1, s)
      <3>1. PICK C \in Nat, q \in Seq(ToWorker) : C = Len(childIn) /\ q = toWorker
        BY <1>0
      <3>2. q # <<>> /\ Head(q).type = "StdinPacket" /\ Queued(q, C, s)
        BY <2>1, <2>2, <3>1
      <3>3. Head(q).data = C + 1 /\ C < s /\ Queued(Tail(q), C + 1, s)
        <4> HIDE <3>1
        <4> QED
          BY <3>2, QueueTaken
      <3> QED
        BY <2>1, <3>1, <3>3
    <2>4. Len(childIn') = Len(childIn) + 1
      <3>1. PICK d \in Nat : d = Len(childIn) + 1
        BY <1>0
      <3>2. childIn' = Append(childIn, d)
        BY <2>1, <2>3, <3>1
      <3> QED
        BY <1>0, <3>2
    <2> QED
      BY <1>1, <1>2, <2>1, <2>3, <2>4 DEF Cut
  <1> QED
    BY <1>4, <1>5, <1>6, <1>7 DEF Worker, Child

\* The types again, after the step.
LEMMA CutTypesNext ==
    ASSUME TypeOK'
    PROVE  stdinCh' \in Seq(Nat) /\ consumerHas' \in Seq(Nat) /\ userIn' \in Seq(Nat)
  <1>1. \A q \in Seq(1 .. MaxIn) : q \in Seq(Nat)
    <2>1. 1 .. MaxIn \subseteq Nat
      BY ExecutionAssumption
    <2> QED
      BY <2>1, SeqMonotonic
  <1>2. stdinCh' \in Seq(1 .. MaxIn) /\ consumerHas' \in Seq(1 .. MaxIn) /\ userIn' \in Seq(1 .. MaxIn)
    BY DEF TypeOK
  <1> QED
    BY <1>1, <1>2

\* Whatever step is taken, the packets of stdin stay in line.
LEMMA StdinFlowStep ==
    ASSUME TypeOK, ChildRuns, Reported, Ends, StdinFlow, Next, TypeOK'
    PROVE  StdinFlow'
  <1> USE DEF userVars, consumerVars, cargoVars, workerVars
  <1>0. nIn \in Nat /\ Len(childIn) \in Nat /\ childIn \in Seq(Nat)
    BY CutTypes
  <1>1. nIn' \in Nat /\ nIn' >= nIn
    <2>1. nIn' = nIn \/ nIn' = nIn + 1
      BY DEF Next, User, UserStdin, UserStdinClose, UserKill, Consumer, ConsumeStdin, SendStdin,
             TaskResponse, EndSession, ConsumeOutput, Drain, AbortConsumer, Cargo, CargoCancelled,
             CargoStdin, CargoSend, CargoFromWorker, CargoOut, Worker, WorkerCommand, WorkerReports,
             ChildWrites, IoQueueFails, Child, ChildReads, ChildExits, ChildWants, WorkerDies
    <2> QED
      BY <1>0, <2>1
  <1>2. CASE ~Running'
    <2>1. UNCHANGED childIn
      BY <1>2, ChildStep
         DEF Next, User, UserStdin, UserStdinClose, UserKill, Consumer, ConsumeStdin, SendStdin,
             TaskResponse, EndSession, ConsumeOutput, Drain, AbortConsumer, Cargo, CargoCancelled,
             CargoStdin, CargoSend, CargoFromWorker, CargoOut, Worker, WorkerCommand, WorkerReports,
             ChildWrites, IoQueueFails, Child, ChildReads, ChildExits, ChildWants, WorkerDies, Running
    <2> QED
      BY <1>0, <1>1, <1>2, <2>1 DEF StdinFlow
  <1>3. CASE Running'
    <2>1. Running
      BY <1>3, ChildStep
    <2>2. PICK s \in Nat : Cut(s) /\ s <= nIn
      BY <1>0, <2>1 DEF StdinFlow, Cut
    <2>3. PICK z \in {s, s + 1} : Cut(z)'
      <3>1. CASE User \/ Consumer \/ AbortConsumer
        BY <2>1, <2>2, <3>1, UserCut
      <3>2. CASE Cargo
        BY <2>1, <2>2, <3>2, CargoCut
      <3>3. CASE Worker \/ Child \/ WorkerDies
        BY <1>3, <2>1, <2>2, <3>3, WorkerCut
      <3> QED
        BY <3>1, <3>2, <3>3 DEF Next
    <2>4. z \in Nat /\ z <= nIn'
      <3>1. z \in Nat
        BY <2>2
      <3>2. PICK t \in {z, z + 1} : Behind(t)'
        BY <2>3 DEF Cut
      <3>3. t \in Nat /\ z <= t
        BY <3>1
      <3>o. PICK o \in BOOLEAN : o = (consumer' = "done")
        OBVIOUS
      <3>4. Line(t, stdinCh', consumerHas', userIn', o, nIn')
        BY <3>2, <3>o DEF Behind
      <3>5. stdinCh' \in Seq(Nat) /\ consumerHas' \in Seq(Nat) /\ userIn' \in Seq(Nat)
        BY CutTypesNext
      <3>6. t <= nIn'
        <4> HIDE <3>o
        <4> QED
          BY <1>1, <3>3, <3>4, <3>5, LineCut
      <3> QED
        BY <1>1, <3>1, <3>3, <3>6
    <2>5. /\ \A i \in 1 .. Len(childIn') : childIn'[i] = i
          /\ Len(childIn') <= nIn'
      <3>1. CASE UNCHANGED childIn
        BY <1>0, <1>1, <3>1 DEF StdinFlow
      <3>2. CASE childIn' = Append(childIn, Len(childIn) + 1) /\ Len(childIn) < s
        <4>1. PICK d \in Nat : d = Len(childIn) + 1
          BY <1>0
        <4>2. childIn' = Append(childIn, d)
          BY <3>2, <4>1
        <4>3. /\ Len(childIn') = Len(childIn) + 1
              /\ \A i \in 1 .. Len(childIn') : \/ i \in 1 .. Len(childIn) /\ childIn'[i] = childIn[i]
                                               \/ i = Len(childIn) + 1 /\ childIn'[i] = d
          BY <1>0, <4>2, Appended
        <4> QED
          BY <1>0, <1>1, <2>2, <3>2, <4>1, <4>3 DEF StdinFlow
      <3>3. CASE User \/ Consumer \/ AbortConsumer \/ Cargo
        <4>1. UNCHANGED childIn
          BY <3>3 DEF User, UserStdin, UserStdinClose, UserKill, Consumer, ConsumeStdin, SendStdin,
                      TaskResponse, EndSession, ConsumeOutput, Drain, AbortConsumer, Cargo,
                      CargoCancelled, CargoStdin, CargoSend, CargoFromWorker, CargoOut
        <4> QED
          BY <3>1, <4>1
      <3>4. CASE Worker \/ Child \/ WorkerDies
        BY <1>3, <2>1, <2>2, <3>1, <3>2, <3>4, WorkerCut
      <3> QED
        BY <3>3, <3>4 DEF Next
    <2> QED
      BY <1>1, <2>3, <2>4, <2>5 DEF StdinFlow, Cut
  <1> QED
    BY <1>2, <1>3

-----------------------------------------------------------------------------
\* The same for the packets of one output stream: the next is sent.
LEMMA CarriedSent ==
    ASSUME NEW S, NEW q \in Seq(S), NEW s, NEW w \in Seq(Nat), NEW t \in Nat, Carried(q, s, w, t),
           NEW m \in S, NEW p \in Nat, Of(m, s), No(m) = p, \A i \in 1 .. Len(w) : w[i] < p
    PROVE  Carried(Append(q, m), s, Append(w, p), t)
  <1>r. PICK r, v : r = Append(q, m) /\ v = Append(w, p)
    OBVIOUS
  <1>1. /\ Len(r) = Len(q) + 1 /\ Len(q) \in Nat /\ r[Len(q) + 1] = m
        /\ \A i \in 1 .. Len(q) : i \in 1 .. Len(r) /\ r[i] = q[i]
        /\ \A i \in 1 .. Len(r) : \/ i \in 1 .. Len(q) /\ r[i] = q[i]
                                  \/ i = Len(q) + 1 /\ r[i] = m
    BY <1>r, Appended
  <1>2. /\ Len(v) = Len(w) + 1 /\ Len(w) \in Nat /\ v[Len(w) + 1] = p
        /\ \A i \in 1 .. Len(w) : i \in 1 .. Len(v) /\ v[i] = w[i] /\ w[i] \in Nat
        /\ \A i \in 1 .. Len(v) : \/ i \in 1 .. Len(w) /\ v[i] = w[i]
                                  \/ i = Len(w) + 1 /\ v[i] = p
    BY <1>r, Appended
  <1>3. t <= Len(w) /\ t <= Len(v)
    BY <1>2 DEF Carried
  <1>4. ASSUME NEW n \in t + 1 .. Len(v) PROVE \E i \in 1 .. Len(r) : Of(r[i], s) /\ No(r[i]) = v[n]
    <2>0. n \in 1 .. Len(v)
      BY <1>2
    <2>1. CASE n = Len(w) + 1 /\ v[n] = p
      <3>1. Len(q) + 1 \in 1 .. Len(r)
        BY <1>1
      <3> QED
        BY <1>1, <2>1, <3>1
    <2>2. CASE n \in 1 .. Len(w) /\ v[n] = w[n]
      <3>1. n \in t + 1 .. Len(w)
        BY <1>2, <2>2
      <3>2. PICK i \in 1 .. Len(q) : Of(q[i], s) /\ No(q[i]) = w[n]
        BY <3>1 DEF Carried
      <3> QED
        BY <1>1, <2>2, <3>2
    <2> QED
      BY <1>2, <2>0, <2>1, <2>2
  <1>5. ASSUME NEW i \in 1 .. Len(r), Of(r[i], s)
        PROVE  /\ \E n \in t + 1 .. Len(v) : No(r[i]) = v[n]
               /\ \A k \in i + 1 .. Len(r) : Of(r[k], s) => No(r[i]) < No(r[k])
    <2>1. CASE i \in 1 .. Len(q) /\ r[i] = q[i]
      <3>1. /\ \E n \in t + 1 .. Len(w) : No(r[i]) = w[n]
            /\ \A k \in i + 1 .. Len(q) : Of(q[k], s) => No(r[i]) < No(q[k])
        BY <1>5, <2>1 DEF Carried
      <3>2. PICK n \in t + 1 .. Len(w) : No(r[i]) = w[n]
        BY <3>1
      <3>3. n \in 1 .. Len(w) /\ n \in t + 1 .. Len(v)
        BY <1>2
      <3>4. No(r[i]) = v[n] /\ No(r[i]) < p
        BY <1>2, <3>2, <3>3
      <3>5. ASSUME NEW k \in i + 1 .. Len(r), Of(r[k], s) PROVE No(r[i]) < No(r[k])
        <4>1. k \in 1 .. Len(r)
          BY <1>1
        <4>2. CASE k \in 1 .. Len(q) /\ r[k] = q[k]
          <5>1. k \in i + 1 .. Len(q)
            BY <1>1, <4>2
          <5> QED
            BY <3>1, <3>5, <4>2, <5>1
        <4>3. CASE r[k] = m
          BY <3>4, <4>3
        <4> QED
          BY <1>1, <4>1, <4>2, <4>3
      <3> QED
        BY <3>3, <3>4, <3>5
    <2>2. CASE i = Len(q) + 1 /\ r[i] = m
      <3>1. Len(w) + 1 \in t + 1 .. Len(v)
        BY <1>2, <1>3
      <3>2. i + 1 .. Len(r) = {}
        BY <1>1, <2>2
      <3> QED
        BY <1>2, <2>2, <3>1, <3>2
    <2> QED
      BY <1>1, <2>1, <2>2
  <1>6. Carried(r, s, v, t)
    BY <1>3, <1>4, <1>5 DEF Carried
  <1> QED
    BY <1>r, <1>6, Zenon

\* A message of another stream, or the report, changes nothing for this stream.
LEMMA CarriedOtherSent ==
    ASSUME NEW S, NEW q \in Seq(S), NEW s, NEW w \in Seq(Nat), NEW t \in Nat, Carried(q, s, w, t),
           NEW m \in S, ~Of(m, s)
    PROVE  Carried(Append(q, m), s, w, t)
  <1>r. PICK r : r = Append(q, m)
    OBVIOUS
  <1>1. /\ Len(r) = Len(q) + 1 /\ Len(q) \in Nat
        /\ \A i \in 1 .. Len(q) : i \in 1 .. Len(r) /\ r[i] = q[i]
        /\ \A i \in 1 .. Len(r) : \/ i \in 1 .. Len(q) /\ r[i] = q[i]
                                  \/ i = Len(q) + 1 /\ r[i] = m
    BY <1>r, Appended
  <1>2. \A i \in 1 .. Len(r) : Of(r[i], s) => i \in 1 .. Len(q) /\ r[i] = q[i]
    BY <1>1
  <1>3. ASSUME NEW n \in t + 1 .. Len(w) PROVE \E i \in 1 .. Len(r) : Of(r[i], s) /\ No(r[i]) = w[n]
    <2>1. PICK i \in 1 .. Len(q) : Of(q[i], s) /\ No(q[i]) = w[n]
      BY DEF Carried
    <2> QED
      BY <1>1, <2>1
  <1>4. ASSUME NEW i \in 1 .. Len(r), Of(r[i], s)
        PROVE  /\ \E n \in t + 1 .. Len(w) : No(r[i]) = w[n]
               /\ \A k \in i + 1 .. Len(r) : Of(r[k], s) => No(r[i]) < No(r[k])
    <2>1. i \in 1 .. Len(q) /\ r[i] = q[i]
      BY <1>2, <1>4
    <2>2. /\ \E n \in t + 1 .. Len(w) : No(r[i]) = w[n]
          /\ \A k \in i + 1 .. Len(q) : Of(q[k], s) => No(r[i]) < No(q[k])
      BY <1>4, <2>1 DEF Carried
    <2>3. ASSUME NEW k \in i + 1 .. Len(r), Of(r[k], s) PROVE No(r[i]) < No(r[k])
      <3>1. k \in 1 .. Len(r)
        BY <1>1
      <3>2. k \in 1 .. Len(q) /\ r[k] = q[k]
        BY <1>2, <2>3, <3>1
      <3>3. k \in i + 1 .. Len(q)
        BY <1>1, <3>2
      <3> QED
        BY <2>2, <2>3, <3>2, <3>3
    <2> QED
      BY <2>2, <2>3
  <1>5. t <= Len(w)
    BY DEF Carried
  <1>6. Carried(r, s, w, t)
    BY <1>3, <1>4, <1>5 DEF Carried
  <1> QED
    BY <1>r, <1>6, Zenon

\* Nor does taking one.
LEMMA CarriedOtherTaken ==
    ASSUME NEW S, NEW q \in Seq(S), NEW s, NEW w \in Seq(Nat), NEW t \in Nat, Carried(q, s, w, t),
           q # <<>>, ~Of(Head(q), s)
    PROVE  Carried(Tail(q), s, w, t)
  <1>r. PICK r : r = Tail(q)
    OBVIOUS
  <1>1. /\ Len(r) = Len(q) - 1 /\ Len(q) \in Nat /\ Head(q) = q[1]
        /\ \A i \in 1 .. Len(r) : i + 1 \in 1 .. Len(q) /\ r[i] = q[i + 1]
        /\ \A i \in 1 .. Len(q) : i # 1 => i - 1 \in 1 .. Len(r) /\ r[i - 1] = q[i]
    BY <1>r, Received
  <1>2. ASSUME NEW n \in t + 1 .. Len(w) PROVE \E i \in 1 .. Len(r) : Of(r[i], s) /\ No(r[i]) = w[n]
    <2>1. PICK i \in 1 .. Len(q) : Of(q[i], s) /\ No(q[i]) = w[n]
      BY DEF Carried
    <2>2. i # 1
      BY <1>1, <2>1
    <2> QED
      BY <1>1, <2>1, <2>2
  <1>3. ASSUME NEW i \in 1 .. Len(r), Of(r[i], s)
        PROVE  /\ \E n \in t + 1 .. Len(w) : No(r[i]) = w[n]
               /\ \A k \in i + 1 .. Len(r) : Of(r[k], s) => No(r[i]) < No(r[k])
    <2>1. i + 1 \in 1 .. Len(q) /\ r[i] = q[i + 1]
      BY <1>1
    <2>2. /\ \E n \in t + 1 .. Len(w) : No(r[i]) = w[n]
          /\ \A k \in i + 1 + 1 .. Len(q) : Of(q[k], s) => No(r[i]) < No(q[k])
      BY <1>3, <2>1 DEF Carried
    <2>3. ASSUME NEW k \in i + 1 .. Len(r), Of(r[k], s) PROVE No(r[i]) < No(r[k])
      <3>1. k \in 1 .. Len(r) /\ k + 1 \in i + 1 + 1 .. Len(q)
        BY <1>1
      <3>2. r[k] = q[k + 1]
        BY <1>1, <3>1
      <3> QED
        BY <2>2, <2>3, <3>1, <3>2
    <2> QED
      BY <2>2, <2>3
  <1>4. t <= Len(w)
    BY DEF Carried
  <1>5. Carried(r, s, w, t)
    BY <1>2, <1>3, <1>4 DEF Carried
  <1> QED
    BY <1>r, <1>5, Zenon

\* The first packet of the stream to be taken is the next one that was written.
LEMMA CarriedTaken ==
    ASSUME NEW S, NEW q \in Seq(S), NEW s, NEW w \in Seq(Nat), NEW t \in Nat, Carried(q, s, w, t),
           q # <<>>, Of(Head(q), s), \A i, k \in 1 .. Len(w) : i < k => w[i] < w[k]
    PROVE  No(Head(q)) = w[t + 1] /\ Carried(Tail(q), s, w, t + 1)
  <1>r. PICK r : r = Tail(q)
    OBVIOUS
  <1>1. /\ Len(r) = Len(q) - 1 /\ Len(q) \in Nat /\ Head(q) = q[1] /\ 1 \in 1 .. Len(q)
        /\ \A i \in 1 .. Len(r) : i + 1 \in 1 .. Len(q) /\ r[i] = q[i + 1]
        /\ \A i \in 1 .. Len(q) : i # 1 => i - 1 \in 1 .. Len(r) /\ r[i - 1] = q[i]
    BY <1>r, Received
  <1>w. Len(w) \in Nat /\ \A n \in t + 1 .. Len(w) : n \in 1 .. Len(w) /\ w[n] \in Nat
    OBVIOUS
  <1>2. /\ \E n \in t + 1 .. Len(w) : No(q[1]) = w[n]
        /\ \A k \in 1 + 1 .. Len(q) : Of(q[k], s) => No(q[1]) < No(q[k])
    BY <1>1 DEF Carried
  <1>3. PICK x \in t + 1 .. Len(w) : No(q[1]) = w[x]
    BY <1>2
  <1>4. t + 1 \in t + 1 .. Len(w) /\ t + 1 <= Len(w) /\ x \in Nat /\ t + 1 <= x
    BY <1>w
  <1>5. No(q[1]) = w[t + 1]
    <2>1. PICK i \in 1 .. Len(q) : Of(q[i], s) /\ No(q[i]) = w[t + 1]
      BY <1>4 DEF Carried
    <2>2. CASE i = 1
      BY <2>1, <2>2
    <2>3. CASE i # 1
      <3>1. i \in 1 + 1 .. Len(q)
        BY <1>1, <2>3
      <3>2. w[x] < w[t + 1]
        BY <1>2, <1>3, <2>1, <3>1
      <3>3. x # t + 1 => w[t + 1] < w[x]
        <4>1. x # t + 1 => t + 1 < x
          BY <1>4
        <4> QED
          BY <4>1, <1>w, <1>4
      <3>4. w[x] \in Nat /\ w[t + 1] \in Nat
        BY <1>w, <1>4
      <3>5. FALSE
        <4>1. CASE x = t + 1
          BY <3>2, <3>4, <4>1
        <4>2. CASE x # t + 1
          BY <3>2, <3>3, <3>4, <4>2
        <4> QED
          BY <4>1, <4>2
      <3> QED
        BY <3>5
    <2> QED
      BY <2>2, <2>3
  <1>6. ASSUME NEW n \in t + 1 + 1 .. Len(w) PROVE \E i \in 1 .. Len(r) : Of(r[i], s) /\ No(r[i]) = w[n]
    <2>1. n \in t + 1 .. Len(w) /\ t + 1 < n
      BY <1>w
    <2>2. PICK i \in 1 .. Len(q) : Of(q[i], s) /\ No(q[i]) = w[n]
      BY <2>1 DEF Carried
    <2>3. w[t + 1] < w[n] /\ w[t + 1] \in Nat
      BY <1>w, <1>4, <2>1
    <2>4. i # 1
      BY <1>5, <2>2, <2>3
    <2> QED
      BY <1>1, <2>2, <2>4
  <1>7. ASSUME NEW i \in 1 .. Len(r), Of(r[i], s)
        PROVE  /\ \E n \in t + 1 + 1 .. Len(w) : No(r[i]) = w[n]
               /\ \A k \in i + 1 .. Len(r) : Of(r[k], s) => No(r[i]) < No(r[k])
    <2>1. i + 1 \in 1 .. Len(q) /\ r[i] = q[i + 1] /\ i + 1 \in 1 + 1 .. Len(q)
      BY <1>1
    <2>2. /\ \E n \in t + 1 .. Len(w) : No(r[i]) = w[n]
          /\ \A k \in i + 1 + 1 .. Len(q) : Of(q[k], s) => No(r[i]) < No(q[k])
      BY <1>7, <2>1 DEF Carried
    <2>3. ASSUME NEW k \in i + 1 .. Len(r), Of(r[k], s) PROVE No(r[i]) < No(r[k])
      <3>1. k \in 1 .. Len(r) /\ k + 1 \in i + 1 + 1 .. Len(q)
        BY <1>1
      <3>2. r[k] = q[k + 1]
        BY <1>1, <3>1
      <3> QED
        BY <2>2, <2>3, <3>1, <3>2
    <2>4. PICK n \in t + 1 .. Len(w) : No(r[i]) = w[n]
      BY <2>2
    <2>5. w[t + 1] < w[n]
      BY <1>2, <1>5, <1>7, <2>1, <2>4
    <2>6. n # t + 1
      BY <1>w, <1>4, <2>5
    <2>7. n \in t + 1 + 1 .. Len(w)
      BY <1>w, <2>6
    <2> QED
      BY <2>3, <2>4, <2>7
  <1>8. Carried(r, s, w, t + 1)
    BY <1>4, <1>6, <1>7 DEF Carried
  <1> QED
    BY <1>r, <1>1, <1>5, <1>8, Zenon

-----------------------------------------------------------------------------
\* The trail of one stream: the consumer delivers a packet from the channel,
LEMMA TrailDelivered ==
    ASSUME NEW s, NEW w \in Seq(Nat), NEW d \in Seq(Nat), NEW o \in Seq(Nat), NEW has \in Seq(Nat), NEW q,
           o # <<>>, Trail(s, w, d, o, has, q)
    PROVE  Trail(s, w, Append(d, Head(o)), Tail(o), has, q)
  <1>r. PICK e, r : e = Append(d, Head(o)) /\ r = Tail(o)
    OBVIOUS
  <1>1. /\ Len(r) = Len(o) - 1 /\ Len(o) \in Nat /\ Len(o) > 0 /\ Head(o) = o[1] /\ 1 \in 1 .. Len(o)
        /\ Head(o) \in Nat
        /\ \A i \in 1 .. Len(r) : i + 1 \in 1 .. Len(o) /\ r[i] = o[i + 1]
    BY <1>r, Received
  <1>2. /\ Len(e) = Len(d) + 1 /\ Len(d) \in Nat
        /\ \A i \in 1 .. Len(e) : \/ i \in 1 .. Len(d) /\ e[i] = d[i]
                                  \/ i = Len(d) + 1 /\ e[i] = Head(o)
    <2>1. PICK h \in Nat : h = Head(o)
      BY <1>1
    <2>2. e = Append(d, h)
      BY <1>r, <2>1
    <2>3. /\ Len(e) = Len(d) + 1 /\ Len(d) \in Nat
          /\ \A i \in 1 .. Len(e) : \/ i \in 1 .. Len(d) /\ e[i] = d[i]
                                    \/ i = Len(d) + 1 /\ e[i] = h
      <3> HIDE <2>1
      <3> QED
        BY <2>2, Appended
    <2> QED
      BY <2>1, <2>3
  <1>3. PICK a \in Nat, b \in Nat, c \in Nat : a = Len(d) /\ b = Len(o) /\ c = Len(has)
    BY <1>1, <1>2
  <1>4. /\ \A i \in 1 .. Len(d) : d[i] = w[i]
        /\ \A i \in 1 .. Len(o) : o[i] = w[a + i]
        /\ \A i \in 1 .. Len(has) : has[i] = w[a + b + i]
        /\ Carried(q, s, w, a + b + c)
    BY <1>3 DEF Trail
  <1>5. (a + 1) + (b - 1) = a + b /\ \A i \in Nat : (a + 1) + i = a + (i + 1)
    <2> HIDE <1>3
    <2> QED
      OBVIOUS
  <1>6. \A i \in 1 .. Len(e) : e[i] = w[i]
    BY <1>1, <1>2, <1>3, <1>4
  <1>7. \A i \in 1 .. Len(r) : r[i] = w[(a + 1) + i]
    <2> TAKE i \in 1 .. Len(r)
    <2>1. r[i] = w[a + (i + 1)] /\ i \in Nat
      BY <1>1, <1>4
    <2> QED
      BY <1>5, <2>1
  <1>8. Len(e) = a + 1 /\ Len(r) = b - 1
    BY <1>1, <1>2, <1>3
  <1>9. /\ \A i \in 1 .. Len(has) : has[i] = w[(a + 1) + (b - 1) + i]
        /\ Carried(q, s, w, (a + 1) + (b - 1) + c)
    BY <1>4, <1>5
  <1>10. Trail(s, w, e, r, has, q)
    BY <1>3, <1>6, <1>7, <1>8, <1>9 DEF Trail
  <1> QED
    BY <1>r, <1>10, Zenon

\* the cargo task passes on what it has in hand,
LEMMA TrailPassed ==
    ASSUME NEW s, NEW w \in Seq(Nat), NEW d \in Seq(Nat), NEW o \in Seq(Nat), NEW p \in Nat, NEW q,
           Trail(s, w, d, o, <<p>>, q)
    PROVE  Trail(s, w, d, Append(o, p), <<>>, q)
  <1>r. PICK r : r = Append(o, p)
    OBVIOUS
  <1>1. /\ Len(r) = Len(o) + 1 /\ Len(o) \in Nat /\ Len(d) \in Nat
        /\ \A i \in 1 .. Len(r) : \/ i \in 1 .. Len(o) /\ r[i] = o[i]
                                  \/ i = Len(o) + 1 /\ r[i] = p
    BY <1>r, Appended
  <1>2. Len(<<p>>) = 1 /\ <<p>>[1] = p /\ Len(<<>>) = 0 /\ 1 .. 0 = {} /\ 1 \in 1 .. 1
    OBVIOUS
  <1>3. PICK a \in Nat, b \in Nat : a = Len(d) /\ b = Len(o)
    BY <1>1
  <1>4. /\ \A i \in 1 .. Len(d) : d[i] = w[i]
        /\ \A i \in 1 .. Len(o) : o[i] = w[a + i]
        /\ p = w[a + b + 1]
        /\ Carried(q, s, w, a + b + 1)
    BY <1>2, <1>3 DEF Trail
  <1>5. a + b + 1 = a + (b + 1) /\ a + b + 1 = a + (b + 1) + 0
    <2> HIDE <1>3
    <2> QED
      OBVIOUS
  <1>6. \A i \in 1 .. Len(r) : r[i] = w[a + i]
    <2> TAKE i \in 1 .. Len(r)
    <2>1. CASE i \in 1 .. Len(o) /\ r[i] = o[i]
      BY <1>4, <2>1
    <2>2. CASE i = b + 1 /\ r[i] = p
      BY <1>4, <1>5, <2>2
    <2> QED
      BY <1>1, <1>3, <2>1, <2>2
  <1>7. Len(r) = b + 1 /\ Carried(q, s, w, a + (b + 1) + 0)
    BY <1>1, <1>3, <1>4, <1>5
  <1>8. Trail(s, w, d, r, <<>>, q)
    BY <1>2, <1>3, <1>4, <1>6, <1>7 DEF Trail
  <1> QED
    BY <1>r, <1>8, Zenon

\* it takes a packet of the stream,
LEMMA TrailTaken ==
    ASSUME NEW S, NEW s, NEW w \in Seq(Nat), NEW d \in Seq(Nat), NEW o \in Seq(Nat), NEW q \in Seq(S),
           Trail(s, w, d, o, <<>>, q), q # <<>>, Of(Head(q), s),
           \A i, k \in 1 .. Len(w) : i < k => w[i] < w[k]
    PROVE  Trail(s, w, d, o, <<No(Head(q))>>, Tail(q))
  <1>1. PICK a \in Nat, b \in Nat : a = Len(d) /\ b = Len(o)
    OBVIOUS
  <1>2. Len(<<>>) = 0
    OBVIOUS
  <1>3. PICK t \in Nat : t = a + b
    OBVIOUS
  <1>4. a + b + 0 = t /\ a + b + 1 = t + 1
    <2> HIDE <1>1
    <2> QED
      BY <1>3
  <1>5. /\ \A i \in 1 .. Len(d) : d[i] = w[i]
        /\ \A i \in 1 .. Len(o) : o[i] = w[a + i]
        /\ Carried(q, s, w, t)
    BY <1>1, <1>2, <1>4 DEF Trail
  <1>6. No(Head(q)) = w[t + 1] /\ Carried(Tail(q), s, w, t + 1)
    <2> HIDE <1>1, <1>3
    <2> QED
      BY <1>5, CarriedTaken
  <1>7. PICK r, p : r = Tail(q) /\ p = No(Head(q))
    OBVIOUS
  <1>8. Len(<<p>>) = 1 /\ \A i \in 1 .. 1 : <<p>>[i] = p /\ i = 1
    OBVIOUS
  <1>9. \A i \in 1 .. Len(<<p>>) : <<p>>[i] = w[a + b + i]
    BY <1>4, <1>6, <1>7, <1>8
  <1>10. Carried(r, s, w, a + b + Len(<<p>>))
    BY <1>4, <1>6, <1>7, <1>8
  <1>11. Trail(s, w, d, o, <<p>>, r)
    BY <1>1, <1>5, <1>9, <1>10 DEF Trail
  <1> QED
    BY <1>7, <1>11, Zenon

\* Taking a message of another stream leaves this one's trail.
LEMMA TrailOtherTaken ==
    ASSUME NEW S, NEW s, NEW w \in Seq(Nat), NEW d \in Seq(Nat), NEW o \in Seq(Nat), NEW has \in Seq(Nat),
           NEW q \in Seq(S), Trail(s, w, d, o, has, q), q # <<>>, ~Of(Head(q), s)
    PROVE  Trail(s, w, d, o, has, Tail(q))
  <1>1. PICK t \in Nat : t = Len(d) + Len(o) + Len(has)
    OBVIOUS
  <1>2. Carried(q, s, w, t)
    BY <1>1 DEF Trail
  <1>3. Carried(Tail(q), s, w, t)
    <2> HIDE <1>1
    <2> QED
      BY <1>2, CarriedOtherTaken
  <1> QED
    BY <1>1, <1>3 DEF Trail

\* the program writes to the stream.
LEMMA TrailSent ==
    ASSUME NEW S, NEW s, NEW w \in Seq(Nat), NEW d \in Seq(Nat), NEW o \in Seq(Nat), NEW has \in Seq(Nat),
           NEW q \in Seq(S), Trail(s, w, d, o, has, q),
           NEW m \in S, NEW p \in Nat, Of(m, s), No(m) = p, \A i \in 1 .. Len(w) : w[i] < p
    PROVE  Trail(s, Append(w, p), d, o, has, Append(q, m))
  <1>1. PICK a \in Nat, b \in Nat, c \in Nat : a = Len(d) /\ b = Len(o) /\ c = Len(has)
    OBVIOUS
  <1>2. PICK t \in Nat : t = a + b + c
    OBVIOUS
  <1>3. /\ \A i \in 1 .. Len(d) : d[i] = w[i]
        /\ \A i \in 1 .. Len(o) : o[i] = w[a + i]
        /\ \A i \in 1 .. Len(has) : has[i] = w[a + b + i]
        /\ Carried(q, s, w, t)
    BY <1>1, <1>2 DEF Trail
  <1>4. Carried(Append(q, m), s, Append(w, p), t) /\ t <= Len(w)
    <2>1. Carried(Append(q, m), s, Append(w, p), t)
      <3> HIDE <1>1, <1>2
      <3> QED
        BY <1>3, CarriedSent
    <2> QED
      BY <1>3, <2>1 DEF Carried
  <1>5. PICK v : v = Append(w, p)
    OBVIOUS
  <1>6. Len(w) \in Nat /\ \A i \in 1 .. Len(w) : v[i] = w[i]
    BY <1>5, Appended
  <1>7. /\ \A i \in 1 .. a : i \in 1 .. Len(w)
        /\ \A i \in 1 .. b : a + i \in 1 .. Len(w)
        /\ \A i \in 1 .. c : a + b + i \in 1 .. Len(w)
    <2>1. PICK l \in Nat : l = Len(w)
      BY <1>6
    <2>2. a + b + c <= l
      BY <1>2, <1>4, <2>1
    <2>3. /\ \A i \in 1 .. a : i \in 1 .. l
          /\ \A i \in 1 .. b : a + i \in 1 .. l
          /\ \A i \in 1 .. c : a + b + i \in 1 .. l
      <3> HIDE <1>1, <1>2, <2>1
      <3> QED
        BY <2>2
    <2> QED
      BY <2>1, <2>3
  <1>8. /\ \A i \in 1 .. Len(d) : d[i] = v[i]
        /\ \A i \in 1 .. Len(o) : o[i] = v[a + i]
        /\ \A i \in 1 .. Len(has) : has[i] = v[a + b + i]
    BY <1>1, <1>3, <1>6, <1>7
  <1>9. PICK r : r = Append(q, m)
    OBVIOUS
  <1>10. Carried(r, s, v, a + b + c)
    BY <1>2, <1>4, <1>5, <1>9
  <1>11. Trail(s, v, d, o, has, r)
    BY <1>1, <1>8, <1>10 DEF Trail
  <1> QED
    BY <1>5, <1>9, <1>11, Zenon

\* So does sending one.
LEMMA TrailOtherSent ==
    ASSUME NEW S, NEW s, NEW w \in Seq(Nat), NEW d \in Seq(Nat), NEW o \in Seq(Nat), NEW has \in Seq(Nat),
           NEW q \in Seq(S), Trail(s, w, d, o, has, q), NEW m \in S, ~Of(m, s)
    PROVE  Trail(s, w, d, o, has, Append(q, m))
  <1>1. PICK t \in Nat : t = Len(d) + Len(o) + Len(has)
    OBVIOUS
  <1>2. Carried(q, s, w, t)
    BY <1>1 DEF Trail
  <1>3. Carried(Append(q, m), s, w, t)
    <2> HIDE <1>1
    <2> QED
      BY <1>2, CarriedOtherSent
  <1> QED
    BY <1>1, <1>3 DEF Trail

-----------------------------------------------------------------------------
\* The trail of stream s as it is now.
Follows(s) == Trail(s, written[s], delivered[s], outCh[s], Hand(s), fromWorker)

\* The types that the trail needs.
LEMMA OutTypes ==
    ASSUME TypeOK, NEW s \in Stream
    PROVE  /\ written[s] \in Seq(Nat) /\ delivered[s] \in Seq(Nat) /\ outCh[s] \in Seq(Nat)
           /\ Hand(s) \in Seq(Nat) /\ fromWorker \in Seq(FromWorker) /\ NWritten \in Nat
  <1>1. MaxOut \in Nat
    BY ExecutionAssumption
  <1>2. \A q \in Seq(1 .. MaxOut) : q \in Seq(Nat)
    <2>1. 1 .. MaxOut \subseteq Nat
      BY <1>1
    <2> QED
      BY <2>1, SeqMonotonic
  <1>3. /\ written[s] \in Seq(1 .. MaxOut) /\ delivered[s] \in Seq(1 .. MaxOut)
        /\ outCh[s] \in Seq(1 .. MaxOut) /\ fromWorker \in Seq(FromWorker)
    BY DEF TypeOK
  <1>4. Hand(s) \in Seq(Nat)
    <2>1. CASE cargo = "out" /\ Of(cargoHas[1], s)
      <3>1. PICK p \in 1 .. MaxOut : p = No(cargoHas[1])
        BY <2>1, InHand, Messages DEF No
      <3>2. p \in Nat /\ Hand(s) = <<p>>
        BY <1>1, <2>1, <3>1 DEF Hand
      <3> QED
        BY <3>2
    <2>2. CASE ~(cargo = "out" /\ Of(cargoHas[1], s))
      BY <2>2 DEF Hand
    <2> QED
      BY <2>1, <2>2
  <1>5. NWritten \in Nat
    BY DEF TypeOK, NWritten, Stream
  <1> QED
    BY <1>2, <1>3, <1>4, <1>5

\* The next packet has the highest number.
LEMMA NumberedSent ==
    ASSUME NEW w \in Seq(Nat), NEW n \in Nat, Numbered(w, n)
    PROVE  Numbered(Append(w, n + 1), n + 1) /\ Numbered(w, n + 1)
  <1>1. PICK p \in Nat : p = n + 1
    OBVIOUS
  <1>2. PICK v : v = Append(w, p)
    OBVIOUS
  <1>3. /\ Len(v) = Len(w) + 1 /\ Len(w) \in Nat
        /\ \A i \in 1 .. Len(v) : \/ i \in 1 .. Len(w) /\ v[i] = w[i]
                                  \/ i = Len(w) + 1 /\ v[i] = p
    BY <1>2, Appended
  <1>4. /\ \A i \in 1 .. Len(w) : w[i] \in Nat /\ w[i] < p /\ w[i] <= p
        /\ \A i, k \in 1 .. Len(w) : i < k => w[i] < w[k]
    BY <1>1 DEF Numbered
  <1>5. \A i \in 1 .. Len(v) : v[i] <= p
    BY <1>3, <1>4
  <1>6. ASSUME NEW i \in 1 .. Len(v), NEW k \in 1 .. Len(v), i < k PROVE v[i] < v[k]
    <2>1. i \in 1 .. Len(w) /\ v[i] = w[i]
      BY <1>3, <1>6
    <2> QED
      BY <1>3, <1>4, <1>6, <2>1
  <1>7. Numbered(v, p) /\ Numbered(w, p)
    BY <1>4, <1>5, <1>6 DEF Numbered
  <1> QED
    BY <1>1, <1>2, <1>7, Zenon

\* What the program writes, and where.
LEMMA WrittenStep ==
    ASSUME TypeOK, ChildWrites
    PROVE  /\ written'[childTo] = Append(written[childTo], NWritten + 1)
           /\ \A s \in Stream : s # childTo => written'[s] = written[s]
           /\ NWritten' = NWritten + 1
  <1>1. written \in [Stream -> Seq(1 .. MaxOut)] /\ childTo \in Stream
    BY DEF TypeOK
  <1>2. PICK n : n = NWritten + 1
    OBVIOUS
  <1>3. written' = [written EXCEPT ![childTo] = Append(written[childTo], n)]
    BY <1>2 DEF ChildWrites
  <1>4. PICK v : v = Append(written[childTo], n)
    OBVIOUS
  <1>5. Len(v) = Len(written[childTo]) + 1
    <2>1. PICK w \in Seq(1 .. MaxOut) : w = written[childTo]
      BY <1>1
    <2>2. Len(Append(w, n)) = Len(w) + 1
      OBVIOUS
    <2> QED
      BY <1>4, <2>1, <2>2
  <1>6. written'[childTo] = v /\ \A s \in Stream : s # childTo => written'[s] = written[s]
    BY <1>1, <1>3, <1>4
  <1>7. \A s \in Stream : Len(written[s]) \in Nat
    BY <1>1
  <1>8. NWritten' = NWritten + 1
    <2>1. PICK a \in Nat, b \in Nat, c \in Nat :
            a = Len(written["stdout"]) /\ b = Len(written["stderr"]) /\ c = Len(written["status"])
      BY <1>7 DEF Stream
    <2>2. NWritten = a + b + c
      BY <2>1 DEF NWritten
    <2>3. NWritten' = Len(written'["stdout"]) + Len(written'["stderr"]) + Len(written'["status"])
      BY DEF NWritten
    <2>4. CASE childTo = "stdout"
      <3>1. NWritten' = (a + 1) + b + c
        BY <1>5, <1>6, <2>1, <2>3, <2>4 DEF Stream
      <3> QED
        BY <2>2, <3>1
    <2>5. CASE childTo = "stderr"
      <3>1. NWritten' = a + (b + 1) + c
        BY <1>5, <1>6, <2>1, <2>3, <2>5 DEF Stream
      <3> QED
        BY <2>2, <3>1
    <2>6. CASE childTo = "status"
      <3>1. NWritten' = a + b + (c + 1)
        BY <1>5, <1>6, <2>1, <2>3, <2>6 DEF Stream
      <3> QED
        BY <2>2, <3>1
    <2> QED
      BY <1>1, <2>4, <2>5, <2>6 DEF Stream
  <1> QED
    BY <1>2, <1>4, <1>6, <1>8

\* Nothing else writes.
LEMMA WrittenOnly ==
    ASSUME Next, ~ChildWrites
    PROVE  UNCHANGED written
  BY DEF Next, User, UserStdin, UserStdinClose, UserKill, Consumer, ConsumeStdin, SendStdin,
         TaskResponse, EndSession, ConsumeOutput, Drain, AbortConsumer, Cargo, CargoCancelled,
         CargoStdin, CargoSend, CargoFromWorker, CargoOut, Worker, WorkerCommand, WorkerReports,
         IoQueueFails, Child, ChildReads, ChildExits, ChildWants, WorkerDies, workerVars

\* The numbers go up, whoever writes next.
LEMMA NumberedStep ==
    ASSUME TypeOK, OutFlow, Next, NEW s \in Stream
    PROVE  Numbered(written'[s], NWritten')
  <1>0. written[s] \in Seq(Nat) /\ NWritten \in Nat /\ Numbered(written[s], NWritten)
    BY OutTypes DEF OutFlow
  <1>1. CASE ChildWrites
    <2>1. PICK w \in Seq(Nat), n \in Nat : w = written[s] /\ n = NWritten
      BY <1>0
    <2>2. Numbered(w, n)
      BY <1>0, <2>1
    <2>3. Numbered(Append(w, n + 1), n + 1) /\ Numbered(w, n + 1)
      <3> HIDE <2>1
      <3> QED
        BY <2>2, NumberedSent
    <2>4. NWritten' = n + 1 /\ (written'[s] = Append(w, n + 1) \/ written'[s] = w)
      BY <1>1, <2>1, WrittenStep
    <2> QED
      BY <2>3, <2>4, Zenon
  <1>2. CASE ~ChildWrites
    <2>1. UNCHANGED written
      BY <1>2, WrittenOnly
    <2> QED
      BY <1>0, <2>1 DEF NWritten
  <1> QED
    BY <1>1, <1>2

\* The trail follows every step: of the consumer,
LEMMA DeliverTrail ==
    ASSUME TypeOK, NEW s \in Stream, Follows(s), NEW x \in Stream, ConsumeOutput(x) \/ Drain(x)
    PROVE  Follows(s)'
  <1>0. /\ written[s] \in Seq(Nat) /\ delivered[s] \in Seq(Nat) /\ outCh[s] \in Seq(Nat)
        /\ Hand(s) \in Seq(Nat)
    BY OutTypes
  <1>1. /\ UNCHANGED <<written, fromWorker, cargo, cargoHas>> /\ outCh[x] # <<>>
        /\ delivered' = [delivered EXCEPT ![x] = Append(delivered[x], Head(outCh[x]))]
        /\ outCh' = [outCh EXCEPT ![x] = Tail(outCh[x])]
    BY DEF ConsumeOutput, Drain, Deliver, workerVars, cargoVars
  <1>2. Hand(s)' = Hand(s)
    BY <1>1 DEF Hand
  <1>3. delivered \in [Stream -> Seq(1 .. MaxOut)] /\ outCh \in [Stream -> Seq(1 .. MaxOut)]
    BY DEF TypeOK
  <1>4. CASE s # x
    <2>1. delivered'[s] = delivered[s] /\ outCh'[s] = outCh[s]
      BY <1>1, <1>3, <1>4
    <2> QED
      BY <1>1, <1>2, <2>1 DEF Follows
  <1>5. CASE s = x
    <2>1. delivered'[s] = Append(delivered[s], Head(outCh[s])) /\ outCh'[s] = Tail(outCh[s])
      BY <1>1, <1>3, <1>5
    <2>2. PICK w \in Seq(Nat), d \in Seq(Nat), o \in Seq(Nat), h \in Seq(Nat), q \in Seq(FromWorker) :
            w = written[s] /\ d = delivered[s] /\ o = outCh[s] /\ h = Hand(s) /\ q = fromWorker
      BY <1>0 DEF TypeOK
    <2>3. o # <<>> /\ Trail(s, w, d, o, h, q)
      BY <1>1, <1>5, <2>2 DEF Follows
    <2>4. Trail(s, w, Append(d, Head(o)), Tail(o), h, q)
      <3> HIDE <2>2
      <3> QED
        BY <2>3, TrailDelivered
    <2> QED
      BY <1>1, <1>2, <2>1, <2>2, <2>4, Zenon DEF Follows
  <1> QED
    BY <1>4, <1>5

\* of the cargo task,
LEMMA CargoTrail ==
    ASSUME TypeOK, Ends, consumer # "done", NEW s \in Stream, Follows(s), Numbered(written[s], NWritten),
           CargoFromWorker \/ CargoOut
    PROVE  Follows(s)'
  <1>0. /\ written[s] \in Seq(Nat) /\ delivered[s] \in Seq(Nat) /\ outCh[s] \in Seq(Nat)
        /\ Hand(s) \in Seq(Nat) /\ fromWorker \in Seq(FromWorker)
    BY OutTypes
  <1>1. PICK w \in Seq(Nat), d \in Seq(Nat), o \in Seq(Nat), h \in Seq(Nat), q \in Seq(FromWorker) :
          w = written[s] /\ d = delivered[s] /\ o = outCh[s] /\ h = Hand(s) /\ q = fromWorker
    BY <1>0
  <1>2. Trail(s, w, d, o, h, q) /\ \A i, k \in 1 .. Len(w) : i < k => w[i] < w[k]
    BY <1>1 DEF Follows, Numbered
  <1>3. UNCHANGED <<written, delivered>>
    BY DEF CargoFromWorker, CargoOut, workerVars, consumerVars
  <1>4. CASE CargoFromWorker
    <2>1. /\ cargo = "select" /\ q # <<>> /\ fromWorker' = Tail(q) /\ UNCHANGED outCh
          /\ Head(q).type = "Output" => cargo' = "out" /\ cargoHas' = <<Head(q)>>
          /\ Head(q).type # "Output" => cargo' # "out"
      BY <1>1, <1>4 DEF CargoFromWorker
    <2>2. h = <<>>
      BY <1>1, <2>1 DEF Hand
    <2>3. PICK m : m = Head(q)
      OBVIOUS
    <2>4. CASE Of(m, s)
      <3>1. cargo' = "out" /\ cargoHas' = <<m>>
        BY <2>1, <2>3, <2>4 DEF Of
      <3>2. cargoHas'[1] = m
        BY <3>1
      <3>3. Hand(s)' = <<No(m)>>
        BY <2>4, <3>1, <3>2 DEF Hand
      <3>4. Trail(s, w, d, o, <<No(Head(q))>>, Tail(q))
        <4>1. Of(Head(q), s) /\ Trail(s, w, d, o, <<>>, q) /\ q # <<>>
          BY <1>2, <2>1, <2>2, <2>3, <2>4
        <4> HIDE <1>1, <2>3
        <4> QED
          BY <1>2, <4>1, TrailTaken
      <3> QED
        BY <1>1, <1>3, <2>1, <2>3, <3>3, <3>4, Zenon DEF Follows
    <2>5. CASE ~Of(m, s)
      <3>1. Hand(s)' = <<>>
        <4>1. CASE m.type = "Output"
          <5>1. cargoHas' = <<m>>
            BY <2>1, <2>3, <4>1
          <5>2. cargoHas'[1] = m
            BY <5>1
          <5> QED
            BY <2>5, <5>2 DEF Hand
        <4>2. CASE m.type # "Output"
          BY <2>1, <2>3, <4>2 DEF Hand
        <4> QED
          BY <4>1, <4>2
      <3>2. Trail(s, w, d, o, h, Tail(q))
        <4>1. ~Of(Head(q), s) /\ q # <<>>
          BY <2>1, <2>3, <2>5
        <4> HIDE <1>1, <2>3
        <4> QED
          BY <1>2, <4>1, TrailOtherTaken
      <3> QED
        BY <1>1, <1>3, <2>1, <2>2, <3>1, <3>2, Zenon DEF Follows
    <2> QED
      BY <2>4, <2>5
  <1>5. CASE CargoOut
    <2>1. /\ cargo = "out" /\ cargo' = "select" /\ UNCHANGED fromWorker
          /\ outCh' = [outCh EXCEPT ![cargoHas[1].packet[1]] = Append(@, cargoHas[1].packet[2])]
      BY <1>5 DEF CargoOut, Ends
    <2>2. PICK x \in Stream, p \in 1 .. MaxOut :
            /\ x = cargoHas[1].packet[1] /\ p = cargoHas[1].packet[2]
            /\ cargoHas[1].type = "Output"
      BY <2>1, InHand, Messages
    <2>3. outCh' = [outCh EXCEPT ![x] = Append(outCh[x], p)] /\ outCh \in [Stream -> Seq(1 .. MaxOut)]
      BY <2>1, <2>2 DEF TypeOK
    <2>4. Hand(s)' = <<>>
      BY <2>1 DEF Hand
    <2>5. CASE x = s
      <3>1. h = <<p>> /\ outCh'[s] = Append(o, p) /\ p \in Nat
        BY <1>1, <2>1, <2>2, <2>3, <2>5, ExecutionAssumption DEF Hand, Of, No
      <3>2. Trail(s, w, d, Append(o, p), <<>>, q)
        <4>1. Trail(s, w, d, o, <<p>>, q)
          BY <1>2, <3>1
        <4> HIDE <1>1, <2>2
        <4> QED
          BY <3>1, <4>1, TrailPassed
      <3> QED
        BY <1>1, <1>3, <2>1, <2>4, <3>1, <3>2, Zenon DEF Follows
    <2>6. CASE x # s
      <3>1. h = <<>> /\ outCh'[s] = o
        BY <1>1, <2>2, <2>3, <2>6 DEF Hand, Of
      <3> QED
        BY <1>1, <1>2, <1>3, <2>1, <2>4, <3>1, Zenon DEF Follows
    <2> QED
      BY <2>5, <2>6
  <1> QED
    BY <1>4, <1>5

\* and of the worker.
LEMMA WorkerTrail ==
    ASSUME TypeOK, ChildRuns, NEW s \in Stream, Follows(s), Numbered(written[s], NWritten),
           ChildWrites \/ WorkerReports
    PROVE  Follows(s)'
  <1>0. /\ written[s] \in Seq(Nat) /\ delivered[s] \in Seq(Nat) /\ outCh[s] \in Seq(Nat)
        /\ Hand(s) \in Seq(Nat) /\ fromWorker \in Seq(FromWorker) /\ NWritten \in Nat
    BY OutTypes
  <1>1. PICK w \in Seq(Nat), d \in Seq(Nat), o \in Seq(Nat), h \in Seq(Nat), q \in Seq(FromWorker) :
          w = written[s] /\ d = delivered[s] /\ o = outCh[s] /\ h = Hand(s) /\ q = fromWorker
    BY <1>0
  <1>2. Trail(s, w, d, o, h, q)
    BY <1>1 DEF Follows
  <1>3. UNCHANGED <<delivered, outCh, cargo, cargoHas>>
    BY DEF ChildWrites, WorkerReports, consumerVars, cargoVars
  <1>4. Hand(s)' = Hand(s)
    BY <1>3 DEF Hand
  <1>5. ASSUME NEW m \in FromWorker, ~Of(m, s), fromWorker' = Append(q, m), written'[s] = w
        PROVE  Follows(s)'
    <2>1. Trail(s, w, d, o, h, Append(q, m))
      <3> HIDE <1>1
      <3> QED
        BY <1>2, <1>5, TrailOtherSent
    <2> QED
      BY <1>1, <1>3, <1>4, <1>5, <2>1, Zenon DEF Follows
  <1>6. CASE WorkerReports
    <2>1. PICK y \in {"ExecuteCommand", "Error"} : fromWorker' = Append(fromWorker, [type |-> y])
      BY <1>6 DEF WorkerReports
    <2>2. PICK m \in FromWorker : m = [type |-> y]
      BY <2>1, Messages
    <2>3. ~Of(m, s) /\ fromWorker' = Append(q, m) /\ written'[s] = w
      BY <1>1, <1>6, <2>1, <2>2 DEF Of, WorkerReports
    <2> QED
      BY <1>5, <2>3
  <1>7. CASE ChildWrites
    <2>1. PICK n \in Nat : n = NWritten + 1
      BY <1>0
    <2>2. PICK m : m = [type |-> "Output", packet |-> <<childTo, n>>]
      OBVIOUS
    <2>3. fromWorker' = Append(q, m) /\ childTo \in Stream
      BY <1>1, <1>7, <2>1, <2>2 DEF ChildWrites, TypeOK
    <2>4. m \in FromWorker
      <3>1. NWritten < MaxOut
        BY <1>7 DEF ChildWrites, ChildRuns
      <3>2. n \in 1 .. MaxOut
        BY <1>0, <2>1, <3>1, ExecutionAssumption
      <3> QED
        BY <2>2, <2>3, <3>2 DEF FromWorker, Packet
    <2>5. No(m) = n /\ (Of(m, s) <=> childTo = s)
      BY <2>2 DEF No, Of
    <2>6. CASE childTo = s
      <3>1. written'[s] = Append(w, n)
        BY <1>1, <1>7, <2>1, <2>6, WrittenStep
      <3>2. \A i \in 1 .. Len(w) : w[i] < n
        <4>1. \A i \in 1 .. Len(w) : w[i] \in Nat
          OBVIOUS
        <4>2. \A i \in 1 .. Len(w) : w[i] <= NWritten
          BY <1>1 DEF Numbered
        <4> QED
          BY <1>0, <2>1, <4>1, <4>2
      <3>3. Trail(s, Append(w, n), d, o, h, Append(q, m))
        <4>1. Of(m, s)
          BY <2>5, <2>6
        <4> HIDE <1>1, <2>1, <2>2
        <4> QED
          BY <1>2, <2>4, <2>5, <3>2, <4>1, TrailSent
      <3> QED
        BY <1>1, <1>3, <1>4, <2>3, <3>1, <3>3, Zenon DEF Follows
    <2>7. CASE childTo # s
      <3>1. written'[s] = w
        BY <1>1, <1>7, <2>7, WrittenStep
      <3> QED
        BY <1>5, <2>3, <2>4, <2>5, <2>7, <3>1
    <2> QED
      BY <2>6, <2>7
  <1> QED
    BY <1>6, <1>7

\* So what was written stays, packet by packet, between the program and the browser.
LEMMA OutFlowStep ==
    ASSUME TypeOK, ChildRuns, Ends, OutFlow, Next
    PROVE  OutFlow'
  <1>1. ASSUME NEW s \in Stream, consumer' # "done" PROVE Follows(s)'
    <2>0. consumer # "done"
      BY <1>1 DEF Next, User, UserStdin, UserStdinClose, UserKill, Consumer, ConsumeStdin, SendStdin,
             TaskResponse, EndSession, ConsumeOutput, Drain, AbortConsumer, Cargo, CargoCancelled,
             CargoStdin, CargoSend, CargoFromWorker, CargoOut, Worker, WorkerCommand, WorkerReports,
             ChildWrites, IoQueueFails, Child, ChildReads, ChildExits, ChildWants, WorkerDies, consumerVars
    <2>1. Follows(s) /\ Numbered(written[s], NWritten)
      BY <2>0 DEF OutFlow, Follows
    <2>2. CASE /\ UNCHANGED <<written, delivered, outCh, fromWorker>>
               /\ UNCHANGED <<cargo, cargoHas>> \/ (cargo # "out" /\ cargo' # "out")
      <3>1. Hand(s)' = Hand(s)
        BY <2>2 DEF Hand
      <3> QED
        BY <2>1, <2>2, <3>1 DEF Follows
    <2>3. CASE User \/ ConsumeStdin \/ SendStdin \/ TaskResponse \/ EndSession \/ AbortConsumer
      <3>1. UNCHANGED <<written, delivered, outCh, fromWorker, cargo, cargoHas>>
        BY <2>3, <1>1 DEF User, UserStdin, UserStdinClose, UserKill, ConsumeStdin, SendStdin, TaskResponse,
           EndSession, AbortConsumer, consumerVars, cargoVars, workerVars
      <3> QED
        BY <2>2, <3>1
    <2>4. CASE CargoCancelled \/ CargoStdin \/ CargoSend
      <3>1. UNCHANGED <<written, delivered, outCh, fromWorker>> /\ cargo # "out" /\ cargo' # "out"
        BY <2>4 DEF CargoCancelled, CargoStdin, CargoSend, consumerVars, workerVars
      <3> QED
        BY <2>2, <3>1
    <2>5. CASE WorkerCommand \/ IoQueueFails \/ Child \/ WorkerDies
      <3>1. UNCHANGED <<written, delivered, outCh, fromWorker, cargo, cargoHas>>
        BY <2>5 DEF WorkerCommand, IoQueueFails, Child, ChildReads, ChildExits, ChildWants, WorkerDies,
           consumerVars, cargoVars, workerVars
      <3> QED
        BY <2>2, <3>1
    <2>6. ASSUME NEW x \in Stream, ConsumeOutput(x) \/ Drain(x) PROVE Follows(s)'
      BY <2>1, <2>6, DeliverTrail
    <2>7. CASE CargoFromWorker \/ CargoOut
      BY <2>0, <2>1, <2>7, CargoTrail
    <2>8. CASE ChildWrites \/ WorkerReports
      BY <2>1, <2>8, WorkerTrail
    <2> QED
      BY <2>3, <2>4, <2>5, <2>6, <2>7, <2>8 DEF Next, Consumer, Cargo, Worker
  <1>2. \A s \in Stream : Numbered(written'[s], NWritten')
    BY NumberedStep
  <1> QED
    BY <1>1, <1>2 DEF OutFlow, Follows

-----------------------------------------------------------------------------
\* Once nothing is in the channels and nothing in hand, all was delivered.
LEMMA TrailEnd ==
    ASSUME NEW s, NEW w \in Seq(Nat), NEW d \in Seq(Nat), Trail(s, w, d, <<>>, <<>>, <<>>)
    PROVE  d = w
  <1>1. PICK t \in Nat : t = Len(d)
    OBVIOUS
  <1>2. Len(<<>>) = 0 /\ t + 0 + 0 = t /\ 1 .. 0 = {}
    OBVIOUS
  <1>3. Carried(<<>>, s, w, t) /\ \A i \in 1 .. Len(d) : d[i] = w[i]
    BY <1>1, <1>2 DEF Trail
  <1>4. t <= Len(w) /\ \A n \in t + 1 .. Len(w) : FALSE
    BY <1>2, <1>3 DEF Carried
  <1>5. Len(w) \in Nat
    OBVIOUS
  <1>6. t = Len(w)
    <2>1. PICK l \in Nat : l = Len(w)
      BY <1>5
    <2>2. t <= l /\ \A n \in t + 1 .. l : FALSE
      BY <1>4, <2>1
    <2>3. l \notin t + 1 .. l
      BY <2>2
    <2>4. t = l
      <3> HIDE <1>1, <2>1
      <3> QED
        BY <2>2, <2>3
    <2> QED
      BY <2>1, <2>4
  <1>7. Len(d) = Len(w) /\ \A i \in 1 .. Len(d) : d[i] = w[i]
    BY <1>1, <1>3, <1>6
  <1> HIDE <1>1
  <1> QED
    BY <1>7, SeqEqual

\* Only the end of the drain reports success, and then the job was reported.
LEMMA EndedStep ==
    ASSUME Reported, Ended, Next
    PROVE  /\ Ended'
           /\ result' = "end" /\ result # "end" => EndSession /\ cargo = "ok"
  <1> USE DEF userVars, consumerVars, cargoVars, workerVars
  <1>1. result' = "end" /\ result # "end" => EndSession /\ cargo = "ok"
    BY DEF Next, User, UserStdin, UserStdinClose, UserKill, Consumer, ConsumeStdin, SendStdin,
           TaskResponse, EndSession, ConsumeOutput, Drain, AbortConsumer, Cargo, CargoCancelled,
           CargoStdin, CargoSend, CargoFromWorker, CargoOut, Worker, WorkerCommand, WorkerReports,
           ChildWrites, IoQueueFails, Child, ChildReads, ChildExits, ChildWants, WorkerDies, Finish
  <1>2. result' = "end" => child = "reported"
    BY <1>1 DEF Ended, Reported
  <1> QED
    BY <1>1, <1>2, ChildStep DEF Ended

\* Then all of the output was delivered, and nothing is written afterwards.
LEMMA OutputBeforeEndStep ==
    ASSUME TypeOK, Reported, Ends, OutFlow, Ended, OutputBeforeEnd, Next
    PROVE  OutputBeforeEnd'
  <1> SUFFICES ASSUME result' = "end", NEW s \in Drained
               PROVE  delivered'[s] = written'[s]
    BY DEF OutputBeforeEnd
  <1>s. s \in Stream
    BY DEF Drained, Stream
  <1>1. CASE result = "end"
    <2>1. consumer = "done" /\ child = "reported"
      BY <1>1 DEF Ends, Ended
    <2>2. UNCHANGED written
      BY <2>1, WrittenOnly DEF ChildWrites
    <2>3. UNCHANGED delivered
      BY <2>1 DEF Next, User, UserStdin, UserStdinClose, UserKill, Consumer, ConsumeStdin, SendStdin,
             TaskResponse, EndSession, ConsumeOutput, Drain, AbortConsumer, Cargo, CargoCancelled,
             CargoStdin, CargoSend, CargoFromWorker, CargoOut, Worker, WorkerCommand, WorkerReports,
             ChildWrites, IoQueueFails, Child, ChildReads, ChildExits, ChildWants, WorkerDies, consumerVars
    <2> QED
      BY <1>1, <2>2, <2>3 DEF OutputBeforeEnd
  <1>2. CASE result # "end"
    <2>1. EndSession /\ cargo = "ok"
      BY <1>2, EndedStep
    <2>2. /\ consumer = "drain" /\ outCh[s] = <<>> /\ fromWorker = <<>> /\ Hand(s) = <<>>
          /\ UNCHANGED <<written, delivered>>
      BY <2>1 DEF EndSession, Reported, Hand, workerVars
    <2>3. Trail(s, written[s], delivered[s], <<>>, <<>>, <<>>)
      BY <1>s, <2>2 DEF OutFlow
    <2>4. delivered[s] = written[s]
      BY <1>s, <2>3, OutTypes, TrailEnd
    <2> QED
      BY <2>2, <2>4
  <1> QED
    BY <1>1, <1>2

-----------------------------------------------------------------------------
\* Nothing was sent yet.
LEMMA InitInv ==
    ASSUME Init
    PROVE  Inv
  <1>0. Cap \in Nat /\ MaxIn \in Nat /\ MaxOut \in Nat
    BY ExecutionAssumption
  <1>e. Len(<<>>) = 0 /\ 1 .. 0 = {} /\ \A S : <<>> \in Seq(S)
    OBVIOUS
  <1>i. /\ nIn = 0 /\ userIn = <<>> /\ userOpen = TRUE /\ cancelled = FALSE
        /\ consumer = "loop" /\ consumerHas = <<>> /\ stdinTx = TRUE /\ outRx = TRUE
        /\ stdinCh = <<>> /\ outCh = [s \in Stream |-> <<>>]
        /\ cargo = "select" /\ cargoHas = <<>> /\ stdinOpen = TRUE /\ killSent = FALSE
        /\ toWorker = <<>> /\ fromWorker = <<>>
        /\ worker = "up" /\ child = "ready" /\ childTo = "stdout" /\ childIn = <<>> /\ childEof = FALSE
        /\ written = [s \in Stream |-> <<>>] /\ delivered = [s \in Stream |-> <<>>]
        /\ result = "none"
    BY DEF Init
  <1>1. TypeOK
    <2>1. /\ outCh \in [Stream -> Seq(1 .. MaxOut)] /\ \A s \in Stream : Len(outCh[s]) <= Cap
          /\ written \in [Stream -> Seq(1 .. MaxOut)] /\ delivered \in [Stream -> Seq(1 .. MaxOut)]
      BY <1>0, <1>e, <1>i
    <2>2. childTo \in Stream /\ nIn \in 0 .. MaxIn
      BY <1>0, <1>i DEF Stream
    <2>3. /\ userOpen \in BOOLEAN /\ cancelled \in BOOLEAN /\ stdinTx \in BOOLEAN /\ outRx \in BOOLEAN
          /\ stdinOpen \in BOOLEAN /\ killSent \in BOOLEAN /\ childEof \in BOOLEAN
      BY <1>i, Zenon
    <2>4. /\ userIn \in Seq(1 .. MaxIn) /\ consumerHas \in Seq(1 .. MaxIn) /\ stdinCh \in Seq(1 .. MaxIn)
          /\ childIn \in Seq(1 .. MaxIn) /\ toWorker \in Seq(ToWorker) /\ fromWorker \in Seq(FromWorker)
          /\ Len(consumerHas) = 0 /\ Len(stdinCh) <= Cap /\ Len(cargoHas) = 0
          /\ Len(toWorker) <= Cap /\ Len(fromWorker) <= Cap
      BY <1>0, <1>e, <1>i
    <2>5. /\ consumer = "loop" /\ cargo = "select" /\ worker = "up" /\ child = "ready" /\ result = "none"
      BY <1>i
    <2> QED
      BY <2>1, <2>2, <2>3, <2>4, <2>5 DEF TypeOK
  <1>2. ChildRuns /\ Reported /\ Ends /\ Ended /\ OutputBeforeEnd
    BY <1>e, <1>i DEF ChildRuns, Reported, Ends, Ended, OutputBeforeEnd, Running
  <1>3. StdinEnd
    BY <1>e, <1>i DEF StdinEnd
  <1>4. StdinFlow
    <2>1. ~HasIn
      BY <1>i DEF HasIn
    <2>2. 0 + 1 .. 0 = {} /\ 0 \in 0 .. 0 /\ 0 + 0 + 0 + 0 = 0
      OBVIOUS
    <2>3. Queued(<<>>, 0, 0)
      BY <1>e, <2>2 DEF Queued
    <2>4. Behind(0)
      BY <1>e, <1>i, <2>2 DEF Behind, Line
    <2> QED
      BY <1>e, <1>i, <2>1, <2>2, <2>3, <2>4 DEF StdinFlow
  <1>5. OutFlow
    <2> SUFFICES ASSUME NEW s \in Stream
                 PROVE  /\ Numbered(written[s], NWritten)
                        /\ Trail(s, written[s], delivered[s], outCh[s], Hand(s), fromWorker)
      BY DEF OutFlow
    <2>1. written[s] = <<>> /\ delivered[s] = <<>> /\ outCh[s] = <<>> /\ Hand(s) = <<>> /\ fromWorker = <<>>
      BY <1>i DEF Hand
    <2>2. Numbered(<<>>, NWritten)
      BY <1>e DEF Numbered
    <2>3. 0 + 1 .. 0 = {} /\ 0 + 0 + 0 = 0
      OBVIOUS
    <2>4. Carried(<<>>, s, <<>>, 0)
      BY <1>e, <2>3 DEF Carried
    <2>5. Trail(s, <<>>, <<>>, <<>>, <<>>, <<>>)
      BY <1>e, <2>3, <2>4 DEF Trail
    <2> QED
      BY <2>1, <2>2, <2>5
  <1> QED
    BY <1>1, <1>2, <1>3, <1>4, <1>5 DEF Inv

\* A step that changes nothing keeps the invariant.
LEMMA StutterInv ==
    ASSUME Inv, UNCHANGED vars
    PROVE  Inv'
  <1> USE DEF vars, userVars, consumerVars, cargoVars, workerVars
  <1>0. TypeOK'
    BY DEF Inv, TypeOK
  <1>1. ChildRuns' /\ Reported' /\ Ends' /\ Ended' /\ OutputBeforeEnd'
    BY DEF Inv, ChildRuns, Reported, Ends, Ended, OutputBeforeEnd, Running, NWritten
  <1>2. StdinEnd'
    BY DEF Inv, StdinEnd, HasIn
  <1>3. StdinFlow'
    BY DEF Inv, StdinFlow, HasIn, Behind, Running
  <1>4. OutFlow'
    BY DEF Inv, OutFlow, NWritten, Hand
  <1> QED
    BY <1>0, <1>1, <1>2, <1>3, <1>4 DEF Inv

\* The invariant of an execution: both directions, cut anywhere, hold what was
\* sent and has not arrived, in order.
THEOREM Invariance == Spec => []Inv
  <1>1. Init => Inv
    BY InitInv
  <1>2. Inv /\ [Next]_vars => Inv'
    <2>1. ASSUME Inv, Next PROVE Inv'
      <3>1. TypeOK /\ ChildRuns /\ Reported /\ Ends /\ StdinEnd /\ StdinFlow /\ OutFlow /\ Ended
            /\ OutputBeforeEnd
        BY <2>1 DEF Inv
      <3>2. TypeOK'
        BY <2>1, <3>1, TypeStep
      <3>3. ChildRuns' /\ Reported' /\ Ends'
        BY <2>1, <3>1, ChildRunsStep, ReportedStep, EndsStep
      <3>4. StdinEnd'
        BY <2>1, <3>1, StdinEndStep
      <3>5. StdinFlow'
        BY <2>1, <3>1, <3>2, StdinFlowStep
      <3>6. OutFlow' /\ Ended' /\ OutputBeforeEnd'
        BY <2>1, <3>1, OutFlowStep, EndedStep, OutputBeforeEndStep
      <3> QED
        BY <3>2, <3>3, <3>4, <3>5, <3>6 DEF Inv
    <2> QED
      BY <2>1, StutterInv
  <1> QED
    BY <1>1, <1>2, PTL DEF Spec

\* The end of the execution is reported after all of its stdout and stderr, as
\* the drain at the end of handle_execute_inner intends.
THEOREM OutputPrecedesEnd == Spec => []OutputBeforeEnd
  <1>1. Inv => OutputBeforeEnd
    BY DEF Inv
  <1> QED
    BY <1>1, Invariance, PTL

\* The program reads what the user typed, in order and without gaps, and its
\* stdin is closed behind the last of it.
THEOREM StdinArrivesInOrder == Spec => []StdinInOrder
  <1>1. ASSUME Inv PROVE StdinInOrder
    <2>0. TypeOK /\ Ends /\ StdinEnd /\ StdinFlow
      BY <1>1 DEF Inv
    <2>t. nIn \in Nat /\ childIn \in Seq(Nat) /\ Len(childIn) \in Nat /\ (consumer # "stdin" => consumerHas = <<>>)
      BY <2>0, CutTypes
    <2>1. IsPrefix(childIn, [i \in 1 .. nIn |-> i])
      <3>1. PICK n \in Nat, q \in Seq(Nat) : n = nIn /\ q = childIn
        BY <2>t
      <3>2. Len(q) <= n /\ \A i \in 1 .. Len(q) : q[i] = i
        BY <2>0, <3>1 DEF StdinFlow
      <3>3. PICK f \in Seq(Nat) : f = [i \in 1 .. n |-> i] /\ Len(f) = n
        <4>1. PICK f : f = [i \in 1 .. n |-> i]
          OBVIOUS
        <4>2. f \in Seq(Nat)
          BY <4>1
        <4>3. Len(f) = n
          BY <4>1, <4>2
        <4> QED
          BY <4>1, <4>2, <4>3
      <3>4. Len(q) \in Nat /\ \A i \in 1 .. Len(q) : f[i] = q[i]
        BY <3>2, <3>3
      <3>5. SubSeq(q, 1, Len(q)) = SubSeq(f, 1, Len(q))
        <4> HIDE <3>1
        <4> QED
          BY <3>2, <3>3, <3>4
      <3>6. IsPrefix(q, f)
        BY <3>2, <3>3, <3>5 DEF IsPrefix
      <3> QED
        BY <3>1, <3>3, <3>6
    <2>2. ASSUME childEof, Running, ~cancelled PROVE Len(childIn) = nIn
      <3>1. /\ ~stdinTx /\ stdinCh = <<>> /\ ~HasIn
            /\ \A i \in 1 .. Len(toWorker) : toWorker[i].type # "StdinPacket"
        BY <2>0, <2>2 DEF StdinEnd
      <3>2. userIn = <<>> /\ consumerHas = <<>> /\ consumer # "done"
        BY <2>0, <2>t, <2>2, <3>1 DEF Ends
      <3>3. PICK s \in 0 .. nIn : Queued(toWorker, Len(childIn), s) /\ Behind(s)
        BY <2>0, <2>2, <3>1 DEF StdinFlow
      <3>4. Len(<<>>) = 0
        OBVIOUS
      <3>5. s + 0 + 0 + 0 = nIn
        BY <3>1, <3>2, <3>3, <3>4 DEF Behind, Line
      <3>6. PICK c \in Nat : c = Len(childIn)
        BY <2>t
      <3>7. c <= s /\ \A n \in c + 1 .. s : FALSE
        BY <3>1, <3>3, <3>6 DEF Queued, IsIn
      <3>8. s \notin c + 1 .. s /\ s \in Nat
        BY <2>t, <3>7
      <3>9. c = s
        <4> HIDE <3>6
        <4> QED
          BY <3>7, <3>8
      <3> QED
        BY <2>t, <3>5, <3>6, <3>8, <3>9
    <2> QED
      BY <2>1, <2>2 DEF StdinInOrder
  <1> QED
    BY <1>1, Invariance, PTL
=============================================================================
