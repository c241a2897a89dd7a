---------------------------- MODULE ServerProofs ----------------------------
(***************************************************************************)
(* Proofs about what surrounds the containers: Requests for any finite set *)
(* of requests and any capacity of the database's channel; Cache for any   *)
(* browsers; AsmFilter, Gist and TopCrates for any listing, any code and   *)
(* any registry.                                                           *)
(*                                                                         *)
(* RowHonest says nothing of ends that are still on their way to the       *)
(* database; Inv says it of them too.  OpenRowExplained could be broken by *)
(* a StartRequest that is carried out after the end of the same request;   *)
(* Inv excludes that, since a guard only exists once the one StartRequest  *)
(* of its handler was answered.                                            *)
(*                                                                         *)
(* NotModifiedIsTrue compares two values by their times.  CacheInv adds    *)
(* that a copy or an answer is not later than the cached value, that equal *)
(* times mean equal values (Older), and that a generation only ends in a   *)
(* later second than the one of the cached value (Stamped).                *)
(*                                                                         *)
(* AsmInv says what the scan has noted of the lines read (Scanned) and     *)
(* that a used label was searched or is still to be (Searched).  GistInv   *)
(* says that the request holds the encoded names.  CratesInv says that the *)
(* manifest's features were resolved (Within, Settled) and that the walk   *)
(* misses no dependency of what it comes by (WalkRight); so what cargo     *)
(* builds in the end is no more than what was resolved, if the last pass   *)
(* kept up with all features on offer (OfferRight).                        *)
(***************************************************************************)
EXTENDS Requests, Cache, AsmFilter, Gist, TopCrates, FunctionTheorems, FiniteSetTheorems, TLAPS

\* `how` is the truth about request r.
EndHonest(r, how) ==
    /\ how = "Abandoned" => stage[r] = "gone"
    /\ how \in {"Complete", "Error"} => stage[r] = "done" /\ how = answer[r]

EndMessage(r, how) == [type |-> "EndRequest", req |-> r, how |-> how]

\* The ends that wait for room in the channel, and those in it, are the truth.
EndsHonest ==
    /\ \A r \in Req, how \in How : <<r, how>> \in enders => EndHonest(r, how)
    /\ \A i \in 1 .. Len(queue), r \in Req, how \in How :
          queue[i] = EndMessage(r, how) => EndHonest(r, how)

\* A handler that has come to its shutdown has a result.
ResultKnown == \A r \in Req : stage[r] \in {"shutdown", "done"} => answer[r] # "none"

\* A handler sends one StartRequest, which is answered once; it has a guard only
\* if the answer was an id.
StartedOnce ==
    /\ \A i \in 1 .. Len(queue) : queue[i].type = "StartRequest" =>
          /\ reply[queue[i].req] = "none" /\ stage[queue[i].req] \notin {"new", "send"}
          /\ \A k \in 1 .. Len(queue) :
                queue[k].type = "StartRequest" /\ queue[k].req = queue[i].req => k = i
    /\ \A r \in Req : stage[r] \in {"new", "send"} => reply[r] = "none"
    /\ \A r \in Req : guard[r] # "none" => reply[r] = "id"

Inv == TypeOK /\ EndsHonest /\ RowHonest /\ ResultKnown /\ StartedOnce /\ OpenRowExplained

-----------------------------------------------------------------------------
\* Two StartRequests of one handler are the same message.
LEMMA OneStart ==
    ASSUME StartedOnce, NEW i \in 1 .. Len(queue), NEW k \in 1 .. Len(queue),
           queue[i].type = "StartRequest", queue[k].type = "StartRequest",
           queue[k].req = queue[i].req
    PROVE  k = i
  BY DEF StartedOnce

\* Where the messages of the channel are after a send ...
LEMMA Appended ==
    ASSUME TypeOK, NEW m \in Message, queue' = Append(queue, m)
    PROVE  /\ queue' \in Seq(Message) /\ Len(queue') = Len(queue) + 1
           /\ queue'[Len(queue) + 1] = m
           /\ \A i \in 1 .. Len(queue) : i \in 1 .. Len(queue') /\ queue'[i] = queue[i]
           /\ \A i \in 1 .. Len(queue') :
                 \/ i \in 1 .. Len(queue) /\ queue'[i] = queue[i]
                 \/ i = Len(queue) + 1 /\ queue'[i] = m
  <1>1. queue \in Seq(Message) /\ Len(queue) \in Nat
    BY DEF TypeOK
  <1>2. queue' \in Seq(Message) /\ Len(queue') = Len(queue) + 1 /\ queue'[Len(queue) + 1] = m
    BY <1>1
  <1>3. \A i \in 1 .. Len(queue) : queue'[i] = queue[i]
    BY <1>1
  <1> QED
    BY <1>1, <1>2, <1>3

\* ... and after a receive.
LEMMA Received ==
    ASSUME TypeOK, queue # <<>>, queue' = Tail(queue)
    PROVE  /\ queue' \in Seq(Message) /\ Len(queue') = Len(queue) - 1 /\ Len(queue) \in Nat
           /\ Head(queue) = queue[1] /\ 1 \in 1 .. Len(queue) /\ queue[1] \in Message
           /\ \A i \in 1 .. Len(queue') : i + 1 \in 1 .. Len(queue) /\ queue'[i] = queue[i + 1]
           /\ \A i \in 2 .. Len(queue) : i - 1 \in 1 .. Len(queue') /\ queue'[i - 1] = queue[i]
  BY DEF TypeOK

\* Every step keeps the types.
LEMMA TypeStep ==
    ASSUME TypeOK, ResultKnown, Next
    PROVE  TypeOK'
  <1> USE RequestsAssumption DEF TypeOK, Stage, InHandler, How, Move
  <1>1. ASSUME NEW r \in Req, Receive(r) \/ UseContainer(r) \/ JobTimesOut(r) PROVE TypeOK'
    BY <1>1 DEF Receive, UseContainer, JobTimesOut
  <1>2. ASSUME NEW r \in Req, SendStart(r) PROVE TypeOK'
    BY <1>2, Appended DEF SendStart, Message
  <1>3. ASSUME NEW r \in Req, Started(r) PROVE TypeOK'
    BY <1>3 DEF Started
  <1>4. ASSUME NEW r \in Req, JobEnds(r) PROVE TypeOK'
    BY <1>4 DEF JobEnds
  <1>5. ASSUME NEW r \in Req, Shutdown(r) PROVE TypeOK'
    BY <1>5 DEF Shutdown, DropGuard, ResultKnown
  <1>6. ASSUME NEW r \in Req, Disconnect(r) PROVE TypeOK'
    BY <1>6 DEF Disconnect, DropGuard
  <1>7. ASSUME NEW r \in Req, NEW how \in How, SendEnd(r, how) PROVE TypeOK'
    BY <1>7, Appended DEF SendEnd, Message
  <1>8. CASE DbStart
    BY <1>8, Received DEF DbStart, Message
  <1>9. CASE DbEnd
    BY <1>9, Received DEF DbEnd, Message
  <1>10. CASE Stop
    BY <1>10 DEF Stop
  <1> HIDE DEF TypeOK
  <1> QED
    BY <1>1, <1>2, <1>3, <1>4, <1>5, <1>6, <1>7, <1>8, <1>9, <1>10 DEF Next, Handler

\* What is true of how a request ended stays true: a handler that is done or gone
\* changes no more.
LEMMA TruthStays ==
    ASSUME TypeOK, Next, NEW r \in Req, NEW how \in How, EndHonest(r, how)
    PROVE  EndHonest(r, how)'
  <1>1. stage[r] = "gone" \/ (stage[r] = "done" /\ how = answer[r] /\ how # "Abandoned")
    BY DEF EndHonest, How
  <1>2. stage'[r] = stage[r] /\ answer'[r] = answer[r]
    <2> USE <1>1 DEF TypeOK, Move, InHandler
    <2>1. ASSUME NEW s \in Req, Handler(s) PROVE stage'[r] = stage[r] /\ answer'[r] = answer[r]
      BY <2>1 DEF Handler, Receive, SendStart, Started, UseContainer, JobEnds, JobTimesOut,
                  Shutdown, Disconnect
    <2>2. ASSUME NEW s \in Req, NEW h \in How, SendEnd(s, h)
          PROVE  stage'[r] = stage[r] /\ answer'[r] = answer[r]
      BY <2>2 DEF SendEnd
    <2>3. CASE DbStart \/ DbEnd \/ Stop
      BY <2>3 DEF DbStart, DbEnd, Stop
    <2> QED
      BY <2>1, <2>2, <2>3 DEF Next
  <1> QED
    BY <1>1, <1>2 DEF EndHonest

\* A handler that has come to its shutdown has a result.
LEMMA ResultStep ==
    ASSUME TypeOK, ResultKnown, Next
    PROVE  ResultKnown'
  <1> USE DEF TypeOK, ResultKnown, Move, InHandler
  <1>1. ASSUME NEW s \in Req, Handler(s) PROVE ResultKnown'
    <2>1. CASE Receive(s) \/ SendStart(s) \/ Started(s) \/ UseContainer(s) \/ Disconnect(s)
      BY <1>1, <2>1 DEF Receive, SendStart, Started, UseContainer, Disconnect
    <2>2. CASE JobEnds(s) \/ JobTimesOut(s)
      BY <1>1, <2>2 DEF JobEnds, JobTimesOut
    <2>3. CASE Shutdown(s)
      BY <1>1, <2>3 DEF Shutdown
    <2> QED
      BY <1>1, <2>1, <2>2, <2>3 DEF Handler
  <1>2. ASSUME NEW s \in Req, NEW h \in How, SendEnd(s, h) PROVE ResultKnown'
    BY <1>2 DEF SendEnd
  <1>3. CASE DbStart \/ DbEnd \/ Stop
    BY <1>3 DEF DbStart, DbEnd, Stop
  <1> HIDE DEF ResultKnown
  <1> QED
    BY <1>1, <1>2, <1>3 DEF Next

\* The ends on their way to the database are told by those who know: a handler
\* with a result, or the drop of one without.
LEMMA EndersStep ==
    ASSUME TypeOK, EndsHonest, ResultKnown, Next,
           NEW r \in Req, NEW how \in How, <<r, how>> \in enders'
    PROVE  EndHonest(r, how)'
  <1>1. CASE <<r, how>> \in enders
    BY <1>1, TruthStays DEF EndsHonest
  <1>2. CASE <<r, how>> \notin enders
    <2>1. ASSUME NEW s \in Req, Handler(s) PROVE EndHonest(r, how)'
      <3>1. CASE Shutdown(s)
        <4>1. PICK a \in {answer[s], "Error"} :
                  answer' = [answer EXCEPT ![s] = a] /\ DropGuard(s, a)
          BY <3>1 DEF Shutdown
        <4>2. r = s /\ how = a
          BY <1>2, <4>1 DEF DropGuard
        <4>3. stage'[r] = "done" /\ answer'[r] = how /\ how # "Abandoned"
          BY <3>1, <4>1, <4>2 DEF Shutdown, Move, TypeOK
        <4> QED
          BY <4>3 DEF EndHonest
      <3>2. CASE Disconnect(s)
        <4>1. r = s /\ how = "Abandoned"
          BY <1>2, <3>2 DEF Disconnect, DropGuard
        <4>2. stage'[r] = "gone"
          BY <3>2, <4>1 DEF Disconnect, Move, TypeOK
        <4> QED
          BY <4>1, <4>2 DEF EndHonest
      <3>3. CASE \/ Receive(s) \/ SendStart(s) \/ Started(s) \/ UseContainer(s)
                 \/ JobEnds(s) \/ JobTimesOut(s)
        BY <1>2, <3>3 DEF Receive, SendStart, Started, UseContainer, JobEnds, JobTimesOut
      <3> QED
        BY <2>1, <3>1, <3>2, <3>3 DEF Handler
    <2>2. ASSUME NEW s \in Req, NEW h \in How, SendEnd(s, h) PROVE FALSE
      BY <1>2, <2>2 DEF SendEnd
    <2>3. ~DbStart /\ ~DbEnd /\ ~Stop
      BY <1>2 DEF DbStart, DbEnd, Stop
    <2> QED
      BY <2>1, <2>2, <2>3 DEF Next
  <1> QED
    BY <1>1, <1>2

\* What a step may do to the channel.
LEMMA QueueStep ==
    ASSUME TypeOK, Next
    PROVE  \/ UNCHANGED queue
           \/ \E r \in Req : SendStart(r)
           \/ \E r \in Req, how \in How : SendEnd(r, how)
           \/ DbStart \/ DbEnd \/ Stop
  <1>1. ASSUME NEW r \in Req, Handler(r) PROVE SendStart(r) \/ UNCHANGED queue
    BY <1>1 DEF Handler, Receive, Started, UseContainer, JobEnds, JobTimesOut, Shutdown, Disconnect
  <1> QED
    BY <1>1 DEF Next

\* So are the ends in the channel.
LEMMA MessagesStep ==
    ASSUME TypeOK, EndsHonest, Next, NEW i \in 1 .. Len(queue'),
           NEW r \in Req, NEW how \in How, queue'[i] = EndMessage(r, how)
    PROVE  EndHonest(r, how)'
  <1>1. ASSUME NEW k \in 1 .. Len(queue), queue'[i] = queue[k] PROVE EndHonest(r, how)'
    BY <1>1, TruthStays DEF EndsHonest
  <1>2. CASE UNCHANGED queue
    BY <1>1, <1>2
  <1>3. ASSUME NEW s \in Req, SendStart(s) PROVE EndHonest(r, how)'
    <2>1. [type |-> "StartRequest", req |-> s] \in Message
      BY DEF Message
    <2>2. queue'[i] # [type |-> "StartRequest", req |-> s]
      BY DEF EndMessage
    <2> QED
      BY <1>1, <1>3, <2>1, <2>2, Appended DEF SendStart
  <1>4. ASSUME NEW s \in Req, NEW h \in How, SendEnd(s, h) PROVE EndHonest(r, how)'
    <2>1. EndMessage(s, h) \in Message
      BY DEF Message, EndMessage
    <2>2. queue'[i] = EndMessage(s, h) \/ \E k \in 1 .. Len(queue) : queue'[i] = queue[k]
      BY <1>4, <2>1, Appended DEF SendEnd, EndMessage
    <2>3. CASE queue'[i] = EndMessage(s, h)
      <3>1. r = s /\ how = h
        BY <2>3 DEF EndMessage
      <3> QED
        BY <1>4, <3>1, TruthStays DEF SendEnd, EndsHonest
    <2> QED
      BY <1>1, <2>2, <2>3
  <1>5. CASE DbStart \/ DbEnd
    BY <1>1, <1>5, Received DEF DbStart, DbEnd
  <1>6. CASE Stop
    BY <1>6 DEF Stop
  <1> QED
    BY <1>2, <1>3, <1>4, <1>5, <1>6, QueueStep

\* Every end that is still to be recorded says what became of its request.
LEMMA EndsStep ==
    ASSUME TypeOK, EndsHonest, ResultKnown, Next
    PROVE  EndsHonest'
  <1>1. \A r \in Req, how \in How : <<r, how>> \in enders' => EndHonest(r, how)'
    BY EndersStep
  <1>2. \A i \in 1 .. Len(queue'), r \in Req, how \in How :
            queue'[i] = EndMessage(r, how) => EndHonest(r, how)'
    BY MessagesStep
  <1> QED
    BY <1>1, <1>2 DEF EndsHonest, EndMessage

\* What the database records of a request is what a message of it said.
LEMMA RowStep ==
    ASSUME TypeOK, EndsHonest, RowHonest, Next
    PROVE  RowHonest'
  <1> SUFFICES ASSUME NEW r \in Req, rows'[r] \in How
               PROVE  EndHonest(r, rows[r])'
    BY DEF RowHonest, EndHonest, How
  <1>1. CASE rows'[r] = rows[r]
    <2>1. PICK how \in How : rows[r] = how
      BY <1>1
    <2>2. EndHonest(r, how)
      BY <2>1 DEF RowHonest, EndHonest
    <2>3. EndHonest(r, how)'
      BY <2>2, TruthStays
    <2> QED
      BY <1>1, <2>1, <2>3 DEF EndHonest
  <1>2. CASE rows'[r] # rows[r]
    <2>1. DbStart \/ DbEnd
      <3>1. ASSUME NEW s \in Req, Handler(s) PROVE UNCHANGED rows
        BY <3>1 DEF Handler, Receive, SendStart, Started, UseContainer, JobEnds, JobTimesOut,
                    Shutdown, Disconnect
      <3> QED
        BY <1>2, <3>1 DEF Next, SendEnd, Stop
    <2>2. ~DbStart
      BY <1>2 DEF DbStart, TypeOK, How
    <2>3. DbEnd /\ Head(queue) = queue[1] /\ 1 \in 1 .. Len(queue) /\ queue[1] \in Message
      BY <2>1, <2>2, Received DEF DbEnd
    <2>4. PICK s \in Req, how \in How : queue[1] = EndMessage(s, how)
      BY <2>3 DEF DbEnd, Message, EndMessage
    <2>5. r = s /\ rows'[r] = how
      BY <1>2, <2>3, <2>4 DEF DbEnd, EndMessage, TypeOK
    <2>6. EndHonest(r, how)
      BY <2>3, <2>4, <2>5 DEF EndsHonest
    <2>7. EndHonest(r, how)'
      BY <2>6, TruthStays
    <2> QED
      BY <2>5, <2>7 DEF EndHonest
  <1> QED
    BY <1>1, <1>2

\* A step sends the StartRequest of a handler that has not sent it, and takes one
\* from the channel as it answers it.
LEMMA StartedStep ==
    ASSUME TypeOK, StartedOnce, Next
    PROVE  StartedOnce'
  <1>1. ASSUME NEW r \in Req, SendStart(r) PROVE StartedOnce'
    <2> DEFINE m == [type |-> "StartRequest", req |-> r]
    <2>1. m \in Message /\ m.type = "StartRequest" /\ m.req = r
      BY DEF Message
    <2>2. /\ stage[r] = "send" /\ stage' = [stage EXCEPT ![r] = "await"]
          /\ queue' = Append(queue, m) /\ UNCHANGED <<reply, guard>> /\ reply[r] = "none"
      BY <1>1 DEF SendStart, Move, StartedOnce
    <2>3. \A i \in 1 .. Len(queue) : queue[i].type = "StartRequest" => queue[i].req # r
      BY <2>2 DEF StartedOnce
    <2>4. /\ \A i \in 1 .. Len(queue') :
                 \/ i \in 1 .. Len(queue) /\ queue'[i] = queue[i]
                 \/ i = Len(queue) + 1 /\ queue'[i] = m
          /\ \A i \in 1 .. Len(queue) : queue[i] \in Message
      BY <2>1, <2>2, Appended DEF TypeOK
    <2>5. stage'[r] = "await" /\ \A s \in Req : s # r => stage'[s] = stage[s]
      BY <2>2 DEF TypeOK
    <2> HIDE DEF m
    <2>6. ASSUME NEW i \in 1 .. Len(queue'), queue'[i].type = "StartRequest"
          PROVE  /\ reply[queue'[i].req] = "none" /\ stage'[queue'[i].req] \notin {"new", "send"}
                 /\ \A k \in 1 .. Len(queue') :
                       queue'[k].type = "StartRequest" /\ queue'[k].req = queue'[i].req => k = i
      <3>1. CASE i \in 1 .. Len(queue) /\ queue'[i] = queue[i]
        <4>1. queue[i].req \in Req /\ queue[i].req # r
          BY <2>3, <2>4, <2>6, <3>1 DEF Message
        <4> QED
          BY <2>1, <2>4, <2>5, <2>6, <3>1, <4>1 DEF StartedOnce
      <3>2. CASE i = Len(queue) + 1 /\ queue'[i] = m
        BY <2>1, <2>2, <2>3, <2>4, <2>5, <3>2
      <3> QED
        BY <2>4, <3>1, <3>2
    <2>7. \A s \in Req : /\ stage'[s] \in {"new", "send"} => reply'[s] = "none"
                         /\ guard'[s] # "none" => reply'[s] = "id"
      BY <2>2, <2>5 DEF StartedOnce
    <2> QED
      BY <2>2, <2>6, <2>7 DEF StartedOnce
  <1>2. ASSUME NEW r \in Req, NEW how \in How, SendEnd(r, how) PROVE StartedOnce'
    <2>1. /\ EndMessage(r, how) \in Message /\ EndMessage(r, how).type = "EndRequest"
          /\ queue' = Append(queue, EndMessage(r, how)) /\ UNCHANGED <<stage, reply, guard>>
      BY <1>2 DEF SendEnd, EndMessage, Message
    <2>2. \A i \in 1 .. Len(queue') :
                 \/ i \in 1 .. Len(queue) /\ queue'[i] = queue[i]
                 \/ i = Len(queue) + 1 /\ queue'[i] = EndMessage(r, how)
      BY <2>1, Appended
    <2>3. \A i \in 1 .. Len(queue') : queue'[i].type = "StartRequest" =>
              i \in 1 .. Len(queue) /\ queue'[i] = queue[i]
      BY <2>1, <2>2
    <2> QED
      BY <2>1, <2>3 DEF StartedOnce
  <1>3. CASE DbStart
    <2>1. /\ Head(queue) = queue[1] /\ 1 \in 1 .. Len(queue) /\ queue[1] \in Message
          /\ queue[1].type = "StartRequest" /\ Len(queue) \in Nat
          /\ \A i \in 1 .. Len(queue') : i + 1 \in 1 .. Len(queue) /\ queue'[i] = queue[i + 1]
      BY <1>3, Received DEF DbStart
    <2>2. PICK r \in Req : r = queue[1].req
      BY <2>1 DEF Message
    <2>3. /\ reply[r] = "none" /\ stage[r] \notin {"new", "send"} /\ guard[r] = "none"
          /\ UNCHANGED <<stage, guard>>
      BY <1>3, <2>1, <2>2 DEF StartedOnce, DbStart
    <2>4. \A s \in Req : s # r => reply'[s] = reply[s]
      BY <1>3, <2>1, <2>2 DEF DbStart, TypeOK
    <2>5. \A i \in 1 .. Len(queue') : queue'[i].type = "StartRequest" =>
              queue'[i].req \in Req /\ queue'[i].req # r
      BY <2>1, <2>2 DEF StartedOnce, TypeOK, Message
    <2>6. ASSUME NEW i \in 1 .. Len(queue'), queue'[i].type = "StartRequest"
          PROVE  /\ reply'[queue'[i].req] = "none" /\ stage'[queue'[i].req] \notin {"new", "send"}
                 /\ \A k \in 1 .. Len(queue') :
                       queue'[k].type = "StartRequest" /\ queue'[k].req = queue'[i].req => k = i
      <3>1. reply'[queue'[i].req] = "none" /\ stage'[queue'[i].req] \notin {"new", "send"}
        BY <2>1, <2>3, <2>4, <2>5, <2>6 DEF StartedOnce
      <3>2. ASSUME NEW k \in 1 .. Len(queue'), queue'[k].type = "StartRequest",
                   queue'[k].req = queue'[i].req
            PROVE  k = i
        <4>1. PICK a, b \in 1 .. Len(queue) : a = i + 1 /\ b = k + 1
          BY <2>1
        <4>2. queue'[i] = queue[a] /\ queue'[k] = queue[b]
          BY <2>1, <4>1
        <4>3. a = b
          BY <2>6, <3>2, <4>2, OneStart
        <4> QED
          BY <4>1, <4>3
      <3> QED
        BY <3>1, <3>2
    <2>7. \A s \in Req : /\ stage'[s] \in {"new", "send"} => reply'[s] = "none"
                         /\ guard'[s] # "none" => reply'[s] = "id"
      BY <2>3, <2>4 DEF StartedOnce
    <2> QED
      BY <2>6, <2>7 DEF StartedOnce
  <1>4. CASE DbEnd
    <2>1. /\ Len(queue) \in Nat
          /\ \A i \in 1 .. Len(queue') : i + 1 \in 1 .. Len(queue) /\ queue'[i] = queue[i + 1]
      BY <1>4, Received DEF DbEnd
    <2>2. UNCHANGED <<stage, guard, reply>>
      BY <1>4 DEF DbEnd
    <2>3. ASSUME NEW i \in 1 .. Len(queue'), queue'[i].type = "StartRequest",
                 NEW k \in 1 .. Len(queue'), queue'[k].type = "StartRequest",
                 queue'[k].req = queue'[i].req
          PROVE  k = i
      <3>1. PICK a, b \in 1 .. Len(queue) : a = i + 1 /\ b = k + 1
        BY <2>1
      <3>2. queue'[i] = queue[a] /\ queue'[k] = queue[b]
        BY <2>1, <3>1
      <3>3. a = b
        BY <2>3, <3>2, OneStart
      <3> QED
        BY <3>1, <3>3
    <2> QED
      BY <2>1, <2>2, <2>3 DEF StartedOnce
  <1>5. CASE Stop
    <2>1. Len(queue') = 0 /\ UNCHANGED <<guard, reply>>
      BY <1>5 DEF Stop
    <2>2. \A r \in Req : stage'[r] \in {"new", "send"} => stage[r] \in {"new", "send"}
      BY <1>5 DEF Stop, InHandler
    <2> QED
      BY <2>1, <2>2 DEF StartedOnce
  <1>6. ASSUME NEW r \in Req, Handler(r), ~SendStart(r) PROVE StartedOnce'
    <2>1. UNCHANGED <<queue, reply>>
      BY <1>6 DEF Handler, Receive, Started, UseContainer, JobEnds, JobTimesOut, Shutdown, Disconnect
    <2>2. \A s \in Req : stage'[s] \in {"new", "send"} => stage[s] \in {"new", "send"}
      BY <1>6 DEF Handler, Receive, Started, UseContainer, JobEnds, JobTimesOut, Shutdown,
                  Disconnect, Move, TypeOK
    <2>3. \A s \in Req : guard'[s] # "none" => guard[s] # "none" \/ reply[s] = "id"
      BY <1>6 DEF Handler, Receive, Started, UseContainer, JobEnds, JobTimesOut, Shutdown,
                  Disconnect, DropGuard, TypeOK
    <2>4. \A i \in 1 .. Len(queue) : queue[i].type = "StartRequest" => queue[i].req \in Req
      BY DEF TypeOK, Message
    <2> QED
      BY <2>1, <2>2, <2>3, <2>4 DEF StartedOnce
  <1> QED
    BY <1>1, <1>2, <1>3, <1>4, <1>5, <1>6 DEF Next

\* An end that is under way stays so until the database has carried it out or
\* failed to, or the server is gone.
LEMMA EndStaysUnderWay ==
    ASSUME TypeOK, Next, NEW r \in Req, EndUnderWay(r)
    PROVE  EndUnderWay(r)' \/ rows'[r] \in How \/ r \in unended' \/ server' = "down"
  <1>1. ASSUME NEW how \in How, <<r, how>> \in enders
        PROVE  EndUnderWay(r)' \/ server' = "down"
    <2>1. CASE <<r, how>> \in enders'
      BY <2>1 DEF EndUnderWay
    <2>2. CASE SendEnd(r, how)
      <3>1. EndMessage(r, how) \in Message /\ queue' = Append(queue, EndMessage(r, how))
        BY <2>2 DEF SendEnd, EndMessage, Message
      <3>2. Len(queue) + 1 \in 1 .. Len(queue') /\ queue'[Len(queue) + 1] = EndMessage(r, how)
        BY <3>1, Appended DEF TypeOK
      <3> QED
        BY <3>2 DEF EndUnderWay, EndMessage
    <2>3. <<r, how>> \in enders' \/ SendEnd(r, how) \/ server' = "down"
      <3>1. ASSUME NEW s \in Req, Handler(s) PROVE <<r, how>> \in enders'
        BY <1>1, <3>1 DEF Handler, Receive, SendStart, Started, UseContainer, JobEnds,
                          JobTimesOut, Shutdown, Disconnect, DropGuard
      <3>2. ASSUME NEW s \in Req, NEW h \in How, SendEnd(s, h)
            PROVE  <<r, how>> \in enders' \/ SendEnd(r, how)
        <4>1. CASE s = r /\ h = how
          BY <3>2, <4>1
        <4>2. CASE ~(s = r /\ h = how)
          BY <1>1, <3>2, <4>2 DEF SendEnd
        <4> QED
          BY <4>1, <4>2
      <3> QED
        BY <1>1, <3>1, <3>2 DEF Next, DbStart, DbEnd, Stop
    <2> QED
      BY <2>1, <2>2, <2>3
  <1>2. ASSUME NEW i \in 1 .. Len(queue), queue[i].type = "EndRequest", queue[i].req = r
        PROVE  EndUnderWay(r)' \/ rows'[r] \in How \/ r \in unended' \/ server' = "down"
    <2>1. ASSUME NEW k \in 1 .. Len(queue'), queue'[k] = queue[i] PROVE EndUnderWay(r)'
      BY <1>2, <2>1 DEF EndUnderWay
    <2>2. CASE UNCHANGED queue
      BY <2>1, <2>2
    <2>3. ASSUME NEW s \in Req, SendStart(s) PROVE EndUnderWay(r)'
      <3>1. [type |-> "StartRequest", req |-> s] \in Message
        BY DEF Message
      <3> QED
        BY <2>1, <2>3, <3>1, Appended DEF SendStart
    <2>4. ASSUME NEW s \in Req, NEW h \in How, SendEnd(s, h) PROVE EndUnderWay(r)'
      <3>1. [type |-> "EndRequest", req |-> s, how |-> h] \in Message
        BY DEF Message
      <3> QED
        BY <2>1, <2>4, <3>1, Appended DEF SendEnd
    <2>5. CASE (DbStart \/ DbEnd) /\ i # 1
      <3>1. i \in 2 .. Len(queue)
        BY <2>5 DEF TypeOK
      <3> QED
        BY <2>1, <2>5, <3>1, Received DEF DbStart, DbEnd
    <2>6. CASE DbStart /\ i = 1
      BY <1>2, <2>6, Received DEF DbStart
    <2>7. CASE DbEnd /\ i = 1
      <3>1. Head(queue) = queue[1] /\ queue[1] \in Message
        BY <2>7, Received DEF DbEnd
      <3>2. queue[1].req = r /\ queue[1].how \in How
        BY <1>2, <2>7, <3>1 DEF Message
      <3> QED
        BY <2>7, <3>1, <3>2 DEF DbEnd, TypeOK
    <2>8. CASE Stop
      BY <2>8 DEF Stop
    <2> QED
      BY <2>2, <2>3, <2>4, <2>5, <2>6, <2>7, <2>8, QueueStep
  <1> QED
    BY <1>1, <1>2 DEF EndUnderWay

\* Once the guard is dropped, the end of the row is done or under way.
LEMMA OpenStep ==
    ASSUME TypeOK, StartedOnce, ResultKnown, OpenRowExplained, Next
    PROVE  OpenRowExplained'
  <1> SUFFICES ASSUME NEW r \in Req, guard'[r] = "dropped", rows'[r] = "open"
               PROVE  EndUnderWay(r)' \/ r \in unended' \/ server' = "down"
    BY DEF OpenRowExplained, EndUnderWay
  <1>1. CASE guard[r] # "dropped"
    <2>1. PICK s \in Req : Shutdown(s) \/ Disconnect(s)
      <3>1. ASSUME NEW s \in Req, Handler(s) PROVE Shutdown(s) \/ Disconnect(s)
        BY <1>1, <3>1 DEF Handler, Receive, SendStart, Started, UseContainer, JobEnds,
                          JobTimesOut, TypeOK
      <3> QED
        BY <1>1, <3>1 DEF Next, SendEnd, DbStart, DbEnd, Stop
    <2>2. PICK how \in How : DropGuard(s, how)
      <3>1. CASE Shutdown(s)
        <4>1. PICK a \in {answer[s], "Error"} : DropGuard(s, a)
          BY <3>1 DEF Shutdown
        <4>2. answer[s] \in {"Complete", "Error"}
          BY <3>1 DEF Shutdown, Move, ResultKnown, TypeOK
        <4> QED
          BY <4>1, <4>2 DEF How
      <3>2. CASE Disconnect(s)
        BY <3>2 DEF Disconnect, How
      <3> QED
        BY <2>1, <3>1, <3>2
    <2>3. <<r, how>> \in enders'
      BY <1>1, <2>2 DEF DropGuard, TypeOK
    <2> QED
      BY <2>3 DEF EndUnderWay
  <1>2. CASE guard[r] = "dropped" /\ rows[r] = "open"
    <2>1. server = "down" => FALSE
      <3>1. ASSUME NEW s \in Req, Handler(s) PROVE server = "up"
        BY <3>1 DEF Handler, Receive, SendStart, Started, UseContainer, JobEnds,
                    JobTimesOut, Shutdown, Disconnect, Move
      <3> QED
        BY <3>1 DEF Next, SendEnd, DbStart, DbEnd, Stop
    <2>2. r \in unended => r \in unended'
      <3>1. ASSUME NEW s \in Req, Handler(s) PROVE UNCHANGED unended
        BY <3>1 DEF Handler, Receive, SendStart, Started, UseContainer, JobEnds,
                    JobTimesOut, Shutdown, Disconnect
      <3> QED
        BY <3>1 DEF Next, SendEnd, DbStart, DbEnd, Stop
    <2>3. EndUnderWay(r) \/ r \in unended \/ server = "down"
      BY <1>2 DEF OpenRowExplained
    <2>4. rows'[r] \notin How
      BY DEF How
    <2> QED
      BY <2>1, <2>2, <2>3, <2>4, EndStaysUnderWay
  <1>3. CASE guard[r] = "dropped" /\ rows[r] # "open"
    <2>1. DbStart
      <3>1. ASSUME NEW s \in Req, Handler(s) PROVE UNCHANGED rows
        BY <3>1 DEF Handler, Receive, SendStart, Started, UseContainer, JobEnds, JobTimesOut,
                    Shutdown, Disconnect
      <3>2. ~DbEnd
        <4>1. SUFFICES ASSUME DbEnd PROVE FALSE
          OBVIOUS
        <4>2. Head(queue) = queue[1] /\ queue[1] \in Message /\ queue[1].type = "EndRequest"
          BY <4>1, Received DEF DbEnd
        <4>3. Head(queue).how # "open"
          BY <4>2 DEF Message, How
        <4> QED
          BY <1>3, <4>1, <4>3 DEF DbEnd, TypeOK
      <3> QED
        BY <1>3, <3>1, <3>2 DEF Next, SendEnd, Stop
    <2>2. Head(queue) = queue[1] /\ 1 \in 1 .. Len(queue) /\ queue[1].type = "StartRequest"
      BY <2>1, Received DEF DbStart
    <2>3. queue[1].req = r
      BY <1>3, <2>1, <2>2 DEF DbStart, TypeOK
    <2>4. reply[r] = "none" /\ reply[r] = "id"
      BY <1>3, <2>2, <2>3 DEF StartedOnce
    <2> QED
      BY <2>4
  <1> QED
    BY <1>1, <1>2, <1>3

-----------------------------------------------------------------------------
\* No request was made yet.
LEMMA InitInv == Init => Inv
  BY RequestsAssumption
     DEF Init, Inv, TypeOK, EndsHonest, RowHonest, ResultKnown, StartedOnce, OpenRowExplained,
         EndUnderWay, Stage, How, Message

\* Every reachable state satisfies Inv.
THEOREM Invariance == Spec => []Inv
  <1>1. Inv /\ [Next]_vars => Inv'
    <2> SUFFICES ASSUME Inv, [Next]_vars PROVE Inv'
      OBVIOUS
    <2>1. CASE Next
      BY <2>1, TypeStep, EndsStep, RowStep, ResultStep, StartedStep, OpenStep DEF Inv
    <2>2. CASE UNCHANGED vars
      <3> USE <2>2 DEF vars, Inv
      <3>1. TypeOK' /\ ResultKnown' /\ StartedOnce'
        BY DEF TypeOK, ResultKnown, StartedOnce
      <3>2. EndsHonest' /\ RowHonest'
        BY DEF EndsHonest, EndHonest, EndMessage, RowHonest
      <3>3. OpenRowExplained'
        BY DEF OpenRowExplained, EndUnderWay
      <3> QED
        BY <3>1, <3>2, <3>3
    <2> QED
      BY <2>1, <2>2
  <1> QED
    BY InitInv, <1>1, PTL DEF Spec

\* What the database says of a request is what its client saw, however the
\* handler, its guard, the tasks that send and the database thread interleave.
THEOREM RowsAreHonest == Spec => []RowHonest
  BY Invariance, PTL DEF Inv

\* A row is left open only by a handler dropped before it had an id, by SQLite,
\* or by the end of the server.
THEOREM OpenRowsExplained == Spec => []OpenRowExplained
  BY Invariance, PTL DEF Inv

-----------------------------------------------------------------------------
(* The cache *)

Single(S) == \A x, y \in S : x = y

\* x is what the cache held when it held y, or before: tags grow, and the tag
\* tells the value.
NotAfter(x, y) == x[2] <= y[2] /\ (x[2] = y[2] => x[1] = y[1])

CacheShape ==
    /\ state \in [Browser -> {"idle", "sending", "asked", "answered"}]
    /\ sent = [b \in Browser |-> sent[b]]
    /\ cacheAnswer = [b \in Browser |-> cacheAnswer[b]] /\ copy = [b \in Browser |-> copy[b]]
    /\ Single(cached) /\ Single(got)
    /\ \A b \in Browser : Single(cacheAnswer[b]) /\ Single(copy[b])
    /\ \A b \in Browser : sent[b] \subseteq {x[2] : x \in copy[b]}

\* A value was made at the current second at the latest; by the time its
\* replacement is made that second is over.
Stamped ==
    /\ now \in Nat
    /\ \A x \in cached : x[2] \in Nat /\ x[2] <= now
    /\ (timer = "due" \/ gen # "off") => \A x \in cached : x[2] < now
    /\ gen = "ready" => \A x \in got : x[2] = now
    /\ gen = "off" => got = {}

\* What browsers keep, or are being sent, is not younger than what is cached.
Older ==
    \A b \in Browser :
      /\ cached = {} => copy[b] = {} /\ cacheAnswer[b] = {}
      /\ \A x \in copy[b] \cup cacheAnswer[b], y \in cached : x[2] \in Nat /\ NotAfter(x, y)
      /\ \A x \in copy[b], y \in cacheAnswer[b] : NotAfter(x, y)

CacheInv == TimerOrGeneration /\ (gen = "off" \/ up) /\ CacheShape /\ Stamped /\ Older

cacheTask == <<now, cached, timer, gen, got, panicked, up>>
browsers == <<state, sent, cacheAnswer, copy>>

\* The timer and the generation take turns.
LEMMA TurnsStep ==
    ASSUME TimerOrGeneration, gen = "off" \/ up, [CacheNext]_cacheVars
    PROVE  TimerOrGeneration' /\ (gen' = "off" \/ up')
  <1> USE DEF TimerOrGeneration
  <1>1. CASE UNCHANGED <<timer, gen, panicked, up>>
    BY <1>1
  <1>2. CASE TimePasses
    BY <1>2 DEF TimePasses
  <1>3. CASE Expired \/ New
    BY <1>3 DEF Expired, New
  <1>4. CASE Generate \/ GenerateOk \/ GenerateFails \/ CacheShutdown
    BY <1>4 DEF Generate, GenerateOk, GenerateFails, CacheShutdown
  <1> QED
    BY <1>1, <1>2, <1>3, <1>4 DEF CacheNext, cacheVars, taskVars, OriginChanges, Serve,
       Ask, Send, Respond, Leave

\* What is stored keeps the cached value's tag or has a later one.
LEMMA Combined ==
    ASSUME Single(cached), Stamped, gen = "ready",
           cached' = Combine(got, cached) \/ cached' = cached
    PROVE  /\ \/ cached' = cached
              \/ cached' = got /\ got # {} /\ \A x \in got, y \in cached : y[2] < x[2]
           /\ \A x \in cached' : x[2] \in Nat /\ x[2] <= now
           /\ cached # {} => cached' # {}
  BY DEF Combine, Stamped

\* The times at which values were made stay behind the clock.
LEMMA StampedStep ==
    ASSUME CacheInv, [CacheNext]_cacheVars
    PROVE  Stamped'
  <1>0. Stamped /\ TimerOrGeneration /\ Single(cached)
    BY DEF CacheInv, CacheShape
  <1>1. CASE UNCHANGED cacheTask
    BY <1>0, <1>1 DEF Stamped, cacheTask
  <1>2. CASE TimePasses
    <2>1. UNCHANGED <<cached, gen, got>> /\ timer' = "due" /\ gen = "off"
      BY <1>0, <1>2 DEF TimePasses, TimerOrGeneration, CacheInv
    <2>2. now' \in Nat /\ \A x \in cached : x[2] < now'
      BY <1>0, <1>2 DEF TimePasses, Stamped, Single
    <2> QED
      BY <1>0, <2>1, <2>2 DEF Stamped
  <1>3. CASE Expired
    BY <1>0, <1>3 DEF Expired, Stamped, TimerOrGeneration
  <1>4. CASE New
    <2>1. UNCHANGED now /\ gen' = "off" /\ got' = {} /\ gen = "ready" /\ up /\ timer' # "due"
      BY <1>0, <1>4 DEF New, TimerOrGeneration
    <2>2. cached' = Combine(got, cached) \/ cached' = cached
      BY <1>4 DEF New
    <2>3. \A x \in cached' : x[2] \in Nat /\ x[2] <= now
      BY <1>0, <2>1, <2>2, Combined
    <2> QED
      BY <1>0, <2>1, <2>3 DEF Stamped
  <1>5. CASE Generate \/ GenerateOk \/ GenerateFails
    BY <1>0, <1>5 DEF Generate, GenerateOk, GenerateFails, Stamped
  <1>6. CASE CacheShutdown
    BY <1>0, <1>6 DEF CacheShutdown, Stamped
  <1> QED
    BY <1>1, <1>2, <1>3, <1>4, <1>5, <1>6 DEF CacheNext, cacheVars, taskVars, cacheTask,
       OriginChanges, Serve, Ask, Send, Respond, Leave

\* What browsers hold is left alone by the steps of cache_task, but for Serve.
LEMMA TaskStep ==
    ASSUME \/ OriginChanges \/ TimePasses \/ Expired \/ Generate \/ GenerateOk
           \/ GenerateFails \/ CacheShutdown \/ New
    PROVE  UNCHANGED browsers /\ (cached' = cached \/ New)
  BY DEF OriginChanges, TimePasses, Expired, Generate, GenerateOk, GenerateFails,
         CacheShutdown, New, taskVars, browserVars, browsers

\* The cache and the browsers keep one value each, and a browser sends the tag of
\* the one it keeps.
LEMMA ShapeStep ==
    ASSUME CacheInv, [CacheNext]_cacheVars
    PROVE  CacheShape'
  <1>0. CacheShape /\ Stamped
    BY DEF CacheInv
  <1> USE DEF CacheShape
  <1>1. CASE UNCHANGED <<cached, got, state, sent, cacheAnswer, copy>>
    BY <1>0, <1>1
  <1>2. CASE \/ OriginChanges \/ TimePasses \/ Expired \/ Generate \/ GenerateOk
             \/ GenerateFails \/ CacheShutdown \/ New
    <2>1. UNCHANGED browsers
      BY <1>2, TaskStep
    <2>2. Single(got')
      BY <1>0, <1>2 DEF Single, OriginChanges, TimePasses, Expired, Generate,
         GenerateOk, GenerateFails, CacheShutdown, New, taskVars
    <2>3. Single(cached')
      <3>1. CASE cached' = cached
        BY <1>0, <3>1
      <3>2. CASE New
        BY <1>0, <3>2, Combined DEF New
      <3> QED
        BY <1>2, <3>1, <3>2, TaskStep
    <2>4. UNCHANGED <<state, sent, cacheAnswer, copy>>
      BY <2>1 DEF browsers
    <2> QED
      BY <1>0, <2>2, <2>3, <2>4
  <1>3. CASE Serve
    <2>1. UNCHANGED <<cached, got, sent, copy>>
      BY <1>3 DEF Serve, taskVars
    <2>2. /\ cacheAnswer' = [b \in Browser |-> cacheAnswer'[b]]
          /\ \A b \in Browser : cacheAnswer'[b] \in {cacheAnswer[b], cached}
      BY <1>0, <1>3 DEF Serve
    <2>3. state' \in [Browser -> {"idle", "sending", "asked", "answered"}]
      BY <1>0, <1>3 DEF Serve
    <2> QED
      BY <1>0, <2>1, <2>2, <2>3
  <1>4. ASSUME NEW b \in Browser, Ask(b) \/ Send(b) PROVE CacheShape'
    <2>1. UNCHANGED <<cached, got, cacheAnswer, copy>>
      BY <1>4 DEF Ask, Send, taskVars
    <2>2. /\ sent' = [a \in Browser |-> sent'[a]]
          /\ \A a \in Browser : sent'[a] \in {sent[a], {x[2] : x \in copy[a]}}
      BY <1>0, <1>4 DEF Ask, Send
    <2>3. state' \in [Browser -> {"idle", "sending", "asked", "answered"}]
      BY <1>0, <1>4 DEF Ask, Send
    <2> QED
      BY <1>0, <2>1, <2>2, <2>3
  <1>5. ASSUME NEW b \in Browser, Respond(b) \/ Leave(b) PROVE CacheShape'
    <2>1. UNCHANGED <<cached, got>>
      BY <1>5 DEF Respond, Leave, taskVars
    <2>2. sent' = [sent EXCEPT ![b] = {}] /\ cacheAnswer' = [cacheAnswer EXCEPT ![b] = {}]
          /\ state' = [state EXCEPT ![b] = "idle"]
      BY <1>5 DEF Respond, Leave
    <2>3. /\ copy' = [a \in Browser |-> copy'[a]]
          /\ copy'[b] \in {copy[b], cacheAnswer[b], {}}
          /\ \A a \in Browser \ {b} : copy'[a] = copy[a]
      BY <1>0, <1>5 DEF Respond, Leave
    <2>4. \A a \in Browser : Single(copy'[a]) /\ Single(cacheAnswer'[a])
      BY <1>0, <2>2, <2>3 DEF Single
    <2>5. \A a \in Browser : sent'[a] \subseteq {x[2] : x \in copy'[a]}
      BY <1>0, <2>2, <2>3
    <2> QED
      BY <1>0, <2>1, <2>2, <2>3, <2>4, <2>5
  <1> QED
    BY <1>1, <1>2, <1>3, <1>4, <1>5 DEF CacheNext, cacheVars, taskVars, browserVars

\* Nothing a browser has is younger than what is cached.
LEMMA OlderStep ==
    ASSUME CacheInv, [CacheNext]_cacheVars
    PROVE  Older'
  <1>0. CacheShape /\ Stamped /\ Older
    BY DEF CacheInv
  <1>1. CASE UNCHANGED <<cached, cacheAnswer, copy>>
    BY <1>0, <1>1 DEF Older
  <1>2. CASE \/ OriginChanges \/ TimePasses \/ Expired \/ Generate \/ GenerateOk
             \/ GenerateFails \/ CacheShutdown \/ New
    <2>1. UNCHANGED <<cacheAnswer, copy>>
      BY <1>2, TaskStep DEF browsers
    <2>2. CASE New
      <3>1. /\ \/ cached' = cached
               \/ cached' = got /\ got # {} /\ \A x \in got, y \in cached : y[2] < x[2]
            /\ \A x \in cached' : x[2] \in Nat /\ x[2] <= now
            /\ cached # {} => cached' # {}
        BY <1>0, <2>2, Combined DEF New, CacheShape
      <3>2. CASE cached' = got /\ \A x \in got, y \in cached : y[2] < x[2]
        <4>1. ASSUME NEW b \in Browser, NEW x \in copy[b] \cup cacheAnswer[b], NEW y \in cached'
              PROVE  x[2] \in Nat /\ x[2] < y[2]
          <5>1. PICK z \in cached : x[2] \in Nat /\ NotAfter(x, z)
            BY <1>0, <4>1 DEF Older
          <5>2. z[2] < y[2] /\ z[2] \in Nat /\ y[2] \in Nat
            BY <1>0, <3>1, <3>2 DEF Stamped
          <5> QED
            BY <5>1, <5>2 DEF NotAfter
        <4>2. \A b \in Browser : \A x \in copy[b] \cup cacheAnswer[b], y \in cached' :
                x[2] \in Nat /\ NotAfter(x, y)
          BY <3>1, <4>1 DEF NotAfter
        <4> QED
          BY <1>0, <2>1, <3>1, <4>2 DEF Older
      <3> QED
        BY <1>0, <1>1, <2>1, <3>1, <3>2
    <2> QED
      BY <1>1, <1>2, <2>1, <2>2, TaskStep
  <1>3. CASE Serve
    <2>1. UNCHANGED <<cached, copy>>
      BY <1>3 DEF Serve, taskVars
    <2>2. \A b \in Browser : cacheAnswer'[b] \in {cacheAnswer[b], cached}
      BY <1>0, <1>3 DEF Serve, CacheShape
    <2>3. \A x, y \in cached : x[2] \in Nat /\ NotAfter(x, y)
      BY <1>0 DEF CacheShape, Single, Stamped, NotAfter
    <2> QED
      BY <1>0, <2>1, <2>2, <2>3 DEF Older
  <1>4. ASSUME NEW b \in Browser, Respond(b) \/ Leave(b) PROVE Older'
    <2>1. UNCHANGED cached
      BY <1>4 DEF Respond, Leave, taskVars
    <2>2. /\ cacheAnswer'[b] = {} /\ copy'[b] \in {copy[b], cacheAnswer[b], {}}
          /\ \A a \in Browser \ {b} : copy'[a] = copy[a] /\ cacheAnswer'[a] = cacheAnswer[a]
      BY <1>0, <1>4 DEF Respond, Leave, CacheShape
    <2> QED
      BY <1>0, <2>1, <2>2 DEF Older
  <1>5. ASSUME NEW b \in Browser, Ask(b) \/ Send(b) PROVE Older'
    BY <1>1, <1>5 DEF Ask, Send, taskVars
  <1> QED
    BY <1>1, <1>2, <1>3, <1>4, <1>5 DEF CacheNext, cacheVars, taskVars, browserVars

\* The inductive invariant of the cache.
THEOREM CacheInvariance == CacheSpec => []CacheInv
  <1>1. CacheInit => CacheInv
    BY DEF CacheInit, CacheInv, TimerOrGeneration, CacheShape, Single, Stamped, Older
  <1>2. CacheInv /\ [CacheNext]_cacheVars => CacheInv'
    BY TurnsStep, StampedStep, ShapeStep, OlderStep DEF CacheInv
  <1> QED
    BY <1>1, <1>2, PTL DEF CacheSpec

\* Either the timer is armed or a generation is under way: neither assertion of
\* cache_task can fail, in whatever order timers, generations, requests and the
\* shutdown come.
THEOREM TimerAndGenerationAlternate == CacheSpec => []TimerOrGeneration
  <1>1. CacheInv => TimerOrGeneration
    BY DEF CacheInv
  <1> QED
    BY <1>1, CacheInvariance, PTL

\* A browser told "304 Not Modified" has the value the cache held, for any
\* number of browsers, any queue and any number of changes, also if a value
\* comes back later (apply_timestamped_caching, try_combine_with_previous).
THEOREM NotModifiedMeansSame == CacheSpec => []NotModifiedIsTrue
  <1>1. CacheInv => NotModifiedIsTrue
    <2> SUFFICES ASSUME CacheInv, NEW b \in Browser, NotModified(b),
                        NEW x \in cacheAnswer[b], NEW y \in copy[b]
                 PROVE  x[1] = y[1]
      BY DEF NotModifiedIsTrue
    <2>1. x[2] \in sent[b]
      BY DEF NotModified, CacheInv, CacheShape, Single
    <2>2. x[2] = y[2]
      BY <2>1 DEF CacheInv, CacheShape, Single
    <2> QED
      BY <2>2 DEF CacheInv, Older, NotAfter
  <1> QED
    BY <1>1, CacheInvariance, PTL

\* What is cached is only ever replaced by another value with a later creation
\* time, and never lost, whatever generations fail (try_combine_with_previous).
CacheMovesOn ==
    cached # {} => /\ cached' # {}
                   /\ \A x \in cached, y \in cached' : x = y \/ (x[1] # y[1] /\ x[2] < y[2])

\* Every step of the cache, its generations and its users is like that.
THEOREM CacheNeverForgets == CacheSpec => [][CacheMovesOn]_cached
  <1>1. CacheInv /\ [CacheNext]_cacheVars => [CacheMovesOn]_cached
    <2> SUFFICES ASSUME CacheInv, [CacheNext]_cacheVars, cached' # cached PROVE CacheMovesOn
      OBVIOUS
    <2>1. New
      BY TaskStep DEF CacheNext, cacheVars, taskVars, Serve, Ask, Send, Respond, Leave
    <2>2. cached' = got /\ got # {} /\ ~\E n \in got, o \in cached : n[1] = o[1]
      BY <2>1 DEF New, Combine
    <2>3. \A x \in got, y \in cached : y[2] < x[2]
      BY <2>1, <2>2, Combined DEF New, CacheInv, CacheShape
    <2> QED
      BY <2>2, <2>3 DEF CacheMovesOn
  <1> QED
    BY <1>1, CacheInvariance, PTL DEF CacheSpec

-----------------------------------------------------------------------------
(* The assembly listings *)

\* What a note of the scan says of its line.
Notes(note, line) ==
    /\ note[1] = "Opcode" => line.kind = "Opcode"
    /\ line.kind = "Opcode" => note[1] = "Opcode" /\ Captured(line) \subseteq operands
    /\ line.kind = "LabelDecl" => note = <<"LabelDecl", line.name>> /\ line.name \in labels
    /\ note[1] = "Data" => \A ref \in Captured(line) : <<note[2], ref>> \in graph

\* Who names operand o, and where edge e of the label graph comes from.
Names(note, line, o) ==
    \/ note[1] = "Opcode" /\ o \in Captured(line)
    \/ line.kind = "FunctionDecl" /\ line.name = o
Draws(note, line, e) == note = <<"Data", e[1]>> /\ e[2] \in Captured(line)

\* Notes, operands and graph are those of the lines read, and of no others.
Scanned ==
    /\ block \in Seq(Line) /\ info = [n \in 1 .. Len(block) |-> info[n]]
    /\ \A n \in 1 .. Len(block) : Notes(info[n], block[n])
    /\ \A o \in operands : \E n \in 1 .. Len(block) : Names(info[n], block[n], o)
    /\ \A e \in graph : \E n \in 1 .. Len(block) : Draws(info[n], block[n], e)

\* A label is used because an operand names it or a used label leads to it, and
\* the labels it leads to are used unless the search has still to visit it.
Searched ==
    /\ labels \cap operands \subseteq used /\ todo \subseteq used
    /\ \A e \in graph : e[1] \in used \ todo => e[2] \in used
    /\ \A u \in used : u \in operands \/ \E e \in graph : e[1] \in used /\ e[2] = u

AsmInv == /\ Scanned /\ asmPhase \in {"scan", "search", "done"}
          /\ asmPhase # "scan" => Searched
          /\ asmPhase = "done" => todo = {}

\* A function on 1 .. n that is appended to.
LEMMA Extended ==
    ASSUME NEW n \in Nat, NEW f, f = [i \in 1 .. n |-> f[i]], NEW v
    PROVE  Append(f, v) = [i \in 1 .. n + 1 |-> IF i = n + 1 THEN v ELSE f[i]]
  <1>1. PICK S : S = {f[i] : i \in 1 .. n} \cup {v}
    OBVIOUS
  <1>2. f \in [1 .. n -> S]
    BY <1>1
  <1>3. f \in Seq(S) /\ Len(f) = n
    BY <1>2
  <1>4. v \in S
    BY <1>1
  <1> QED
    BY <1>3, <1>4

\* One line adds its note, and what it names, and nothing else.
LEMMA Noted ==
    ASSUME NEW line, Becomes(Scan(State, line))
    PROVE  /\ labels \subseteq labels' /\ operands \subseteq operands' /\ graph \subseteq graph'
           /\ \E note : /\ info' = Append(info, note)
                        /\ Notes(note, line)'
                        /\ \A o \in operands' \ operands : Names(note, line, o)
                        /\ \A e \in graph' \ graph : Draws(note, line, e)
  <1> USE DEF Becomes, Scan, State
  <1>1. CASE line.kind = "Opcode"
    <2>1. /\ info' = Append(info, <<"Opcode", "">>) /\ operands' = operands \cup Captured(line)
          /\ labels' = labels /\ graph' = graph
      BY <1>1
    <2> DEFINE note == <<"Opcode", "">>
    <2>2. note[1] = "Opcode" /\ note[1] # "Data"
      OBVIOUS
    <2>3. Notes(note, line)'
      BY <1>1, <2>1, <2>2 DEF Notes
    <2>4. \A o \in operands' \ operands : Names(note, line, o)
      BY <2>1, <2>2 DEF Names
    <2> HIDE DEF note
    <2>5. info' = Append(info, note)
      BY <2>1 DEF note
    <2> QED
      BY <2>1, <2>3, <2>4, <2>5
  <1>2. CASE line.kind = "LabelDecl"
    <2>1. /\ info' = Append(info, <<"LabelDecl", line.name>>) /\ labels' = labels \cup {line.name}
          /\ operands' = operands /\ graph' = graph
      BY <1>2
    <2> QED
      BY <1>2, <2>1 DEF Notes, Names, Draws
  <1>3. CASE line.kind = "Data" /\ current # ""
    <2>1. /\ info' = Append(info, <<"Data", current>>)
          /\ graph' = graph \cup {<<current, ref>> : ref \in Captured(line)}
          /\ operands' = operands /\ labels' = labels
      BY <1>3
    <2>2. PICK c, note : c = current /\ note = <<"Data", c>>
      OBVIOUS
    <2>3. Notes(note, line)'
      BY <1>3, <2>1, <2>2 DEF Notes
    <2>4. ASSUME NEW e \in graph' \ graph PROVE Draws(note, line, e)
      <3>1. PICK ref \in Captured(line) : e = <<c, ref>>
        BY <2>1, <2>2, <2>4
      <3> QED
        BY <2>2, <3>1 DEF Draws
    <2> QED
      BY <2>1, <2>2, <2>3, <2>4
  <1>4. CASE line.kind = "Data" /\ current = ""
    <2>1. info' = Append(info, <<"Directive", "">>) /\ UNCHANGED <<operands, labels, graph>>
      BY <1>4
    <2> QED
      BY <1>4, <2>1 DEF Notes, Names, Draws
  <1>5. CASE line.kind = "FunctionDecl"
    <2>1. /\ info' = Append(info, <<"FunctionDecl", "">>) /\ operands' = operands \cup {line.name}
          /\ labels' = labels /\ graph' = graph
      BY <1>5
    <2> QED
      BY <1>5, <2>1 DEF Notes, Names, Draws
  <1>6. CASE line.kind \notin {"Opcode", "LabelDecl", "Data", "FunctionDecl"}
    <2>1. info' = Append(info, <<line.kind, "">>) /\ UNCHANGED <<operands, labels, graph>>
      BY <1>6
    <2> QED
      BY <1>6, <2>1 DEF Notes, Names, Draws
  <1> QED
    BY <1>1, <1>2, <1>3, <1>4, <1>5, <1>6

\* The scan of a line keeps the notes of the lines before it.
LEMMA ReadKept ==
    ASSUME Scanned, ReadLine
    PROVE  Scanned'
  <1>1. PICK line \in Line : block' = Append(block, line) /\ Becomes(Scan(State, line))
    BY DEF ReadLine
  <1>2. /\ labels \subseteq labels' /\ operands \subseteq operands' /\ graph \subseteq graph'
        /\ \E note : /\ info' = Append(info, note)
                     /\ Notes(note, line)'
                     /\ \A o \in operands' \ operands : Names(note, line, o)
                     /\ \A e \in graph' \ graph : Draws(note, line, e)
    BY <1>1, Noted
  <1>3. PICK note : /\ info' = Append(info, note)
                    /\ Notes(note, line)'
                    /\ \A o \in operands' \ operands : Names(note, line, o)
                    /\ \A e \in graph' \ graph : Draws(note, line, e)
    BY <1>2
  <1>4. PICK m \in Nat : m = Len(block)
    BY DEF Scanned
  <1>5. /\ block' \in Seq(Line) /\ Len(block') = m + 1 /\ block'[m + 1] = line
        /\ \A n \in 1 .. m : block'[n] = block[n]
    BY <1>1, <1>4 DEF Scanned
  <1>6. info' = [n \in 1 .. m + 1 |-> IF n = m + 1 THEN note ELSE info[n]]
    BY <1>3, <1>4, Extended DEF Scanned
  <1>7. /\ info'[m + 1] = note /\ \A n \in 1 .. m : info'[n] = info[n]
        /\ info' = [n \in 1 .. m + 1 |-> info'[n]]
    BY <1>6
  <1>8. ASSUME NEW n \in 1 .. m + 1 PROVE Notes(info[n], block[n])'
    <2>1. CASE n = m + 1
      <3>1. info'[n] = note /\ block'[n] = line
        BY <1>5, <1>7, <2>1
      <3> QED
        BY <1>3, <3>1 DEF Notes
    <2>2. CASE n \in 1 .. m
      <3>1. Notes(info[n], block[n])
        BY <1>4, <2>2 DEF Scanned
      <3>2. info'[n] = info[n] /\ block'[n] = block[n]
        BY <1>5, <1>7, <2>2
      <3> QED
        BY <1>2, <3>1, <3>2 DEF Notes
    <2> QED
      BY <2>1, <2>2
  <1>9. ASSUME NEW o \in operands' PROVE \E n \in 1 .. m + 1 : Names(info'[n], block'[n], o)
    <2>1. CASE o \in operands
      <3>1. PICK n \in 1 .. m : Names(info[n], block[n], o)
        BY <1>4, <2>1 DEF Scanned
      <3> QED
        BY <1>5, <1>7, <3>1
    <2>2. CASE o \notin operands
      <3>1. Names(info'[m + 1], block'[m + 1], o)
        BY <1>3, <1>5, <1>7, <2>2
      <3> QED
        BY <3>1
    <2> QED
      BY <2>1, <2>2
  <1>10. ASSUME NEW e \in graph' PROVE \E n \in 1 .. m + 1 : Draws(info'[n], block'[n], e)
    <2>1. CASE e \in graph
      <3>1. PICK n \in 1 .. m : Draws(info[n], block[n], e)
        BY <1>4, <2>1 DEF Scanned
      <3> QED
        BY <1>5, <1>7, <3>1
    <2>2. CASE e \notin graph
      <3>1. Draws(info'[m + 1], block'[m + 1], e)
        BY <1>3, <1>5, <1>7, <2>2
      <3> QED
        BY <3>1
    <2> QED
      BY <2>1, <2>2
  <1> QED
    BY <1>5, <1>7, <1>8, <1>9, <1>10 DEF Scanned

\* The search adds the labels that the one it visits leads to.
LEMMA SearchKept ==
    ASSUME Searched, SearchStep
    PROVE  Searched'
  <1>1. PICK l \in todo : /\ used' = used \cup ({e[2] : e \in {e \in graph : e[1] = l}} \ used)
                          /\ todo' = (todo \ {l}) \cup ({e[2] : e \in {e \in graph : e[1] = l}} \ used)
                          /\ UNCHANGED <<labels, operands, graph>>
    BY DEF SearchStep
  <1>2. PICK found : found = {e[2] : e \in {e \in graph : e[1] = l}} \ used
    OBVIOUS
  <1>3. used' = used \cup found /\ todo' = (todo \ {l}) \cup found
    BY <1>1, <1>2
  <1>4. \A e \in graph : e[1] = l => e[2] \in used'
    BY <1>2, <1>3
  <1>5. ASSUME NEW e \in graph, e[1] \in used' \ todo' PROVE e[2] \in used'
    BY <1>3, <1>4, <1>5 DEF Searched
  <1>6. ASSUME NEW u \in used' PROVE u \in operands \/ \E e \in graph : e[1] \in used' /\ e[2] = u
    <2>1. CASE u \in used
      BY <1>3, <2>1 DEF Searched
    <2>2. CASE u \in found
      <3>1. PICK e \in graph : e[1] = l /\ e[2] = u
        BY <1>2, <2>2
      <3>2. l \in used'
        BY <1>3 DEF Searched
      <3> QED
        BY <3>1, <3>2
    <2> QED
      BY <1>3, <2>1, <2>2
  <1>7. labels \cap operands \subseteq used' /\ todo' \subseteq used'
    BY <1>3 DEF Searched
  <1> QED
    BY <1>1, <1>5, <1>6, <1>7 DEF Searched

\* Every step of filter_asm keeps AsmInv.
LEMMA AsmStep == AsmInv /\ [AsmNext]_asmVars => AsmInv'
  <1> SUFFICES ASSUME AsmInv, [AsmNext]_asmVars PROVE AsmInv'
    OBVIOUS
  <1>1. ASSUME UNCHANGED <<block, info, labels, operands, graph>> PROVE Scanned'
    BY <1>1 DEF AsmInv, Scanned, Notes
  <1>2. CASE ReadLine
    BY <1>2, ReadKept DEF AsmInv, ReadLine
  <1>3. CASE StartSearch
    <2>1. Searched'
      BY <1>3 DEF StartSearch, Searched
    <2> QED
      BY <1>1, <1>3, <2>1 DEF AsmInv, StartSearch
  <1>4. CASE SearchStep
    <2>1. Searched'
      BY <1>4, SearchKept DEF AsmInv, SearchStep
    <2> QED
      BY <1>1, <1>4, <2>1 DEF AsmInv, SearchStep
  <1>5. CASE SearchDone
    <2>1. Searched'
      BY <1>5 DEF AsmInv, SearchDone, Searched
    <2> QED
      BY <1>1, <1>5, <2>1 DEF AsmInv, SearchDone
  <1>6. CASE UNCHANGED asmVars
    <2>1. asmPhase # "scan" => Searched'
      BY <1>6 DEF AsmInv, asmVars, Searched
    <2> QED
      BY <1>1, <1>6, <2>1 DEF AsmInv, asmVars
  <1> QED
    BY <1>2, <1>3, <1>4, <1>5, <1>6 DEF AsmNext

\* For any listing: filter_asm keeps every label that a kept opcode or data line
\* refers to (unless it is a demangled path), and keeps no label that no kept
\* line names and that is not a function.
THEOREM AsmIsClosed == AsmInit /\ [][AsmNext]_asmVars => []FilteredAsmClosed
  <1>1. AsmInit => AsmInv
    <2> SUFFICES ASSUME AsmInit PROVE AsmInv
      OBVIOUS
    <2>0. block = <<>> /\ info = <<>>
      BY DEF AsmInit
    <2>1. block \in Seq(Line) /\ Len(block) = 0 /\ 1 .. Len(block) = {}
      BY <2>0
    <2>2. info = [n \in {} |-> info[n]]
      BY <2>0
    <2> QED
      BY <2>1, <2>2 DEF AsmInit, AsmInv, Scanned
  <1>2. AsmInv => FilteredAsmClosed
    <2> SUFFICES ASSUME AsmInv, asmPhase = "done" PROVE FilteredAsmClosed
      BY DEF FilteredAsmClosed
    <2>1. Scanned /\ Searched /\ todo = {} /\ DOMAIN block = 1 .. Len(block)
      BY DEF AsmInv, Scanned
    <2>2. ASSUME NEW n \in KeptLines, NEW m \in DOMAIN block, info[n][1] \in {"Opcode", "Data"},
                 block[m].kind = "LabelDecl", block[m].name \in block[n].refs \ Path
          PROVE  m \in KeptLines
      <3>1. Notes(info[n], block[n]) /\ Notes(info[m], block[m])
        BY <2>1 DEF Scanned, KeptLines
      <3>2. block[m].name \in Captured(block[n])
        BY <2>2 DEF Captured
      <3>3. info[m] = <<"LabelDecl", block[m].name>> /\ block[m].name \in labels
        BY <2>2, <3>1 DEF Notes
      <3>4. block[m].name \in used
        <4>1. CASE info[n][1] = "Opcode"
          BY <2>1, <3>1, <3>2, <3>3, <4>1 DEF Notes, Searched
        <4>2. CASE info[n][1] = "Data"
          <5>1. info[n][2] \in used /\ <<info[n][2], block[m].name>> \in graph
            BY <3>1, <3>2, <4>2 DEF Notes, KeptLines
          <5> QED
            BY <2>1, <5>1 DEF Searched
        <4> QED
          BY <2>2, <4>1, <4>2
      <3> QED
        BY <3>3, <3>4 DEF KeptLines
    <2>3. ASSUME NEW m \in KeptLines, block[m].kind = "LabelDecl"
          PROVE  \/ \E n \in KeptLines : block[m].name \in block[n].refs
                 \/ \E n \in DOMAIN block : block[n].kind = "FunctionDecl"
                                            /\ block[n].name = block[m].name
      <3>1. info[m] = <<"LabelDecl", block[m].name>>
        BY <2>1, <2>3 DEF Scanned, Notes, KeptLines
      <3>2. block[m].name \in used
        BY <2>1, <3>1 DEF KeptLines
      <3>3. CASE block[m].name \in operands
        <4>1. PICK n \in DOMAIN block : Names(info[n], block[n], block[m].name)
          BY <2>1, <3>3 DEF Scanned
        <4> QED
          BY <4>1 DEF Names, Captured, KeptLines
      <3>4. ASSUME NEW e \in graph, e[1] \in used, e[2] = block[m].name
            PROVE  \E n \in KeptLines : block[m].name \in block[n].refs
        <4>1. PICK n \in DOMAIN block : Draws(info[n], block[n], e)
          BY <2>1 DEF Scanned
        <4>2. n \in KeptLines
          BY <3>4, <4>1 DEF Draws, KeptLines
        <4> QED
          BY <3>4, <4>1, <4>2 DEF Draws, Captured
      <3> QED
        BY <2>1, <3>2, <3>3, <3>4 DEF Searched
    <2> QED
      BY <2>2, <2>3 DEF FilteredAsmClosed
  <1> QED
    BY <1>1, <1>2, AsmStep, PTL

-----------------------------------------------------------------------------
(* Gists *)

\* The files of a gist, for code that has several.
Encoded(code) == {<<EncodeFilename(code[i][1]), code[i][2]>> : i \in 1 .. Len(code)}

\* Names that can be stored are stored under names of their own.
StoredOwn ==
    Storable(shared) =>
      stored = IF gistPhase = "start" \/ shared # <<>> THEN Encoded(shared)
                                                       ELSE {<<Filename, single>>}

GistInv == /\ shared \in Seq(FileName \X Content) /\ gistPhase \in {"start", "stored", "loaded"}
           /\ StoredOwn /\ GistRoundTrip

\* A name without escapes is what it is decoded to.
LEMMA EncodedAndDecoded ==
    ASSUME NEW name \in Seq(STRING), \A k \in DOMAIN name : name[k] # "%2F"
    PROVE  DecodeFilename(EncodeFilename(name)) = name
  <1>1. PICK code : code = EncodeFilename(name)
    OBVIOUS
  <1>2. DOMAIN code = DOMAIN name /\ \A i \in DOMAIN name : code[i] = IF name[i] = "/" THEN "%2F" ELSE name[i]
    BY <1>1 DEF EncodeFilename
  <1>3. DecodeFilename(code) = [i \in DOMAIN name |-> name[i]]
    BY <1>2 DEF DecodeFilename
  <1> QED
    BY <1>1, <1>3

\* Only Playground.toml is stored under that name.
LEMMA MetaIsMeta ==
    ASSUME NEW name \in Seq(STRING), \A k \in DOMAIN name : name[k] # "%2F",
           EncodeFilename(name) = MetaFilename
    PROVE  name = MetaFilename
  <1>1. DecodeFilename(MetaFilename) = MetaFilename
    BY DEF DecodeFilename, MetaFilename
  <1> QED
    BY <1>1, EncodedAndDecoded

\* What is shared has names, one for each file if it can be stored.
LEMMA StorableNames ==
    ASSUME FileName \subseteq Seq(STRING), NEW code \in Seq(FileName \X Content), Storable(code),
           NEW i \in 1 .. Len(code)
    PROVE  /\ code[i][1] \in Seq(STRING) /\ code[i] = <<code[i][1], code[i][2]>>
           /\ \A k \in DOMAIN code[i][1] : code[i][1][k] # "%2F"
           /\ DecodeFilename(EncodeFilename(code[i][1])) = code[i][1]
           /\ EncodeFilename(code[i][1]) # MetaFilename
  <1>1. i \in DOMAIN code /\ code[i] \in FileName \X Content
    OBVIOUS
  <1>2. code[i][1] \in Seq(STRING) /\ code[i] = <<code[i][1], code[i][2]>>
    BY <1>1
  <1>3. code[i][1] # MetaFilename /\ \A k \in DOMAIN code[i][1] : code[i][1][k] # "%2F"
    BY <1>1 DEF Storable
  <1> QED
    BY <1>2, <1>3, EncodedAndDecoded, MetaIsMeta

\* Another file that can be stored beside the others is added to them.
LEMMA OneMore ==
    ASSUME FileName \subseteq Seq(STRING), NEW code \in Seq(FileName \X Content),
           NEW name \in FileName, NEW content \in Content,
           Storable(Append(code, <<name, content>>))
    PROVE  /\ Storable(code)
           /\ AddFile(Encoded(code), EncodeFilename(name), content)
                = Encoded(Append(code, <<name, content>>))
  <1>1. PICK more : more = Append(code, <<name, content>>)
    OBVIOUS
  <1>2. PICK m \in Nat : m = Len(code)
    OBVIOUS
  <1>3. /\ more \in Seq(FileName \X Content) /\ Len(more) = m + 1
        /\ more[m + 1] = <<name, content>> /\ \A i \in 1 .. m : more[i] = code[i]
    BY <1>1, <1>2
  <1>4. DOMAIN more = 1 .. m + 1 /\ DOMAIN code = 1 .. m
    BY <1>2, <1>3
  <1>5. Storable(more)
    BY <1>1
  <1>6. Storable(code)
    <2>1. \A i \in 1 .. m : i \in 1 .. m + 1
      OBVIOUS
    <2> QED
      BY <1>3, <1>4, <1>5, <2>1 DEF Storable
  <1>7. DecodeFilename(EncodeFilename(name)) = name
    <2>1. m + 1 \in 1 .. Len(more)
      BY <1>3
    <2>2. DecodeFilename(EncodeFilename(more[m + 1][1])) = more[m + 1][1]
      BY <1>3, <1>5, <2>1, StorableNames
    <2> QED
      BY <1>3, <2>2
  <1>8. ASSUME NEW f \in Encoded(code) PROVE f[1] # EncodeFilename(name)
    <2>1. PICK i \in 1 .. m : f = <<EncodeFilename(code[i][1]), code[i][2]>>
      BY <1>2 DEF Encoded
    <2>2. DecodeFilename(EncodeFilename(code[i][1])) = code[i][1]
      BY <1>2, <1>6, StorableNames
    <2>3. more[i][1] # more[m + 1][1]
      <3>1. i \in DOMAIN more /\ m + 1 \in DOMAIN more /\ i # m + 1
        BY <1>4
      <3> QED
        BY <1>5, <3>1 DEF Storable
    <2>4. code[i][1] # name
      BY <1>3, <2>3
    <2> QED
      BY <1>7, <2>1, <2>2, <2>4
  <1>9. AddFile(Encoded(code), EncodeFilename(name), content)
          = Encoded(code) \cup {<<EncodeFilename(name), content>>}
    BY <1>8 DEF AddFile
  <1>10. Encoded(more) = Encoded(code) \cup {<<EncodeFilename(name), content>>}
    <2>1. ASSUME NEW f \in Encoded(more)
          PROVE  f \in Encoded(code) \cup {<<EncodeFilename(name), content>>}
      <3>1. PICK i \in 1 .. m + 1 : f = <<EncodeFilename(more[i][1]), more[i][2]>>
        BY <1>3 DEF Encoded
      <3>2. CASE i = m + 1
        BY <1>3, <3>1, <3>2
      <3>3. CASE i \in 1 .. m
        BY <1>2, <1>3, <3>1, <3>3 DEF Encoded
      <3> QED
        BY <3>2, <3>3
    <2>2. ASSUME NEW f \in Encoded(code) PROVE f \in Encoded(more)
      <3>1. PICK i \in 1 .. m : f = <<EncodeFilename(code[i][1]), code[i][2]>>
        BY <1>2, <2>2 DEF Encoded
      <3>2. i \in 1 .. Len(more) /\ more[i] = code[i]
        BY <1>3
      <3> QED
        BY <3>1, <3>2 DEF Encoded
    <2>3. <<EncodeFilename(name), content>> \in Encoded(more)
      <3>1. m + 1 \in 1 .. Len(more) /\ more[m + 1][1] = name /\ more[m + 1][2] = content
        BY <1>3
      <3> QED
        BY <3>1 DEF Encoded
    <2> QED
      BY <2>1, <2>2, <2>3
  <1> QED
    BY <1>1, <1>6, <1>9, <1>10

\* The fold of create_future.
LEMMA ShareKept ==
    ASSUME FileName \subseteq Seq(STRING), GistInv, ShareFile
    PROVE  shared' \in Seq(FileName \X Content) /\ StoredOwn'
  <1>1. PICK name \in FileName, content \in Content :
           /\ shared' = Append(shared, <<name, content>>)
           /\ stored' = AddFile(stored, EncodeFilename(name), content)
    BY DEF ShareFile
  <1>2. PICK code, files : /\ code = shared /\ files = stored
                           /\ code \in Seq(FileName \X Content)
    BY DEF GistInv
  <1>3. PICK more : more = Append(code, <<name, content>>)
    OBVIOUS
  <1>4. shared' = more /\ more \in Seq(FileName \X Content)
    BY <1>1, <1>2, <1>3
  <1>5. ASSUME Storable(more) PROVE stored' = Encoded(more)
    <2>1. /\ Storable(code)
          /\ AddFile(Encoded(code), EncodeFilename(name), content) = Encoded(more)
      BY <1>2, <1>3, <1>5, OneMore
    <2>2. files = Encoded(code)
      BY <1>2, <2>1 DEF GistInv, StoredOwn, ShareFile
    <2> QED
      BY <1>1, <1>2, <2>1, <2>2
  <1>6. gistPhase' = "start"
    BY DEF ShareFile
  <1>7. Storable(shared)' => Storable(more)
    BY <1>4 DEF Storable
  <1>8. Encoded(shared)' = Encoded(more)
    BY <1>4 DEF Encoded
  <1> QED
    BY <1>4, <1>5, <1>6, <1>7, <1>8 DEF StoredOwn

\* Playground.toml replaces no file that can be stored.
LEMMA CreateKept ==
    ASSUME FileName \subseteq Seq(STRING), GistInv, CreateGist
    PROVE  StoredOwn'
  <1>1. PICK text \in Content :
          /\ single' = IF shared = <<>> THEN text ELSE single
          /\ stored' = {f \in IF shared = <<>> THEN {<<EncodeFilename(Filename), text>>} ELSE stored :
                          f[1] # MetaFilename}
    BY DEF CreateGist
  <1>2. shared' = shared /\ gistPhase = "start" /\ gistPhase' = "stored"
    BY DEF CreateGist
  <1>3. CASE shared = <<>>
    <2>1. EncodeFilename(Filename) = Filename /\ Filename # MetaFilename
      BY DEF EncodeFilename, Filename, MetaFilename
    <2>2. stored' = {<<Filename, single'>>}
      BY <1>1, <1>3, <2>1
    <2> QED
      BY <1>2, <1>3, <2>2 DEF StoredOwn
  <1>4. ASSUME shared # <<>>, Storable(shared) PROVE stored' = Encoded(shared)
    <2>1. PICK code, files : /\ code = shared /\ files = stored
                             /\ code \in Seq(FileName \X Content)
      BY DEF GistInv
    <2>2. files = Encoded(code) /\ Storable(code)
      BY <1>2, <1>4, <2>1 DEF GistInv, StoredOwn
    <2>3. ASSUME NEW f \in files PROVE f[1] # MetaFilename
      <3>1. PICK i \in 1 .. Len(code) : f = <<EncodeFilename(code[i][1]), code[i][2]>>
        BY <2>2, <2>3 DEF Encoded
      <3>2. EncodeFilename(code[i][1]) # MetaFilename
        BY <2>1, <2>2, StorableNames
      <3> QED
        BY <3>1, <3>2
    <2>4. stored' = files
      BY <1>1, <1>4, <2>1, <2>3
    <2> QED
      BY <2>1, <2>2, <2>4
  <1>5. (Storable(shared)' <=> Storable(shared)) /\ Encoded(shared)' = Encoded(shared)
    BY <1>2 DEF Storable, Encoded
  <1>6. CASE shared # <<>>
    BY <1>2, <1>4, <1>5, <1>6 DEF StoredOwn
  <1> QED
    BY <1>3, <1>6

\* A gist of two files or more comes back with its names.
LEMMA SeveralFiles ==
    ASSUME FileName \subseteq Seq(STRING), NEW code \in Seq(FileName \X Content), Storable(code)
    PROVE  /\ Decoded(Encoded(code)) = {code[i] : i \in 1 .. Len(code)}
           /\ Len(code) \notin {0, 1} => Cardinality(Encoded(code)) > 1
  <1>1. ASSUME NEW i \in 1 .. Len(code)
        PROVE  /\ code[i] = <<code[i][1], code[i][2]>>
               /\ DecodeFilename(EncodeFilename(code[i][1])) = code[i][1]
    BY StorableNames
  <1>2. Decoded(Encoded(code)) = {code[i] : i \in 1 .. Len(code)}
    <2>1. ASSUME NEW f \in Decoded(Encoded(code)) PROVE f \in {code[i] : i \in 1 .. Len(code)}
      <3>1. PICK i \in 1 .. Len(code) :
              f = <<DecodeFilename(EncodeFilename(code[i][1])), code[i][2]>>
        BY <2>1 DEF Decoded, Encoded
      <3> QED
        BY <1>1, <3>1
    <2>2. ASSUME NEW i \in 1 .. Len(code) PROVE code[i] \in Decoded(Encoded(code))
      <3>1. PICK f : f = <<EncodeFilename(code[i][1]), code[i][2]>>
        OBVIOUS
      <3>2. f \in Encoded(code)
        BY <3>1 DEF Encoded
      <3>3. code[i] = <<DecodeFilename(f[1]), f[2]>>
        BY <1>1, <3>1
      <3> QED
        BY <3>2, <3>3 DEF Decoded
    <2> QED
      BY <2>1, <2>2
  <1>3. ASSUME Len(code) \notin {0, 1} PROVE Cardinality(Encoded(code)) > 1
    <2> DEFINE enc(i) == <<EncodeFilename(code[i][1]), code[i][2]>>
    <2>1. Len(code) \in Nat /\ 1 \in 1 .. Len(code) /\ 2 \in 1 .. Len(code)
      <3>1. PICK m \in Nat : m = Len(code)
        OBVIOUS
      <3>2. m # 0 /\ m # 1
        BY <1>3, <3>1
      <3>3. 1 \in 1 .. m /\ 2 \in 1 .. m
        BY <3>2
      <3> QED
        BY <3>1, <3>3
    <2>2. enc(1) \in Encoded(code) /\ enc(2) \in Encoded(code)
      BY <2>1 DEF Encoded
    <2>3. enc(1) # enc(2)
      <3>1. code[1][1] # code[2][1]
        BY <2>1 DEF Storable
      <3> QED
        BY <1>1, <2>1, <3>1
    <2>4. IsFiniteSet(1 .. Len(code))
      BY <2>1, FS_Interval
    <2>5. IsFiniteSet(Encoded(code))
      <3>1. Encoded(code) = {enc(i) : i \in 1 .. Len(code)}
        BY DEF Encoded
      <3> DEFINE f == [i \in 1 .. Len(code) |-> enc(i)]
      <3>2. f \in Surjection(1 .. Len(code), Encoded(code))
        BY <3>1 DEF Surjection
      <3> QED
        BY <2>4, <3>2, FS_Surjection
    <2>6. Cardinality(Encoded(code)) \in Nat
      BY <2>5, FS_CardinalityType
    <2>7. Cardinality(Encoded(code)) # 0
      BY <2>2, <2>5, FS_EmptySet
    <2>8. Cardinality(Encoded(code)) # 1
      BY <2>2, <2>3, <2>5, FS_Singleton
    <2> QED
      BY <2>6, <2>7, <2>8
  <1> QED
    BY <1>2, <1>3

\* Loading gives back what is stored.
LEMMA LoadKept ==
    ASSUME FileName \subseteq Seq(STRING), GistInv, LoadGist
    PROVE  GistRoundTrip'
  <1>1. /\ UNCHANGED <<shared, single, stored, meta>> /\ gistPhase = "stored"
        /\ meta = "v1" => loaded' = IF Cardinality(stored) > 1 THEN Decoded(stored)
                                      ELSE {<<f[2]>> : f \in Decoded(stored)}
    <2>1. UNCHANGED <<shared, single, stored, meta>> /\ gistPhase = "stored"
      BY DEF LoadGist
    <2>2. PICK files : files = IF meta = "v1" THEN Decoded(stored) ELSE stored
      OBVIOUS
    <2>3. loaded' = IF Cardinality(stored) > 1 THEN files ELSE {<<f[2]>> : f \in files}
      BY <2>2 DEF LoadGist
    <2> QED
      BY <2>1, <2>2, <2>3
  <1>2. PICK code : code = shared /\ code \in Seq(FileName \X Content)
    BY DEF GistInv
  <1>3. Storable(shared)' <=> Storable(code)
    BY <1>1, <1>2 DEF Storable
  <1> SUFFICES ASSUME meta = "v1", Storable(code)
               PROVE  /\ Len(code) = 0 => loaded' = {<<single>>}
                      /\ Len(code) = 1 => loaded' = {<<code[1][2]>>}
                      /\ Len(code) \notin {0, 1} => loaded' = {code[i] : i \in DOMAIN code}
    BY <1>1, <1>2, <1>3 DEF GistRoundTrip
  <1>4. DOMAIN code = 1 .. Len(code) /\ (Len(code) = 0 <=> code = <<>>)
    BY <1>2
  <1>5. Storable(shared)
    BY <1>2
  <1>6. stored = IF code # <<>> THEN Encoded(code) ELSE {<<Filename, single>>}
    BY <1>1, <1>2, <1>5 DEF GistInv, StoredOwn
  <1>7. \A x : ~(Cardinality({x}) > 1)
    <2>1. ASSUME NEW x PROVE Cardinality({x}) = 1
      BY FS_Singleton, Zenon
    <2> QED
      BY <2>1
  <1>8. ASSUME NEW x PROVE {<<f[2]>> : f \in Decoded({x})} = {<<x[2]>>}
    <2>1. PICK y : y = <<DecodeFilename(x[1]), x[2]>>
      OBVIOUS
    <2>2. Decoded({x}) = {y}
      BY <2>1 DEF Decoded
    <2>3. y[2] = x[2]
      BY <2>1
    <2> QED
      BY <2>2, <2>3
  <1>9. ASSUME Len(code) = 0 PROVE loaded' = {<<single>>}
    <2>1. PICK x : x = <<Filename, single>>
      OBVIOUS
    <2>2. stored = {x} /\ x[2] = single
      BY <1>4, <1>6, <1>9, <2>1
    <2> QED
      BY <1>1, <1>7, <1>8, <2>2
  <1>10. ASSUME Len(code) = 1 PROVE loaded' = {<<code[1][2]>>}
    <2>1. PICK x : x = <<EncodeFilename(code[1][1]), code[1][2]>>
      OBVIOUS
    <2>2. 1 .. Len(code) = {1}
      BY <1>10
    <2>3. stored = {x} /\ x[2] = code[1][2]
      BY <1>4, <1>6, <1>10, <2>1, <2>2 DEF Encoded
    <2> QED
      BY <1>1, <1>7, <1>8, <2>3
  <1>11. ASSUME Len(code) \notin {0, 1} PROVE loaded' = {code[i] : i \in DOMAIN code}
    <2>1. stored = Encoded(code)
      BY <1>4, <1>6, <1>11
    <2>2. /\ Decoded(Encoded(code)) = {code[i] : i \in 1 .. Len(code)}
          /\ Cardinality(Encoded(code)) > 1
      BY <1>2, <1>11, SeveralFiles
    <2> QED
      BY <1>1, <1>4, <2>1, <2>2
  <1> QED
    BY <1>9, <1>10, <1>11

\* Code of any number of files, with any names that can be stored, comes back
\* from GitHub as it was shared, whatever directories the names have
\* (create_future, load_future).
THEOREM GistsComeBack == GistInit /\ [][GistNext]_gistVars => []GistRoundTrip
  <1>0. FileName \subseteq Seq(STRING)
    BY GistAssumption
  <1>1. GistInit => GistInv
    <2> SUFFICES ASSUME GistInit PROVE GistInv
      OBVIOUS
    <2>1. shared = <<>> /\ stored = {} /\ gistPhase = "start"
      BY DEF GistInit
    <2>2. shared \in Seq(FileName \X Content) /\ 1 .. Len(shared) = {}
      BY <2>1
    <2>3. Encoded(shared) = {}
      BY <2>2 DEF Encoded
    <2> QED
      BY <2>1, <2>2, <2>3 DEF GistInv, StoredOwn, GistRoundTrip
  <1>2. ASSUME GistInv, [GistNext]_gistVars PROVE GistInv'
    <2> USE <1>0, <1>2
    <2>1. CASE ShareFile
      <3>1. shared' \in Seq(FileName \X Content) /\ StoredOwn' /\ gistPhase' = "start"
        BY <2>1, ShareKept DEF ShareFile, GistInv
      <3> QED
        BY <3>1 DEF GistInv, GistRoundTrip
    <2>2. CASE CreateGist
      <3>1. StoredOwn' /\ shared' = shared /\ gistPhase' = "stored"
        BY <2>2, CreateKept DEF CreateGist
      <3> QED
        BY <3>1 DEF GistInv, GistRoundTrip
    <2>3. CASE EditMeta
      <3>1. UNCHANGED <<shared, single, stored, gistPhase>> /\ gistPhase = "stored"
        BY <2>3 DEF EditMeta
      <3>2. StoredOwn'
        BY <3>1 DEF GistInv, StoredOwn, Storable, Encoded
      <3> QED
        BY <3>1, <3>2 DEF GistInv, GistRoundTrip
    <2>4. CASE LoadGist
      <3>1. UNCHANGED <<shared, single, stored>> /\ gistPhase = "stored" /\ gistPhase' = "loaded"
        BY <2>4 DEF LoadGist
      <3>2. StoredOwn'
        BY <3>1 DEF GistInv, StoredOwn, Storable, Encoded
      <3>3. GistRoundTrip'
        BY <2>4, LoadKept
      <3> QED
        BY <3>1, <3>2, <3>3 DEF GistInv
    <2>5. CASE UNCHANGED gistVars
      <3>1. UNCHANGED <<shared, single, stored, meta, loaded, gistPhase>>
        BY <2>5 DEF gistVars
      <3> QED
        BY <3>1 DEF GistInv, StoredOwn, Storable, Encoded, GistRoundTrip
    <2> QED
      BY <2>1, <2>2, <2>3, <2>4, <2>5 DEF GistNext
  <1>3. GistInv => GistRoundTrip
    BY DEF GistInv
  <1> QED
    BY <1>1, <1>2, <1>3, PTL

-----------------------------------------------------------------------------
(* The crates on offer *)

\* What is asked for the crates of a manifest is within `features`.
Within(found, features) == \A p \in Manifest(found) : Enabled(found[p]) \subseteq features[p]

\* The resolver has nothing to add to `features`.
Settled(features) ==
    \A e \in deps : Active(e, features) => Enabled(e[3].lite) \subseteq features[e[2]]

\* The dependencies that are followed from the manifest and from what the walk
\* found are in `ps`, or still to be looked at.
Reached(ps) ==
    \A e \in deps : e[1] \in Manifest(crates) \cup DOMAIN visited /\ Followed(e, on) =>
      e[2] \in ps \/ e[1] \in toVisit

CratesType ==
    /\ \A e \in deps : e[1] \in Package /\ e[2] \in Package
    /\ on = [p \in Package |-> on[p]] /\ built = [p \in Package |-> built[p]]
    /\ DOMAIN crates \subseteq Package /\ DOMAIN visited \subseteq Package
    /\ crPhase \in {"start", "resolve", "visit", "done"}

\* A crate has the features its metadata ask for.
MetadataKept ==
    \A p \in DOMAIN crates : \A l \in metadata[p] : Enabled(l) \subseteq Enabled(crates[p])

\* What the walk found was resolved before, and it leaves out nothing.
WalkRight ==
    /\ \A p \in DOMAIN visited : Enabled(visited[p]) \subseteq on[p]
    /\ Reached(DOMAIN visited)

\* At the end, if the last pass kept up with all features on offer, cargo builds no
\* more than that pass resolved.
OfferRight ==
    /\ (\A p \in DOMAIN crates : KeptUp(p)) => \A p \in Package : built[p] \subseteq on[p]
    /\ toVisit = {} /\ Reached(DOMAIN crates)
    /\ \A p \in DOMAIN crates : Offered(p) \/ Crowded(p)

CratesInv ==
    /\ CratesType /\ MetadataKept
    /\ crPhase \in {"resolve", "visit"} => Within(crates, on)
    /\ crPhase \in {"visit", "done"} => Settled(on)
    /\ crPhase = "visit" => WalkRight
    /\ crPhase = "done" => OfferRight

\* Merging asks for what its parts ask for.
LEMMA MergePart ==
    ASSUME NEW lites, NEW l \in lites
    PROVE  Enabled(l) \subseteq Enabled(Merge(lites)) /\ "present" \in Enabled(l)
  BY DEF Enabled, Merge, Lite

\* ... and for nothing else.
LEMMA MergeWithin ==
    ASSUME NEW lites, NEW S, \A l \in lites : Enabled(l) \subseteq S, "present" \in S
    PROVE  Enabled(Merge(lites)) \subseteq S
  BY DEF Enabled, Merge, Lite

\* More features activate more dependencies.
LEMMA ActiveMore ==
    ASSUME NEW e, NEW f, NEW g, f[e[1]] \subseteq g[e[1]], Active(e, f)
    PROVE  Active(e, g)
  BY DEF Active

\* A manifest names crates that were found.
LEMMA ManifestFound ==
    ASSUME NEW found
    PROVE  Manifest(found) \subseteq DOMAIN found
  BY DEF Manifest, Newest

\* Its crates get what is asked for them.
LEMMA AskedWithin ==
    ASSUME NEW found, DOMAIN found \subseteq Package
    PROVE  Within(found, Asked(found))
  BY ManifestFound DEF Within, Asked

\* A round of the resolver takes nothing away ...
LEMMA RoundMore ==
    ASSUME NEW f, NEW p \in Package
    PROVE  f[p] \subseteq Round(f)[p] /\ Round(f) = [q \in Package |-> Round(f)[q]]
  BY DEF Round

\* ... changes nothing once all that is asked for is there ...
LEMMA RoundSettled ==
    ASSUME CratesType, Round(on) = on
    PROVE  Settled(on)
  <1> SUFFICES ASSUME NEW e \in deps, Active(e, on) PROVE Enabled(e[3].lite) \subseteq on[e[2]]
    BY DEF Settled
  <1>1. e[2] \in Package
    BY DEF CratesType
  <1>2. Enabled(e[3].lite) \subseteq Round(on)[e[2]]
    BY <1>1 DEF Round
  <1> QED
    BY <1>2

\* ... and stays within what is settled.
LEMMA RoundWithin ==
    ASSUME CratesType, Settled(on), \A p \in Package : built[p] \subseteq on[p], NEW p \in Package
    PROVE  Round(built)[p] \subseteq on[p]
  <1>1. ASSUME NEW e \in deps, e[2] = p, Active(e, built)
        PROVE  Enabled(e[3].lite) \subseteq on[p]
    <2>1. built[e[1]] \subseteq on[e[1]]
      BY DEF CratesType
    <2>2. Active(e, on)
      BY <1>1, <2>1 DEF Active
    <2> QED
      BY <1>1, <2>2 DEF Settled
  <1>2. Round(built)[p] = built[p] \cup
          UNION {Enabled(e[3].lite) : e \in {e \in deps : e[2] = p /\ Active(e, built)}}
    BY DEF Round
  <1> QED
    BY <1>1, <1>2

\* No other crate of the library name of p was found.
Alone(found, p) == \A q \in DOMAIN found : LibName[q] = LibName[p] => Name[q] = Name[p]

\* A crate alone with its library name goes by a name of its own.
LEMMA OwnName ==
    ASSUME NEW found, DOMAIN found \subseteq Package, NEW p \in DOMAIN found,
           NEW q \in DOMAIN found, ExposedName(found, p) = ExposedName(found, q),
           Alone(found, p)
    PROVE  p = q
  <1>1. \A a, b, c, d : <<a>> # <<b, c>> /\ (<<a>> = <<b>> => a = b) /\ (<<a, c>> = <<b, d>> => a = b /\ c = d)
    OBVIOUS
  <1>2. p \in Package /\ q \in Package
    OBVIOUS
  <1>3. CASE p \in Newest(DOMAIN found)
    <2>1. q \in Newest(DOMAIN found) /\ LibName[p] = LibName[q]
      BY <1>1, <1>3 DEF ExposedName
    <2>2. Name[p] = Name[q]
      BY <2>1 DEF Alone
    <2>3. Version[p] <= Version[q] /\ Version[q] <= Version[p]
      BY <1>3, <2>1, <2>2 DEF Newest
    <2>4. Version[p] = Version[q]
      BY <1>2, <2>3, TopCratesAssumption
    <2> QED
      BY <1>2, <2>2, <2>4, TopCratesAssumption
  <1>4. CASE p \notin Newest(DOMAIN found)
    <2>1. LibName[p] = LibName[q] /\ Version[p] = Version[q]
      BY <1>1, <1>4 DEF ExposedName
    <2> QED
      BY <1>2, <2>1, TopCratesAssumption DEF Alone
  <1> QED
    BY <1>3, <1>4

\* The crates that generate_dependency_specs keeps, as in its definition.
Kept(found) ==
    {p \in DOMAIN found : \A q \in DOMAIN found \ {p} :
       ExposedName(found, q) = ExposedName(found, p) => SortsAfter(p, q)}

\* A specification is one of a crate that was found.
LEMMA SpecOf ==
    ASSUME NEW found, NEW n \in DOMAIN DependencySpecs(found)
    PROVE  \E p \in Kept(found) :
             /\ ExposedName(found, p) = n
             /\ DependencySpecs(found)[n]
                  = [package |-> Name[p], version |-> Version[p], lite |-> Finalize(found[p])]
  <1>1. PICK p : p = CHOOSE q \in Kept(found) : ExposedName(found, q) = n
    OBVIOUS
  <1>2. n \in {ExposedName(found, q) : q \in Kept(found)}
    BY DEF DependencySpecs, Kept
  <1>3. p \in Kept(found) /\ ExposedName(found, p) = n
    BY <1>1, <1>2
  <1>4. DependencySpecs(found)[n]
          = [package |-> Name[p], version |-> Version[p], lite |-> Finalize(found[p])]
    BY <1>1, <1>2 DEF DependencySpecs, Kept
  <1> QED
    BY <1>3, <1>4

\* What is wanted of a crate is what was found for it.
LEMMA WantedWithin ==
    ASSUME NEW found, DOMAIN found \subseteq Package, NEW p \in Package, NEW S,
           p \in DOMAIN found => Enabled(found[p]) \subseteq S
    PROVE  Wanted(DependencySpecs(found))[p] \subseteq S
  <1>1. PICK offer : offer = DependencySpecs(found)
    OBVIOUS
  <1>2. ASSUME NEW n \in DOMAIN offer, offer[n].package = Name[p], offer[n].version = Version[p]
        PROVE  Enabled(offer[n].lite) \subseteq S
    <2>1. PICK q \in Kept(found) : offer[n] = [package |-> Name[q], version |-> Version[q],
                                              lite |-> Finalize(found[q])]
      BY <1>1, <1>2, SpecOf
    <2>2. q \in DOMAIN found /\ q \in Package
      BY DEF Kept
    <2>3. q = p
      BY <1>2, <2>1, <2>2, TopCratesAssumption
    <2>4. Enabled(Finalize(found[p])) \subseteq Enabled(found[p])
      BY DEF Enabled, Finalize, Lite
    <2> QED
      BY <2>1, <2>2, <2>3, <2>4
  <1>3. Wanted(offer)[p] = UNION {Enabled(offer[n].lite) :
          n \in {n \in DOMAIN offer : offer[n].package = Name[p] /\ offer[n].version = Version[p]}}
    BY DEF Wanted
  <1> QED
    BY <1>1, <1>2, <1>3

\* So that its specification is there.
LEMMA SpecThere ==
    ASSUME NEW found, DOMAIN found \subseteq Package, NEW p \in DOMAIN found,
           Alone(found, p)
    PROVE  \E n \in DOMAIN DependencySpecs(found) :
             /\ DependencySpecs(found)[n].package = Name[p]
             /\ DependencySpecs(found)[n].version = Version[p]
  <1>1. PICK n : n = ExposedName(found, p)
    OBVIOUS
  <1>2. p \in Kept(found)
    BY OwnName DEF Kept
  <1>3. n \in DOMAIN DependencySpecs(found)
    BY <1>1, <1>2 DEF DependencySpecs, Kept
  <1>4. PICK q \in Kept(found) :
          /\ ExposedName(found, q) = n
          /\ DependencySpecs(found)[n]
               = [package |-> Name[q], version |-> Version[q], lite |-> Finalize(found[q])]
    BY <1>3, SpecOf
  <1>5. q = p
    BY <1>1, <1>4, OwnName DEF Kept
  <1> QED
    BY <1>3, <1>4, <1>5

\* The first crates.
LEMMA PopulateKept ==
    ASSUME CratesInv, Populate
    PROVE  CratesInv'
  <1>1. PICK chosen : chosen = {p \in Newest(Package) : Name[p] \in Top /\ ~Excluded(p)}
    OBVIOUS
  <1>2. /\ crates' = [p \in chosen |-> IF metadata[p] = {} THEN Default ELSE Merge(metadata[p])]
        /\ on' = Asked(crates)' /\ crPhase' = "resolve"
        /\ UNCHANGED <<deps, metadata, exclusions, visited, built>>
    BY <1>1 DEF Populate
  <1>3. PICK found : found = crates'
    OBVIOUS
  <1>4. DOMAIN found = chosen /\ chosen \subseteq Package
    BY <1>1, <1>2, <1>3 DEF Newest
  <1>5. on' = Asked(found)
    BY <1>2, <1>3 DEF Asked, Manifest
  <1>6. CratesType'
    BY <1>2, <1>3, <1>4, <1>5 DEF CratesInv, CratesType, Asked
  <1>7. MetadataKept'
    <2>1. ASSUME NEW p \in chosen, NEW l \in metadata[p] PROVE Enabled(l) \subseteq Enabled(found[p])
      <3>1. found[p] = Merge(metadata[p])
        BY <1>2, <1>3, <2>1
      <3> QED
        BY <3>1, MergePart
    <2> QED
      BY <1>2, <1>3, <1>4, <2>1 DEF MetadataKept
  <1>8. Within(found, on')
    BY <1>4, <1>5, AskedWithin
  <1>9. Within(crates, on)'
    BY <1>3, <1>8 DEF Within, Manifest
  <1> QED
    BY <1>2, <1>6, <1>7, <1>9 DEF CratesInv

\* The resolver.
LEMMA ResolveKept ==
    ASSUME CratesInv, Resolve
    PROVE  CratesInv'
  <1>1. /\ on' = Round(on) /\ crPhase = "resolve"
        /\ UNCHANGED <<deps, metadata, exclusions, crates, visited, built, crPhase>>
    BY DEF Resolve
  <1>2. CratesType /\ MetadataKept /\ Within(crates, on)
    BY <1>1 DEF CratesInv
  <1>3. CratesType'
    BY <1>1, <1>2 DEF CratesType, Round
  <1>4. MetadataKept'
    BY <1>1, <1>2 DEF MetadataKept
  <1>5. ASSUME NEW p \in Manifest(crates) PROVE Enabled(crates[p]) \subseteq on'[p]
    <2>1. p \in Package
      BY <1>2, ManifestFound DEF CratesType
    <2>2. on[p] \subseteq on'[p]
      BY <1>1, <2>1 DEF Round
    <2> QED
      BY <1>2, <2>2 DEF Within
  <1>6. Within(crates, on)'
    BY <1>1, <1>5 DEF Within, Manifest
  <1> QED
    BY <1>1, <1>3, <1>4, <1>6 DEF CratesInv

\* The walk starts at the crates of the manifest, all of which are resolved.
LEMMA StartWalkKept ==
    ASSUME CratesInv, StartWalk
    PROVE  CratesInv'
  <1>1. /\ crPhase = "resolve" /\ Round(on) = on /\ crPhase' = "visit"
        /\ toVisit' = {p \in Package : on[p] # {} /\ \E q \in Manifest(crates) : Name[q] = Name[p]}
        /\ visited' = [p \in {} |-> Default]
        /\ UNCHANGED <<deps, metadata, exclusions, crates, on, built>>
    BY DEF StartWalk
  <1>2. CratesType /\ MetadataKept /\ Within(crates, on)
    BY <1>1 DEF CratesInv
  <1>3. DOMAIN visited' = {}
    BY <1>1
  <1>4. CratesType'
    BY <1>1, <1>2, <1>3 DEF CratesType
  <1>5. MetadataKept' /\ Within(crates, on)'
    BY <1>1, <1>2 DEF MetadataKept, Within, Manifest
  <1>6. Settled(on)'
    <2>1. Settled(on)
      BY <1>1, <1>2, RoundSettled
    <2> QED
      BY <1>1, <2>1 DEF Settled
  <1>7. Manifest(crates) \subseteq toVisit'
    <2> SUFFICES ASSUME NEW p \in Manifest(crates) PROVE p \in toVisit'
      OBVIOUS
    <2>1. p \in Package
      BY <1>2, ManifestFound DEF CratesType
    <2>2. "present" \in on[p]
      BY <1>2 DEF Within, Enabled
    <2> QED
      BY <1>1, <2>1, <2>2
  <1>8. WalkRight'
    BY <1>1, <1>3, <1>7 DEF WalkRight, Reached, Manifest
  <1> QED
    BY <1>1, <1>4, <1>5, <1>6, <1>8 DEF CratesInv

\* What the walk merges was asked for in the resolver as well.
LEMMA WalkLevelKept ==
    ASSUME CratesInv, WalkLevel
    PROVE  CratesInv'
  <1>1. PICK level, reached :
          /\ level = {e \in deps : e[1] \in toVisit /\ Followed(e, on)}
          /\ reached = {e[2] : e \in level}
    OBVIOUS
  <1>2. /\ crPhase = "visit"
        /\ visited' = [p \in DOMAIN visited \cup reached |->
                Merge({e[3].lite : e \in {e \in level : e[2] = p}}
                      \cup (IF p \in DOMAIN visited THEN {visited[p]} ELSE {}))]
        /\ toVisit' = reached
        /\ UNCHANGED <<deps, metadata, exclusions, crates, on, built, crPhase>>
    BY <1>1 DEF WalkLevel
  <1>3. CratesType /\ MetadataKept /\ Within(crates, on) /\ Settled(on) /\ WalkRight
    BY <1>2 DEF CratesInv
  <1>4. DOMAIN visited' = DOMAIN visited \cup reached /\ reached \subseteq Package
    BY <1>1, <1>2, <1>3 DEF CratesType
  <1>5. CratesType'
    BY <1>2, <1>3, <1>4 DEF CratesType
  <1>6. MetadataKept' /\ Within(crates, on)' /\ Settled(on)'
    BY <1>2, <1>3 DEF MetadataKept, Within, Manifest, Settled
  <1>7. ASSUME NEW p \in DOMAIN visited \cup reached PROVE Enabled(visited'[p]) \subseteq on[p]
    <2>1. PICK lites : lites = {e[3].lite : e \in {e \in level : e[2] = p}}
                                 \cup (IF p \in DOMAIN visited THEN {visited[p]} ELSE {})
      OBVIOUS
    <2>2. visited'[p] = Merge(lites)
      BY <1>2, <2>1
    <2>3. ASSUME NEW l \in lites PROVE Enabled(l) \subseteq on[p]
      <3>1. CASE p \in DOMAIN visited /\ l = visited[p]
        BY <1>3, <3>1 DEF WalkRight
      <3>2. ASSUME NEW e \in level, e[2] = p, l = e[3].lite PROVE Enabled(l) \subseteq on[p]
        <4>1. e \in deps /\ Active(e, on)
          BY <1>1 DEF Followed
        <4> QED
          BY <1>3, <3>2, <4>1 DEF Settled
      <3> QED
        BY <2>1, <3>1, <3>2
    <2>4. \E l \in lites : TRUE
      <3>1. CASE p \in DOMAIN visited
        BY <2>1, <3>1
      <3>2. CASE p \in reached
        <4>1. PICK e \in level : e[2] = p
          BY <1>1, <3>2
        <4>2. e[3].lite \in lites
          BY <2>1, <4>1
        <4> QED
          BY <4>2
      <3> QED
        BY <3>1, <3>2
    <2>5. "present" \in on[p]
      BY <2>3, <2>4, MergePart
    <2> QED
      BY <2>2, <2>3, <2>5, MergeWithin
  <1>8. ASSUME NEW e \in deps, e[1] \in Manifest(crates) \cup DOMAIN visited', Followed(e, on)
        PROVE  e[2] \in DOMAIN visited' \/ e[1] \in toVisit'
    <2>1. CASE e[1] \in toVisit
      <3>1. e \in level
        BY <1>1, <1>8, <2>1
      <3> QED
        BY <1>1, <1>4, <3>1
    <2>2. CASE e[1] \notin toVisit /\ e[1] \notin reached
      BY <1>3, <1>4, <1>8, <2>2 DEF WalkRight, Reached
    <2> QED
      BY <1>2, <2>1, <2>2
  <1>9. WalkRight'
    BY <1>2, <1>4, <1>7, <1>8 DEF WalkRight, Reached, Manifest, Followed, Excluded
  <1> QED
    BY <1>2, <1>5, <1>6, <1>9 DEF CratesInv

\* A pass that finds no new crate asks for nothing that was not resolved in it.
LEMMA EndWalkKept ==
    ASSUME CratesInv, EndWalk
    PROVE  CratesInv'
  <1>1. PICK found : found = [p \in DOMAIN crates \cup DOMAIN visited |->
                        IF p \in DOMAIN visited THEN Merge({visited[p]} \cup metadata[p])
                                                ELSE crates[p]]
    OBVIOUS
  <1>2. /\ crates' = found /\ crPhase = "visit" /\ toVisit = {}
        /\ UNCHANGED <<deps, metadata, exclusions, visited>>
    BY <1>1 DEF EndWalk
  <1>3. CratesType /\ MetadataKept /\ Within(crates, on) /\ Settled(on) /\ WalkRight
    BY <1>2 DEF CratesInv
  <1>4. DOMAIN found = DOMAIN crates \cup DOMAIN visited /\ DOMAIN found \subseteq Package
    BY <1>1, <1>3 DEF CratesType
  <1>5. MetadataKept'
    <2>1. ASSUME NEW p \in DOMAIN found, NEW l \in metadata[p]
          PROVE  Enabled(l) \subseteq Enabled(found[p])
      <3>1. CASE p \in DOMAIN visited
        <4>1. PICK lites : lites = {visited[p]} \cup metadata[p]
          OBVIOUS
        <4>2. found[p] = Merge(lites) /\ l \in lites
          BY <1>1, <1>4, <2>1, <3>1, <4>1
        <4> QED
          BY <4>2, MergePart
      <3>2. CASE p \notin DOMAIN visited
        BY <1>1, <1>3, <1>4, <2>1, <3>2 DEF MetadataKept
      <3> QED
        BY <3>1, <3>2
    <2> QED
      BY <1>2, <2>1 DEF MetadataKept
  <1>6. Asked(crates)' = Asked(found)
    BY <1>2 DEF Asked, Manifest
  <1>7. CASE Grown(DOMAIN crates, DOMAIN found)
    <2>1. crPhase' = "resolve" /\ on' = Asked(found) /\ UNCHANGED built
      BY <1>2, <1>6, <1>7 DEF EndWalk
    <2>2. CratesType'
      BY <1>2, <1>3, <1>4, <2>1 DEF CratesType, Asked
    <2>3. Within(found, on')
      BY <1>4, <2>1, AskedWithin
    <2>4. Within(crates, on)'
      BY <1>2, <2>3 DEF Within, Manifest
    <2> QED
      BY <1>5, <2>1, <2>2, <2>4 DEF CratesInv
  <1>8. CASE ~Grown(DOMAIN crates, DOMAIN found)
    <2>0. DependencySpecs(crates)' = DependencySpecs(found)
      BY <1>2 DEF DependencySpecs, ExposedName, SortsAfter
    <2>1. /\ crPhase' = "done" /\ specs' = DependencySpecs(found) /\ built' = Wanted(specs')
          /\ UNCHANGED <<on, toVisit>>
      BY <1>2, <1>8, <2>0 DEF EndWalk
    <2>2. DOMAIN found = DOMAIN crates
      <3>1. Cardinality(DOMAIN found) = Cardinality(DOMAIN crates)
        BY <1>8 DEF Grown
      <3>2. IsFiniteSet(DOMAIN found)
        BY <1>4, FS_Subset, TopCratesAssumption
      <3> QED
        BY <1>4, <3>1, <3>2, FS_Subset
    <2>3. Manifest(found) = Manifest(crates)
      BY <2>2 DEF Manifest
    <2>4. CratesType'
      BY <1>2, <1>3, <1>4, <2>1 DEF CratesType, Wanted
    <2>5. Settled(on)'
      BY <1>2, <1>3, <2>1 DEF Settled
    <2>6. ASSUME NEW p \in DOMAIN found, KeptUp(p)' PROVE Enabled(found[p]) \subseteq on[p]
      <3>1. \/ p \in Manifest(crates)
            \/ p \in DOMAIN visited /\ \A l \in metadata[p] : Enabled(l) \subseteq on[p]
        BY <1>2, <2>1, <2>3, <2>6 DEF KeptUp, Manifest
      <3>2. CASE p \notin DOMAIN visited
        BY <1>1, <1>3, <3>1, <3>2 DEF Within
      <3>3. CASE p \in DOMAIN visited
        <4>1. PICK lites : lites = {visited[p]} \cup metadata[p]
          OBVIOUS
        <4>2. found[p] = Merge(lites)
          BY <1>1, <3>3, <4>1
        <4>3. ASSUME NEW l \in metadata[p] PROVE Enabled(l) \subseteq on[p]
          <5>1. CASE p \in Manifest(crates)
            BY <1>3, <5>1, ManifestFound DEF MetadataKept, Within
          <5> QED
            BY <3>1, <5>1
        <4>4. Enabled(visited[p]) \subseteq on[p]
          BY <1>3, <3>3 DEF WalkRight
        <4>5. "present" \in on[p]
          BY <4>1, <4>4, MergePart
        <4> QED
          BY <4>1, <4>2, <4>3, <4>4, <4>5, MergeWithin
      <3> QED
        BY <3>2, <3>3
    <2>7. ASSUME \A p \in DOMAIN found : KeptUp(p)', NEW p \in Package PROVE built'[p] \subseteq on[p]
      <3>1. Wanted(DependencySpecs(found))[p] \subseteq on[p]
        BY <1>4, <2>6, <2>7, WantedWithin
      <3>2. built' = Wanted(DependencySpecs(found))
        BY <2>1
      <3> QED
        BY <3>1, <3>2
    <2>8. Reached(DOMAIN visited)
      BY <1>3 DEF WalkRight
    <2>9. Reached(DOMAIN crates)' /\ toVisit' = {}
      BY <1>2, <1>4, <2>1, <2>3, <2>8
         DEF Reached, Followed, Excluded, Manifest
    <2>10. ASSUME NEW p \in DOMAIN found, ~Crowded(p)' PROVE Offered(p)'
      <3>0. Alone(found, p)
        BY <1>2, <2>10 DEF Alone, Crowded
      <3>1. specs' = DependencySpecs(found)
        BY <2>1
      <3>2. \E n \in DOMAIN DependencySpecs(found) :
             /\ DependencySpecs(found)[n].package = Name[p]
             /\ DependencySpecs(found)[n].version = Version[p]
        BY <1>4, <3>0, SpecThere
      <3> QED
        BY <3>1, <3>2 DEF Offered
    <2>11. OfferRight'
      BY <1>2, <2>1, <2>7, <2>9, <2>10 DEF OfferRight
    <2> QED
      BY <1>5, <2>1, <2>4, <2>5, <2>11 DEF CratesInv
  <1> QED
    BY <1>7, <1>8

\* Cargo's build of the crates.
LEMMA BuildKept ==
    ASSUME CratesInv, Build
    PROVE  CratesInv'
  <1>1. /\ crPhase = "done" /\ built' = Round(built)
        /\ UNCHANGED <<deps, metadata, exclusions, crates, on, visited, toVisit, specs, crPhase>>
    BY DEF Build
  <1>2. CratesType /\ MetadataKept /\ Settled(on) /\ OfferRight
    BY <1>1 DEF CratesInv
  <1>3. CratesType'
    BY <1>1, <1>2 DEF CratesType, Round
  <1>4. MetadataKept' /\ Settled(on)'
    BY <1>1, <1>2 DEF MetadataKept, Settled
  <1>5. ASSUME \A q \in DOMAIN crates : KeptUp(q), NEW p \in Package
        PROVE  built'[p] \subseteq on[p]
    BY <1>1, <1>2, <1>5, RoundWithin DEF OfferRight
  <1>6. ASSUME NEW q PROVE KeptUp(q)' <=> KeptUp(q)
    BY <1>1 DEF KeptUp, Manifest
  <1>7. OfferRight'
    BY <1>1, <1>2, <1>5, <1>6
       DEF OfferRight, Reached, Offered, Crowded, Followed, Excluded, Manifest
  <1> QED
    BY <1>1, <1>3, <1>4, <1>7 DEF CratesInv

\* At the start nothing is offered.
LEMMA InitCrates == CratesInit => CratesInv
  <1> SUFFICES ASSUME CratesInit PROVE CratesInv
    OBVIOUS
  <1>1. /\ DOMAIN crates = {} /\ DOMAIN visited = {} /\ crPhase = "start"
        /\ on = [p \in Package |-> {}] /\ built = on
    BY DEF CratesInit
  <1>2. PICK d \in UNION {[es -> Dep] : es \in SUBSET Edge} :
          deps = {<<e[1], e[2], d[e]>> : e \in DOMAIN d}
    BY DEF CratesInit
  <1>3. DOMAIN d \subseteq Edge
    BY <1>2
  <1>4. \A e \in deps : e[1] \in Package /\ e[2] \in Package
    BY <1>2, <1>3, TopCratesAssumption
  <1> QED
    BY <1>1, <1>4 DEF CratesInv, CratesType, MetadataKept

\* For any registry, exclusions and metadata: what generate_info offers is closed
\* under the dependencies that its last pass resolved, for newest and older
\* versions, and under those that cargo builds from the offer if that pass kept up
\* with the features of the older ones; although generate_info stops when a pass
\* finds no new crate while that pass may have changed features.
THEOREM OfferIsClosed == CratesInit /\ [][CratesNext]_crVars => []OfferedCratesClosed
  <1>1. CratesInit => CratesInv
    BY InitCrates
  <1>2. ASSUME CratesInv, [CratesNext]_crVars PROVE CratesInv'
    <2>1. CASE UNCHANGED crVars
      <3>1. UNCHANGED <<deps, metadata, exclusions, crates, on, visited, toVisit, specs, built, crPhase>>
        BY <2>1 DEF crVars
      <3>2. CratesType' /\ MetadataKept'
        BY <1>2, <3>1 DEF CratesInv, CratesType, MetadataKept
      <3>3. crPhase \in {"resolve", "visit"} => Within(crates, on)'
        BY <1>2, <3>1 DEF CratesInv, Within, Manifest
      <3>4. crPhase \in {"visit", "done"} => Settled(on)'
        BY <1>2, <3>1 DEF CratesInv, Settled
      <3>5. crPhase = "visit" => WalkRight'
        BY <1>2, <3>1 DEF CratesInv, WalkRight, Reached, Manifest, Followed, Excluded
      <3>6. crPhase = "done" => OfferRight'
        BY <1>2, <3>1
           DEF CratesInv, OfferRight, Reached, Offered, Crowded, Manifest, Followed,
               Excluded, KeptUp
      <3> QED
        BY <3>1, <3>2, <3>3, <3>4, <3>5, <3>6 DEF CratesInv
    <2> QED
      BY <1>2, <2>1, PopulateKept, ResolveKept, StartWalkKept, WalkLevelKept, EndWalkKept, BuildKept
         DEF CratesNext
  <1>3. CratesInv => OfferedCratesClosed
    <2> SUFFICES ASSUME CratesInv, crPhase = "done" PROVE OfferedCratesClosed
      BY DEF OfferedCratesClosed
    <2>1. CratesType /\ OfferRight
      BY DEF CratesInv
    <2>2. ClosedUnder(Manifest(crates) \cup DOMAIN visited, on)
      BY <2>1 DEF ClosedUnder, OfferRight, Reached
    <2>3. ASSUME \A p \in DOMAIN crates : KeptUp(p) PROVE ClosedUnder(DOMAIN crates, built)
      <3> SUFFICES ASSUME NEW e \in deps, e[1] \in DOMAIN crates, Followed(e, built)
                   PROVE  Offered(e[2]) \/ Crowded(e[2])
        BY DEF ClosedUnder
      <3>1. e[1] \in Manifest(crates) \cup DOMAIN visited
        BY <2>3 DEF KeptUp
      <3>2. built[e[1]] \subseteq on[e[1]]
        BY <2>1, <2>3 DEF CratesType, OfferRight
      <3>3. Followed(e, on)
        BY <3>2 DEF Followed, Active
      <3> QED
        BY <2>2, <3>1, <3>3 DEF ClosedUnder
    <2> QED
      BY <2>2, <2>3 DEF OfferedCratesClosed
  <1> QED
    BY <1>1, <1>2, <1>3, PTL
=============================================================================
