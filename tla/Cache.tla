------------------------------- MODULE Cache --------------------------------
(***************************************************************************)
(* ui/src/server_axum/cache.rs: cache_task, which keeps the versions or    *)
(* the crates of the containers, and the handlers meta_versions and        *)
(* meta_crates of server_axum.rs, which answer browsers from it.           *)
(*                                                                         *)
(*   browser -- If-None-Match --> handler -- queue --> cache_task          *)
(*                                origin <-- generation --'                *)
(*                                                                         *)
(* The clock is reduced to what the creation times tell apart.  They are   *)
(* served in whole seconds, and every timer but the first runs for ten     *)
(* seconds or more, so a generation that a timer started never gets the    *)
(* creation time of the value it may replace: `now` is then one second     *)
(* past it.                                                                *)
(***************************************************************************)
EXTENDS Naturals, Sequences, FiniteSets

CONSTANTS Browser,
          MaxChanges,  \* bound on the changes of what the containers report
          CacheCap     \* capacity of the queue to cache_task (8 in the code)

ASSUME CacheAssumption == MaxChanges \in Nat /\ CacheCap \in Nat \ {0}

VARIABLES
    origin,      \* what the containers report now
    changes,     \* how often it changed
    now,         \* the current second
    cached,      \* cached_value: {} for an error, or one <<value, created>>
    timer,       \* cache_expired: "off" (terminated), "running", "due"
    gen,         \* new_value: "off" (terminated), "started", "read", "ready"
    got,         \* what the generation read, later its result: {} for an error
    panicked,    \* an assertion of cache_task failed
    cacheQueue,  \* browsers whose oneshot sender is in the channel
    state,       \* per browser: "idle", "sending", "asked", "answered"
    sent,        \* per browser, the entity tag of its request: {} or one creation time
    cacheAnswer, \* per browser, what cache_task sent it
    copy,        \* per browser, the response it keeps: {} or one <<value, created>>
    up           \* whether cache_task runs

taskVars == <<cached, timer, gen, got, panicked, up>>
browserVars == <<state, sent, cacheAnswer, copy>>
cacheVars == <<origin, changes, now, taskVars, cacheQueue, browserVars>>

Value == 0 .. MaxChanges
Stamp == 0 .. MaxChanges + 2
Entry == Value \X Stamp
AtMostOne(S) == {{}} \cup {{x} : x \in S}

CacheTypeOK ==
    /\ origin \in Value /\ changes \in 0 .. MaxChanges /\ now \in Stamp
    /\ cached \in AtMostOne(Entry) /\ got \in AtMostOne(Entry)
    /\ timer \in {"off", "running", "due"} /\ gen \in {"off", "started", "read", "ready"}
    /\ panicked \in BOOLEAN /\ up \in BOOLEAN
    /\ cacheQueue \in Seq(Browser) /\ Len(cacheQueue) <= CacheCap
    /\ state \in [Browser -> {"idle", "sending", "asked", "answered"}]
    /\ sent \in [Browser -> AtMostOne(Stamp)]
    /\ cacheAnswer \in [Browser -> AtMostOne(Entry)] /\ copy \in [Browser -> AtMostOne(Entry)]

CacheInit ==
    /\ origin = 0 /\ changes = 0 /\ now = 0
    /\ cached = {} /\ timer = "running" /\ gen = "off" /\ got = {}
    /\ panicked = FALSE /\ up = TRUE
    /\ cacheQueue = <<>> /\ state = [b \in Browser |-> "idle"]
    /\ sent = [b \in Browser |-> {}] /\ cacheAnswer = [b \in Browser |-> {}]
    /\ copy = [b \in Browser |-> {}]

-----------------------------------------------------------------------------
(* The containers, and time *)

\* New compilers or crates are installed; a value may come back.
OriginChanges ==
    /\ changes < MaxChanges /\ changes' = changes + 1
    /\ \E v \in Value \ {origin} : origin' = v
    /\ UNCHANGED <<now, taskVars, cacheQueue, browserVars>>

\* SANDBOX_CACHE_TIME_TO_LIVE or SANDBOX_CACHE_ERROR_TIME_TO_LIVE passes.
\* Both are a second at least, and the wall clock (SystemTime) that stamps the
\* values is taken to advance with them and never to be set back.
TimePasses ==
    /\ timer = "running" /\ timer' = "due"
    /\ now' = IF \E x \in cached : x[2] = now THEN now + 1 ELSE now
    /\ UNCHANGED <<origin, changes, cached, gen, got, panicked, up, cacheQueue, browserVars>>

-----------------------------------------------------------------------------
(* cache_task *)

\* Variant: the timer is armed again when the generation starts.
EagerExpired ==
    /\ up /\ timer = "due" /\ timer' = "running"
    /\ IF gen = "off" THEN gen' = "started" /\ UNCHANGED panicked
                      ELSE panicked' = TRUE /\ UNCHANGED gen
    /\ UNCHANGED <<origin, changes, now, cached, got, up, cacheQueue, browserVars>>

\* Expired: the value is stale, a generation is spawned.
Expired ==
    /\ up /\ timer = "due" /\ timer' = "off"
    /\ IF gen = "off" THEN gen' = "started" /\ UNCHANGED panicked
                      ELSE panicked' = TRUE /\ UNCHANGED gen
    /\ UNCHANGED <<origin, changes, now, cached, got, up, cacheQueue, browserVars>>

\* cache_versions_task and cache_crates_task: a coordinator of their own is
\* asked for its versions or crates ...
Generate ==
    /\ up /\ gen = "started" /\ gen' = "read" /\ got' = {<<origin, now>>}
    /\ UNCHANGED <<origin, changes, now, cached, timer, panicked, up, cacheQueue, browserVars>>

\* ... and shut down; CacheInfo::build stamps the result.
GenerateOk ==
    /\ up /\ gen = "read" /\ gen' = "ready"
    /\ got' = {<<x[1], now>> : x \in got}
    /\ UNCHANGED <<origin, changes, now, cached, timer, panicked, up, cacheQueue, browserVars>>

\* One of the two fails, or the task panics.
GenerateFails ==
    /\ up /\ gen \in {"started", "read"} /\ gen' = "ready" /\ got' = {}
    /\ UNCHANGED <<origin, changes, now, cached, timer, panicked, up, cacheQueue, browserVars>>

\* Variant: a changed value keeps the creation time too.
StickyCombine(new, old) ==
    IF new = {} THEN old
    ELSE {<<n[1], o[2]>> : n \in new, o \in IF old = {} THEN new ELSE old}

\* Variant: what is cached is never replaced.
FirstCombine(new, old) == IF old = {} THEN new ELSE old

\* CacheInfo::try_combine_with_previous.
Combine(new, old) ==
    IF new = {} \/ (\E n \in new, o \in old : n[1] = o[1]) THEN old ELSE new

\* New: the result is stored and the timer armed again.
New ==
    /\ up /\ gen = "ready" /\ gen' = "off"
    /\ IF timer = "off"
         THEN timer' = "running" /\ cached' = Combine(got, cached) /\ UNCHANGED panicked
         ELSE panicked' = TRUE /\ UNCHANGED <<timer, cached>>
    /\ got' = {}
    /\ UNCHANGED <<origin, changes, now, up, cacheQueue, browserVars>>

\* Rx(Some): the first one waiting is given the value.
Serve ==
    /\ up /\ cacheQueue # <<>> /\ cacheQueue' = Tail(cacheQueue)
    /\ LET b == Head(cacheQueue) IN
         IF state[b] = "asked"
           THEN /\ cacheAnswer' = [cacheAnswer EXCEPT ![b] = cached]
                /\ state' = [state EXCEPT ![b] = "answered"]
           ELSE UNCHANGED <<cacheAnswer, state>>
    /\ UNCHANGED <<origin, changes, now, taskVars, sent, copy>>

\* Rx(None): the server stops, and with its last sender the task; a generation
\* under way is aborted.
CacheShutdown ==
    /\ up /\ cacheQueue = <<>> /\ \A b \in Browser : state[b] = "idle"
    /\ up' = FALSE /\ gen' = "off" /\ timer' = "off" /\ got' = {}
    /\ UNCHANGED <<origin, changes, now, cached, panicked, cacheQueue, browserVars>>

-----------------------------------------------------------------------------
(* The handlers, each on behalf of a browser *)

\* The request arrives, with the tag of the response the browser keeps.
Ask(b) ==
    /\ up /\ state[b] = "idle" /\ \A i \in DOMAIN cacheQueue : cacheQueue[i] # b
    /\ state' = [state EXCEPT ![b] = "sending"]
    /\ sent' = [sent EXCEPT ![b] = {x[2] : x \in copy[b]}]
    /\ UNCHANGED <<origin, changes, now, taskVars, cacheQueue, cacheAnswer, copy>>

\* CacheTx::get
Send(b) ==
    /\ state[b] = "sending" /\ Len(cacheQueue) < CacheCap
    /\ cacheQueue' = Append(cacheQueue, b)
    /\ state' = [state EXCEPT ![b] = "asked"]
    /\ UNCHANGED <<origin, changes, now, taskVars, sent, cacheAnswer, copy>>

NotModified(b) == \E x \in cacheAnswer[b] : x[2] \in sent[b]

\* apply_timestamped_caching; an error is an error to the browser.
Respond(b) ==
    /\ state[b] = "answered"
    /\ copy' = IF cacheAnswer[b] = {} \/ NotModified(b) THEN copy
               ELSE [copy EXCEPT ![b] = cacheAnswer[b]]
    /\ state' = [state EXCEPT ![b] = "idle"]
    /\ cacheAnswer' = [cacheAnswer EXCEPT ![b] = {}] /\ sent' = [sent EXCEPT ![b] = {}]
    /\ UNCHANGED <<origin, changes, now, taskVars, cacheQueue>>

\* The browser goes away, or another takes its place, with no copy.
Leave(b) ==
    /\ state' = [state EXCEPT ![b] = "idle"] /\ copy' = [copy EXCEPT ![b] = {}]
    /\ cacheAnswer' = [cacheAnswer EXCEPT ![b] = {}] /\ sent' = [sent EXCEPT ![b] = {}]
    /\ UNCHANGED <<origin, changes, now, taskVars, cacheQueue>>

CacheNext ==
    \/ OriginChanges \/ TimePasses
    \/ Expired \/ Generate \/ GenerateOk \/ GenerateFails \/ New \/ Serve \/ CacheShutdown
    \/ \E b \in Browser : Ask(b) \/ Send(b) \/ Respond(b) \/ Leave(b)

(***************************************************************************)
(* Fairness: timers elapse, spawned tasks and the select! loop run.  That  *)
(* a generation ever succeeds is not assumed, see EventuallyFresh.         *)
(***************************************************************************)
CacheFairness ==
    /\ WF_cacheVars(TimePasses) /\ WF_cacheVars(Expired) /\ WF_cacheVars(Generate \/ GenerateFails)
    /\ WF_cacheVars(GenerateOk \/ GenerateFails) /\ WF_cacheVars(New) /\ WF_cacheVars(Serve)
    /\ \A b \in Browser : WF_cacheVars(Send(b)) /\ WF_cacheVars(Respond(b))

CacheSpec == CacheInit /\ [][CacheNext]_cacheVars /\ CacheFairness

-----------------------------------------------------------------------------
\* Either the timer is armed or a generation is under way, never both and never
\* neither: cache_task's two assertions hold, and the cache never stops
\* refreshing itself.
TimerOrGeneration ==
    /\ ~panicked
    /\ up => ((timer = "off") <=> (gen # "off"))

\* A browser that is told "304 Not Modified" keeps a copy of exactly the value
\* that the cache held when it answered: entity tags are creation times in
\* seconds, and no two values get the same one
\* (apply_timestamped_caching, try_combine_with_previous).
NotModifiedIsTrue ==
    \A b \in Browser : state[b] = "answered" /\ NotModified(b) =>
      \A x \in cacheAnswer[b], y \in copy[b] : x[1] = y[1]

\* If generations succeed again and again, then once the containers no longer
\* change, the cache comes to hold what they report and keeps it, whatever
\* errors happen in between (cache_task, try_combine_with_previous).
EventuallyFresh ==
    []<><<GenerateOk>>_cacheVars => <>[](\E x \in cached : x[1] = origin)
=============================================================================
