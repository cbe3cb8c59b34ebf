------------------------------ MODULE ProbeHook ------------------------------
(***************************************************************************)
(* The preload inside one instrumented process (src/probe/hook.ts): how it *)
(* attaches, which collectors it installs, and what they append to         *)
(* events.ndjson while the application serves requests, runs queries and   *)
(* makes synchronous calls.                                                *)
(*                                                                         *)
(* JavaScript runs one turn at a time.  A turn that writes puts its events *)
(* in toWrite, and each append is a step of its own: the process can be    *)
(* killed between two appends, and an append can fail.  A synchronous call *)
(* of the application is a frame: nothing else runs before it returns.     *)
(*                                                                         *)
(* Of an event the model keeps what the properties tell apart: the request *)
(* and its query count, the query and its attribution, the samples a lag   *)
(* window holds.  Times are ticks, measured only inside synchronous calls. *)
(***************************************************************************)
EXTENDS Integers, Sequences, FiniteSets, FiniteSetsExt, SequencesExt

CONSTANTS
  Requests,          \* requests the application's server dispatches
  NoRequest,         \* the context of code that no request started
  Queries,           \* Prisma queries the application starts
  blockThresholdMs,  \* in ticks
  Settings,          \* BACKEND_DOCTOR_PROBE_COLLECTORS, a subset of SettingKinds
  Filters,           \* BACKEND_DOCTOR_PROBE_FILTERS, likewise
  Faults,            \* what may go wrong, a subset of FaultPoints
  MaxWork,           \* bound: things the application and the timers start
  MaxFaults,         \* bound: how many of them do
  MaxTicks           \* bound: ticks of an event-loop histogram

SettingKinds == {"absent", "malformed", "valid"}
Collectors   == {"event-loop lag", "blocking-call", "memory/gc", "http", "db-query"}
FaultPoints  == {"append", "install", "collector"}
Apis         == <<"fs", "crypto">>     \* in the order they are wrapped
Sites        == {"inside", "outside", "none"} \* culprit: in the globs, not, no frame
Exports      == {"@prisma/client", ".prisma/client"}
NoStore      == -1

ASSUME HookAssumption ==
  /\ IsFiniteSet(Requests) /\ NoRequest \notin Requests /\ IsFiniteSet(Queries)
  /\ blockThresholdMs \in Nat \ {0}
  /\ Settings \subseteq SettingKinds /\ Filters \subseteq SettingKinds
  /\ Faults \subseteq FaultPoints
  /\ MaxWork \in Nat /\ MaxFaults \in Nat /\ MaxTicks \in Nat

VARIABLES
  phase,      \* "preload", "running" or "exiting"
  inSession,  \* is BACKEND_DOCTOR_PROBE_EVENTS set?
  settings, filters,
  broken,     \* the collectors that throw when they are installed
  attachFlag, \* globalThis.__backendDoctorProbeHook
  installed,  \* the collectors that work in this process
  wrappedApis,\* the synchronous APIs that are wrapped
  disabled,   \* the collectors that stood down
  recordable,
  toWrite,    \* the events this turn has still to append
  lines,      \* what this process appended to events.ndjson
  frames,     \* the synchronous calls that have not returned
  req,        \* per request: "new", "open", "finished" or "aborted"
  store,      \* per request: its store's dbQueries, or NoStore
  query,      \* per query: who started it, and what the hook saw of it
  wraps,      \* per exports object: wrappers around its PrismaClient; -1 unloaded
  made,       \* how many wrapper classes were made
  windowHist, totalHist, \* ticks of the two histograms since enable() or reset()
  ahead,      \* how many more ticks the first has had, of all, than the second
  work, faultsLeft, \* what is left of MaxWork and MaxFaults
  slow        \* history: calls a complete record would hold

envVars   == <<inSession, settings, filters, broken>>
hookVars  == <<attachFlag, installed, wrappedApis>>
fileVars  == <<recordable, lines>>
callVars  == <<frames, slow>>
healthVars == <<disabled, faultsLeft>>
httpVars  == <<req, store>>
dbVars    == <<query, wraps, made>>
lagVars   == <<windowHist, totalHist, ahead>>
vars      == <<phase, envVars, hookVars, disabled, fileVars, toWrite, callVars,
               httpVars, dbVars, lagVars, work, faultsLeft>>

QueryRecord == [state : {"idle", "running", "done"}, by : Requests \cup {NoRequest},
                observers : 0 .. 2, scoped : BOOLEAN, inTime : BOOLEAN]

Init ==
  /\ phase = "preload"
  /\ \/ /\ inSession = TRUE /\ settings = "valid"
        /\ filters \in Filters
        /\ \/ broken = {} /\ faultsLeft = MaxFaults
           \/ /\ "install" \in Faults /\ MaxFaults > 0
              /\ \E c \in Collectors : broken = {c}
              /\ faultsLeft = MaxFaults - 1
     \/ /\ inSession \in BOOLEAN /\ settings \in Settings \ {"valid"}
        /\ filters = "absent" /\ broken = {}   \* nothing reads them
        /\ faultsLeft = MaxFaults
  /\ attachFlag = FALSE /\ installed = {} /\ wrappedApis = {} /\ disabled = {}
  /\ recordable = TRUE /\ toWrite = <<>> /\ lines = <<>>
  /\ frames = <<>> /\ slow = 0
  /\ req = [r \in Requests |-> "new"] /\ store = [r \in Requests |-> NoStore]
  /\ query = [q \in Queries |-> [state |-> "idle", by |-> NoRequest, observers |-> 0,
                                 scoped |-> FALSE, inTime |-> FALSE]]
  /\ wraps = [x \in Exports |-> -1] /\ made = 0
  /\ windowHist = 0 /\ totalHist = 0 /\ ahead = 0
  /\ work = MaxWork

(* Operators with a suffix, here and below, are plausible mistakes in the  *)
(* operator they precede; PROJECT.json names the property each one breaks. *)
-----------------------------------------------------------------------------
(* Recording. *)

Attach     == [type |-> "probe.attach", collectors |-> settings = "valid"]
Detach     == [type |-> "probe.detach"]
BlockCall  == [type |-> "block.call"]
HttpRequest(r) == [type |-> "http.request", request |-> r, dbQueries |-> store[r]]
DbQuery(q) == [type |-> "db.query", query |-> q, attributed |-> query[q].scoped]
MemSample  == [type |-> "mem.sample"]
GcPause    == [type |-> "gc.pause"]
LoopLag(count, total, final) ==
  [type |-> "loop.lag", count |-> count, total |-> total, final |-> final]

(* A turn of the event loop starts only when the last one has ended.       *)
Idle == phase = "running" /\ frames = <<>> /\ toWrite = <<>>
Spend == work > 0 /\ work' = work - 1
Fault(point) == point \in Faults /\ faultsLeft > 0 /\ faultsLeft' = faultsLeft - 1

(* writeEvent returns at once when an earlier append failed.               *)
writeEvent(events) == toWrite' = IF recordable THEN events ELSE <<>>

InHookWrite == toWrite # <<>>

Bypassed_Own(api) == api \notin wrappedApis \/ "blocking-call" \in disabled
Bypassed(api) ==
  api \notin wrappedApis \/ "blocking-call" \in disabled \/ InHookWrite

(* A malformed filter restricts nothing.                                   *)
passesFilter(site) == site = "inside" \/ (site = "outside" /\ filters # "valid")

Recorded(ms, site) == ms >= blockThresholdMs /\ passesFilter(site)

(* One appendFileSync.  It is itself a wrapped call, fast or slow.         *)
AppendEvent ==
  /\ toWrite # <<>>
  /\ \E ms \in {0, blockThresholdMs}, site \in Sites :
       LET own == IF ~Bypassed("fs") /\ Recorded(ms, site)
                    THEN <<BlockCall>> ELSE <<>>
       IN toWrite' = Tail(toWrite) \o own
  /\ lines' = Append(lines, Head(toWrite))
  /\ UNCHANGED <<phase, envVars, hookVars, healthVars, recordable, callVars,
                 httpVars, dbVars, lagVars, work>>

(* The file is gone, or the disk full: the process records no more.        *)
AppendFails == recordable' = FALSE

LoseEvent ==
  /\ toWrite # <<>> /\ Fault("append")
  /\ toWrite' = <<>>
  /\ AppendFails
  /\ UNCHANGED <<phase, envVars, hookVars, disabled, lines, callVars, httpVars,
                 dbVars, lagVars, work>>

-----------------------------------------------------------------------------
(* Attaching. *)

(* installCollectors: each one in a try of its own.  The blocking collector *)
(* catches its own failure after it wrapped some of the APIs.               *)
Installed == Collectors \ broken

InstallCollectors ==
  /\ installed' = Installed
  /\ IF "blocking-call" \in installed'
       THEN wrappedApis' = ToSet(Apis)
       ELSE \E n \in 0 .. Len(Apis) - 1 : wrappedApis' = ToSet(SubSeq(Apis, 1, n))

AlreadyAttached_Never == FALSE
AlreadyAttached == attachFlag

(* The attach block.  Without valid settings only the lifecycle is recorded. *)
LoadHook ==
  /\ attachFlag' = TRUE
  /\ IF ~AlreadyAttached /\ inSession
       THEN /\ writeEvent(<<Attach>>)
            /\ IF settings = "valid" THEN InstallCollectors
                 ELSE UNCHANGED <<installed, wrappedApis>>
       ELSE UNCHANGED <<toWrite, installed, wrappedApis>>
  /\ UNCHANGED <<envVars, healthVars, fileVars, callVars, httpVars, dbVars, lagVars>>

Preload      == phase = "preload" /\ phase' = "running" /\ LoadHook /\ UNCHANGED work
RequireAgain == Idle /\ Spend /\ LoadHook /\ UNCHANGED phase

-----------------------------------------------------------------------------
(* Event-loop lag.  The histograms matter only when they are flushed, so    *)
(* that the ticks since the last flush are added then.  node ticks the two  *)
(* with timers of their own: one may be a tick ahead of the other.          *)

(* A sample is the delay since the tick before.  enable() and reset() leave *)
(* no tick behind: the first one after them only starts the clock.          *)
SamplesOf(ticks) == IF ticks = 0 THEN 0 ELSE ticks - 1

Reset_Kept(ticks) == ticks
Reset(ticks) == 0

flushLag(final, after) ==
  \E n \in 0 .. MaxTicks, m \in 0 .. MaxTicks - totalHist :
    LET window == windowHist + n
        total  == totalHist + m
    IN /\ ahead' = ahead + n - m /\ ahead' \in -1 .. 1
       /\ writeEvent(<<LoopLag(SamplesOf(window), SamplesOf(total), final)>> \o after)
       /\ windowHist' = Reset(window) /\ totalHist' = total

LagTimer ==
  /\ Idle /\ Spend /\ "event-loop lag" \in installed /\ recordable
  /\ flushLag(FALSE, <<>>)
  /\ UNCHANGED <<phase, envVars, hookVars, healthVars, fileVars, callVars, httpVars,
                 dbVars>>

(* The memory timer and the garbage-collection observer.                   *)
MemoryCollector ==
  /\ Idle /\ Spend /\ "memory/gc" \in installed
  /\ \E event \in {MemSample, GcPause} : writeEvent(<<event>>)
  /\ UNCHANGED <<phase, envVars, hookVars, healthVars, fileVars, callVars, httpVars,
                 dbVars, lagVars>>

-----------------------------------------------------------------------------
(* Synchronous calls.  The wrapper decides at entry whether it watches.    *)

Enter ==
  /\ phase \in {"running", "exiting"} /\ toWrite = <<>> /\ Spend
  /\ \E i \in DOMAIN Apis :
       frames' = Append(frames, [ms |-> 0, watched |-> ~Bypassed(Apis[i])])
  /\ UNCHANGED <<phase, envVars, hookVars, healthVars, fileVars, toWrite, slow,
                 httpVars, dbVars, lagVars>>

(* A call inside another one takes its time from both.                     *)
Blocked ==
  /\ frames # <<>> /\ toWrite = <<>>
  /\ Last(frames).ms < blockThresholdMs
  /\ frames' = [i \in DOMAIN frames |->
                  [frames[i] EXCEPT !.ms = IF @ < blockThresholdMs THEN @ + 1 ELSE @]]
  /\ UNCHANGED <<phase, envVars, hookVars, healthVars, fileVars, toWrite, slow,
                 httpVars, dbVars, lagVars, work>>

(* recordBlockCall; a throw inside disables the collector.                 *)
Leave ==
  /\ frames # <<>> /\ toWrite = <<>>
  /\ frames' = Front(frames)
  /\ \E site \in Sites :
       LET call     == Last(frames)
           recorded == call.watched /\ Recorded(call.ms, site)
       IN /\ \/ writeEvent(IF recorded THEN <<BlockCall>> ELSE <<>>) /\ UNCHANGED healthVars
             \/ /\ call.watched /\ call.ms >= blockThresholdMs /\ Fault("collector")
                /\ disabled' = disabled \cup {"blocking-call"}
                /\ UNCHANGED toWrite
          /\ slow' = IF call.ms >= blockThresholdMs /\ passesFilter(site)
                       THEN slow + 1 ELSE slow
  /\ UNCHANGED <<phase, envVars, hookVars, fileVars, httpVars, dbVars, lagVars, work>>

-----------------------------------------------------------------------------
(* Requests. *)

(* wrappedEmit: the handler runs inside a fresh store.                     *)
FreshStore(r) == [store EXCEPT ![r] = 0]

Dispatch(r) ==
  /\ Idle /\ Spend
  /\ req[r] = "new"
  /\ req' = [req EXCEPT ![r] = "open"]
  /\ store' = IF "http" \in installed /\ "http" \notin disabled
                THEN FreshStore(r) ELSE store
  /\ UNCHANGED <<phase, envVars, hookVars, healthVars, fileVars, toWrite, callVars,
                 dbVars, lagVars>>

(* The finish listener, registered only where there is a store.  Reading   *)
(* the route may throw: its properties belong to the framework.            *)
Finish(r) ==
  /\ Idle
  /\ req[r] = "open"
  /\ req' = [req EXCEPT ![r] = "finished"]
  /\ \/ /\ store[r] # NoStore /\ "http" \notin disabled
        /\ writeEvent(<<HttpRequest(r)>>)
        /\ UNCHANGED healthVars
     \/ /\ store[r] # NoStore /\ "http" \notin disabled /\ Fault("collector")
        /\ disabled' = disabled \cup {"http"}
        /\ UNCHANGED toWrite
     \/ /\ store[r] = NoStore \/ "http" \in disabled
        /\ UNCHANGED <<toWrite, healthVars>>
  /\ UNCHANGED <<phase, envVars, hookVars, fileVars, callVars, store, dbVars,
                 lagVars, work>>

(* The connection closes before the response ends: no finish event.        *)
Abort(r) ==
  /\ Idle
  /\ req[r] = "open"
  /\ req' = [req EXCEPT ![r] = "aborted"]
  /\ UNCHANGED <<phase, envVars, hookVars, healthVars, fileVars, toWrite, callVars,
                 store, dbVars, lagVars, work>>

-----------------------------------------------------------------------------
(* Prisma. *)

(* wrapClientOnce on what a module exports: a class that is wrapped bears a *)
(* marker, an original that was wrapped before gets the same wrapper.       *)
Known == made > 0
Wrapped(class) == IF class > 0 THEN class ELSE 1
NewWrapper(class) == class = 0 /\ ~Known

(* Module._load.  The first load evaluates the module: its class is the    *)
(* generated one, or what the other exports object holds by now.           *)
LoadClient(x) ==
  /\ Idle
  /\ IF wraps[x] = -1 THEN UNCHANGED work ELSE Spend
  /\ \E class \in IF wraps[x] = -1 THEN {0} \cup ({wraps[y] : y \in Exports} \ {-1})
                                   ELSE {wraps[x]} :
       IF "db-query" \in installed /\ "db-query" \notin disabled
         THEN /\ wraps' = [wraps EXCEPT ![x] = Wrapped(class)]
              /\ made' = IF NewWrapper(class) THEN made + 1 ELSE made
         ELSE /\ wraps' = [wraps EXCEPT ![x] = class]
              /\ UNCHANGED made
  /\ UNCHANGED <<phase, envVars, hookVars, healthVars, fileVars, toWrite, callVars,
                 httpVars, query, lagVars>>

(* The constructor of a wrapped client without $use and $extends.          *)
UnsupportedClient ==
  /\ Idle /\ Fault("collector")
  /\ \E x \in Exports : wraps[x] > 0
  /\ "db-query" \notin disabled
  /\ disabled' = disabled \cup {"db-query"}
  /\ UNCHANGED <<phase, envVars, hookVars, fileVars, toWrite, callVars, httpVars,
                 dbVars, lagVars, work>>

(* observe: the store the query runs in is counted up before it executes.  *)
Observe_Current(r, n) ==
  LET open == {s \in Requests : req[s] = "open" /\ store[s] # NoStore} IN
  store' = IF open = {} THEN store
             ELSE [store EXCEPT ![CHOOSE s \in open : TRUE] = @ + n]
Observe(r, n) ==
  store' = IF r # NoRequest /\ store[r] # NoStore
             THEN [store EXCEPT ![r] = @ + n] ELSE store

getStore(r) == r # NoRequest /\ store[r] # NoStore

StartQuery(q) ==
  /\ Idle /\ Spend
  /\ query[q].state = "idle"
  /\ \E r \in {s \in Requests : req[s] # "new"} \cup {NoRequest},
        x \in {y \in Exports : wraps[y] # -1} :
       LET observers == IF "db-query" \in disabled THEN 0 ELSE wraps[x] IN
       /\ query' = [query EXCEPT ![q] =
            [state |-> "running", by |-> r, observers |-> observers,
             scoped |-> getStore(r), inTime |-> r # NoRequest /\ req[r] = "open"]]
       /\ Observe(r, observers)
  /\ UNCHANGED <<phase, envVars, hookVars, healthVars, fileVars, toWrite, callVars,
                 req, wraps, made, lagVars>>

(* It resolves or rejects: recordQuery in the finally clause, also when    *)
(* the collector was disabled in between.                                  *)
EndQuery(q) ==
  /\ Idle
  /\ query[q].state = "running"
  /\ query' = [query EXCEPT ![q].state = "done"]
  /\ writeEvent([i \in 1 .. query[q].observers |-> DbQuery(q)])
  /\ UNCHANGED <<phase, envVars, hookVars, healthVars, fileVars, callVars, httpVars,
                 wraps, made, lagVars, work>>

-----------------------------------------------------------------------------
(* The end of the process. *)

FlushesOnExit == "event-loop lag" \in installed /\ recordable

(* The exit listener; the application's own listeners run after it.        *)
Exit ==
  /\ Idle
  /\ phase' = "exiting"
  /\ IF inSession /\ FlushesOnExit THEN flushLag(TRUE, <<Detach>>)
       ELSE /\ IF inSession THEN writeEvent(<<Detach>>) ELSE UNCHANGED toWrite
            /\ UNCHANGED lagVars
  /\ UNCHANGED <<envVars, hookVars, healthVars, fileVars, callVars, httpVars, dbVars,
                 work>>

Next ==
  \/ Preload \/ RequireAgain \/ AppendEvent \/ LoseEvent
  \/ LagTimer \/ MemoryCollector
  \/ Enter \/ Blocked \/ Leave
  \/ \E r \in Requests : Dispatch(r) \/ Finish(r) \/ Abort(r)
  \/ \E x \in Exports : LoadClient(x)
  \/ UnsupportedClient
  \/ \E q \in Queries : StartQuery(q) \/ EndQuery(q)
  \/ Exit

Spec == Init /\ [][Next]_vars

-----------------------------------------------------------------------------
(* Properties. *)

Event ==
  [type : {"probe.attach"}, collectors : BOOLEAN]
  \cup [type : {"probe.detach", "block.call", "mem.sample", "gc.pause"}]
  \cup [type : {"http.request"}, request : Requests, dbQueries : Nat \cup {NoStore}]
  \cup [type : {"db.query"}, query : Queries, attributed : BOOLEAN]
  \cup [type : {"loop.lag"}, count : Nat, total : Nat, final : BOOLEAN]

TypeOK ==
  /\ phase \in {"preload", "running", "exiting"}
  /\ inSession \in BOOLEAN /\ settings \in SettingKinds /\ filters \in SettingKinds
  /\ broken \subseteq Collectors /\ attachFlag \in BOOLEAN
  /\ installed \subseteq Collectors /\ wrappedApis \subseteq ToSet(Apis)
  /\ disabled \subseteq {"blocking-call", "http", "db-query"}
  /\ recordable \in BOOLEAN
  /\ toWrite \in Seq(Event) /\ lines \in Seq(Event)
  /\ frames \in Seq([ms : Nat, watched : BOOLEAN])
  /\ req \in [Requests -> {"new", "open", "finished", "aborted"}]
  /\ store \in [Requests -> Nat \cup {NoStore}]
  /\ query \in [Queries -> QueryRecord]
  /\ wraps \in [Exports -> -1 .. 1] /\ made \in Nat
  /\ windowHist = 0 /\ totalHist \in 0 .. MaxTicks /\ ahead \in -1 .. 1
  /\ work \in Nat /\ faultsLeft \in Nat /\ slow \in Nat

Number(Test(_)) == Cardinality({i \in DOMAIN lines : Test(lines[i])})

(* Collector c was asked for, could be installed and has not stood down.   *)
Works(c) ==
  /\ inSession /\ settings = "valid" /\ phase # "preload"
  /\ c \notin broken /\ c \notin disabled

(* A process that can still record holds exactly one line for its start,   *)
(* for each response that finished, each query that ended and each slow    *)
(* call, whatever another collector did, and none for the hook's own       *)
(* appends.  It is about the isolation of installs, the wrapper's guards   *)
(* and the finish and finally handlers.                                    *)
RecordsAreComplete ==
  (toWrite = <<>> /\ recordable) =>
    /\ Number(LAMBDA e : e.type = "probe.attach") =
         IF inSession /\ phase # "preload" THEN 1 ELSE 0
    /\ Works("blocking-call") => Number(LAMBDA e : e.type = "block.call") = slow
    /\ Works("http") => \A r \in Requests :
         Number(LAMBDA e : e.type = "http.request" /\ e.request = r) =
           IF req[r] = "finished" THEN 1 ELSE 0
    /\ Works("db-query") => \A q \in Queries :
         Number(LAMBDA e : e.type = "db.query" /\ e.query = q) =
           IF query[q].state = "done" THEN 1 ELSE 0

Counted(r) == {q \in Queries : query[q].by = r /\ query[q].inTime /\ query[q].observers > 0}

QueriesStay(s) ==
  \A i \in DOMAIN s :
    /\ s[i].type = "http.request" =>
         s[i].dbQueries = Cardinality(Counted(s[i].request))
    /\ (s[i].type = "db.query" /\ Works("http")) =>
         (s[i].attributed <=> query[s[i].query].by # NoRequest)

(* A request's line counts the observed queries that its own handler began *)
(* before the response ended, and no query of a request that was open at   *)
(* the same time; a query is attributed exactly when a request began it.   *)
(* It is about the store of the async context, read when the response      *)
(* finishes and counted up when a query starts.                            *)
QueriesStayWithTheirRequest == QueriesStay(lines)

(* The samples in the windows of the first n lines.                        *)
WindowOf(event) == IF event.type = "loop.lag" THEN event.count ELSE 0
Samples(s) ==
  LET upTo[n \in 0 .. Len(s)] == IF n = 0 THEN 0 ELSE upTo[n - 1] + WindowOf(s[n])
  IN  upTo

LagLines(s, n) == {i \in 1 .. n : s[i].type = "loop.lag"}

AddsUp(s, i) ==
  LET sum == Samples(s)[i] IN
  sum - 1 <= s[i].total /\ s[i].total <= sum + Cardinality(LagLines(s, i))

(* On every lag line the cumulative total is the sum of the windows so far, *)
(* up to the tick by which one histogram can be ahead of the other, and up  *)
(* to one sample for each window: the reset after a flush costs the next    *)
(* window its first sample, the total never loses it.  The last line before *)
(* a detach accounts for every sample there was.  It is about the reset     *)
(* after each flush, the flush on exit, and a hook that never writes again  *)
(* after a failed append.                                                   *)
WindowsAddUp ==
  \A i \in DOMAIN lines :
    /\ lines[i].type = "loop.lag" => AddsUp(lines, i)
    /\ (lines[i].type = "probe.detach" /\ "event-loop lag" \in installed) =>
         /\ LagLines(lines, i) # {}
         /\ LET last == lines[Max(LagLines(lines, i))] IN
            last.final /\ last.total = SamplesOf(totalHist)

Bracketed(s) ==
  \A i \in DOMAIN s :
    /\ (s[i].type = "probe.attach") <=> (i = 1)
    /\ s[i].type = "probe.detach" =>
         /\ phase = "exiting"
         /\ \A j \in i + 1 .. Len(s) : s[j].type = "block.call"

(* The lines of a process start with its attach; it detaches at most once, *)
(* on exit; and after the detach only calls of the application's own exit  *)
(* listeners follow, because the wrappers stay.                            *)
LifecycleOrder == Bracketed(lines)

-----------------------------------------------------------------------------
(* The inductive invariants the proofs rest on (ProbeEventsProofs). They are *)
(* about what is recorded together with what the turn has still to append:  *)
(* a failed append loses the latter and ends recording.                     *)
Written == lines \o toWrite

InSession(valid) == inSession /\ phase # "preload" /\ (valid => settings = "valid")

StageInv ==
  /\ phase = "preload" =>
       /\ ~attachFlag /\ Written = <<>> /\ slow = 0 /\ totalHist = 0 /\ ahead = 0
       /\ \A r \in Requests : req[r] = "new"
       /\ \A q \in Queries : query[q].state = "idle"
       /\ \A x \in Exports : wraps[x] = -1
       /\ frames = <<>>
  /\ phase # "preload" => attachFlag
  /\ ~recordable => toWrite = <<>>
  /\ installed = IF InSession(TRUE) THEN Installed ELSE {}
  /\ "blocking-call" \in installed => wrappedApis = ToSet(Apis)
  /\ \A q \in Queries : query[q].observers <= 1
  /\ ~InSession(TRUE) =>
       /\ wrappedApis = {} /\ \A i \in DOMAIN frames : ~frames[i].watched
       /\ \A r \in Requests : store[r] = NoStore
       /\ \A q \in Queries : query[q].observers = 0
       /\ \A x \in Exports : wraps[x] < 1

(* Where a process is in its life, and what its lines then are.             *)
LifecycleInv ==
  /\ ~inSession => Written = <<>>
  /\ InSession(FALSE) /\ recordable => Written # <<>>
  /\ Bracketed(Written)

(* A store counts the queries its request has begun, as long as it is open. *)
QueryInv ==
  /\ \A r \in Requests : req[r] = "open" /\ store[r] # NoStore =>
                           store[r] = Cardinality(Counted(r))
  /\ \A q \in Queries :
       /\ query[q].inTime => query[q].by \in Requests /\ req[query[q].by] # "new"
       /\ query[q].state = "idle" => ~query[q].inTime
       /\ Works("http") /\ query[q].state # "idle" =>
            (query[q].scoped <=> query[q].by # NoRequest)
  /\ \A r \in Requests : /\ req[r] = "new" => store[r] = NoStore
                         /\ Works("http") /\ req[r] # "new" => store[r] # NoStore
  /\ \A i \in DOMAIN Written :
       /\ Written[i].type = "http.request" => req[Written[i].request] = "finished"
       /\ Written[i].type = "db.query" => query[Written[i].query].state = "done"
  /\ QueriesStay(Written)

(* What the windows lost: the first tick of each that had one.              *)
Balanced(sum, flushes, ticks) ==
  LET lost == (ticks + ahead) - sum IN
  0 <= lost /\ lost <= flushes /\ (lost = 0 => sum = 0)

LagInv ==
  /\ \A i \in DOMAIN Written :
       /\ Written[i].type = "loop.lag" => AddsUp(Written, i)
       /\ Written[i].type = "probe.detach" /\ "event-loop lag" \in installed =>
            /\ i > 1 /\ Written[i - 1].type = "loop.lag"
            /\ Written[i - 1].final /\ Written[i - 1].total = SamplesOf(totalHist)
  /\ recordable => Balanced(Samples(Written)[Len(Written)],
                            Cardinality(LagLines(Written, Len(Written))), totalHist)

(* Events of one kind, and how many of them are written.                    *)
OfType(type) == {e \in Event : e.type = type}
ForRequest(r) == {e \in OfType("http.request") : e.request = r}
ForQuery(q)  == {e \in OfType("db.query") : e.query = q}
Count(kind, s) == Cardinality({i \in DOMAIN s : s[i] \in kind})

CompleteInv ==
  /\ Works("blocking-call") => \A i \in DOMAIN frames : frames[i].watched
  /\ Works("db-query") => /\ \A x \in Exports : wraps[x] # -1 => wraps[x] = 1
                          /\ \A q \in Queries : query[q].state # "idle" =>
                                                  query[q].observers = 1
  /\ recordable =>
       /\ Count(OfType("probe.attach"), Written) = IF InSession(FALSE) THEN 1 ELSE 0
       /\ Works("blocking-call") => Count(OfType("block.call"), Written) = slow
       /\ Works("http") => \A r \in Requests :
            Count(ForRequest(r), Written) = IF req[r] = "finished" THEN 1 ELSE 0
       /\ Works("db-query") => \A q \in Queries :
            Count(ForQuery(q), Written) = IF query[q].state = "done" THEN 1 ELSE 0
=============================================================================
