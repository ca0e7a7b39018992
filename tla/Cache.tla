------------------------------- MODULE Cache -------------------------------
(***************************************************************************)
(* The lifecycle of cache.Cache (src/cache/cache.go): Init, Start and Stop *)
(* called by the goroutines of a service, the polling goroutines that      *)
(* Start spawns, the mutex, the contexts, and the Kafka client they share. *)
(*                                                                         *)
(* Init, Ready and Start read and write status and cancelFunc without the  *)
(* mutex; the polling goroutine and Stop take it.  The n-th Start creates  *)
(* context n and polling goroutine n.  A fetched record is its offset.     *)
(***************************************************************************)
EXTENDS Naturals, FiniteSets

CONSTANTS Callers,     \* the goroutines of the service that use the cache
          Patient,     \* TRUE: a caller waits until a Start has taken effect
                       \* before it calls again, as cache_test.go does
          MaxStarts,   \* bound: calls of Start that spawn a goroutine
          MaxRecords,  \* bound: records in the topic
          MaxPoll      \* maxPollRecords

ASSUME CacheAssumption ==
  /\ IsFiniteSet(Callers) /\ Patient \in BOOLEAN
  /\ MaxStarts \in Nat /\ MaxRecords \in Nat /\ MaxPoll \in Nat

Loops == 1 .. MaxStarts
Nobody == 0

VARIABLES status,       \* Cache.status
          cancelFunc,   \* the context that Cache.cancelFunc cancels, 0: nil
          starts,       \* goroutines spawned so far
          cancelled,    \* contexts whose cancel function was called
          parentDone,   \* the context passed to Start is done
          mu,           \* the loop that holds Cache.mu while it processes
          caller,       \* caller[t]: "ready", or "starting" within Start
          loop,         \* loop[i]: where polling goroutine i is
          inflight,     \* inflight[i]: offsets i has polled, not yet processed
          polled,       \* offsets handed out by the client
          processed,    \* offsets that processFunc has put into records
          failed,       \* offsets whose processFunc returned an error
          committed,    \* the offset that is committed for the consumer group
          closed        \* client.Close was called

vars == <<status, cancelFunc, starts, cancelled, parentDone, mu, caller, loop,
          inflight, polled, processed, failed, committed, closed>>
lifecycle == <<cancelFunc, starts, cancelled, parentDone, caller>>
data == <<inflight, polled, processed, failed, committed, closed>>

Init ==
  /\ status = "notready"
  /\ cancelFunc = 0
  /\ starts = 0
  /\ cancelled = {}
  /\ parentDone = FALSE
  /\ mu = Nobody
  /\ caller = [t \in Callers |-> "ready"]
  /\ loop = [i \in Loops |-> "none"]
  /\ inflight = [i \in Loops |-> {}]
  /\ polled = {}
  /\ processed = {}
  /\ failed = {}
  /\ committed = 0
  /\ closed = FALSE

\* ctx.Done() of the i-th context, which derives from the parent.
Done(i) == parentDone \/ i \in cancelled

Alive(i) == loop[i] \notin {"none", "gone"}

\* No Start is on its way to setting the status.
Settled == /\ \A t \in Callers : caller[t] = "ready"
           /\ \A i \in Loops : loop[i] # "spawned"

\* The client has offsets to commit.
Uncommitted == committed < Cardinality(polled)

-----------------------------------------------------------------------------
(* The callers                                                             *)

\* Init: with the given client or a new one, status = StatusReady, whatever
\* the status was.
InitCache(t) ==
  /\ caller[t] = "ready"
  /\ Patient => status = "notready"
  /\ status' = "ready"
  /\ UNCHANGED <<mu, loop, lifecycle, data>>

\* Start: neither of the two errors, read without the mutex.
StartChecks(t) ==
  /\ caller[t] = "ready"
  /\ starts + Cardinality({s \in Callers : caller[s] = "starting"}) < MaxStarts
  /\ Patient => Settled
  /\ status \notin {"notready", "running"}
  /\ caller' = [caller EXCEPT ![t] = "starting"]
  /\ UNCHANGED <<status, cancelFunc, starts, cancelled, parentDone, mu, loop, data>>

\* The rest of Start: a new context, its cancel function, a new goroutine.
StartSpawns(t) ==
  /\ caller[t] = "starting"
  /\ caller' = [caller EXCEPT ![t] = "ready"]
  /\ starts' = starts + 1
  /\ cancelFunc' = starts'
  /\ loop' = [loop EXCEPT ![starts'] = "spawned"]
  /\ UNCHANGED <<status, cancelled, parentDone, mu, data>>

\* Mutants of Stop: one that does not cancel, one that forgets the status.
StopStatusOnly(t) ==
  /\ caller[t] = "ready"
  /\ mu = Nobody
  /\ cancelFunc # 0
  /\ Patient => Settled /\ status = "running"
  /\ status' = "stopped"
  /\ UNCHANGED <<lifecycle, mu, loop, data>>

StopKeepsStatus(t) ==
  /\ caller[t] = "ready"
  /\ mu = Nobody
  /\ cancelFunc # 0
  /\ Patient => Settled /\ status = "running"
  /\ cancelled' = cancelled \cup {cancelFunc}
  /\ UNCHANGED <<status, cancelFunc, starts, parentDone, mu, caller, loop, data>>

\* Stop, under the mutex.  A Stop before any Start would call a nil function
\* and is not made here.
Stop(t) ==
  /\ caller[t] = "ready"
  /\ mu = Nobody
  /\ cancelFunc # 0
  /\ Patient => Settled /\ status = "running"
  /\ status' = "stopped"
  /\ cancelled' = cancelled \cup {cancelFunc}
  /\ UNCHANGED <<cancelFunc, starts, parentDone, mu, caller, loop, data>>

\* The service shuts down: the context it passed to Start is done.
ParentDone ==
  /\ ~parentDone
  /\ parentDone' = TRUE
  /\ UNCHANGED <<status, cancelFunc, starts, cancelled, mu, caller, loop, data>>

-----------------------------------------------------------------------------
(* The polling goroutine, start(ctx)                                       *)

Goto(i, place) == loop' = [loop EXCEPT ![i] = place]

\* It sets the status first, under the mutex.
SetRunning(i) ==
  /\ loop[i] = "spawned"
  /\ mu = Nobody
  /\ status' = "running"
  /\ Goto(i, "select")
  /\ UNCHANGED <<mu, lifecycle, data>>

\* select: the default branch.
GoOn(i) ==
  /\ loop[i] = "select"
  /\ ~Done(i)
  /\ Goto(i, "poll")
  /\ UNCHANGED <<status, mu, lifecycle, data>>

\* PollRecords returns the next records, if any; none from a closed client.
Poll(i) ==
  /\ loop[i] = "poll"
  /\ \E n \in 0 .. IF closed THEN 0 ELSE MaxPoll :
       LET first == Cardinality(polled) + 1
           got == first .. first + n - 1
       IN  /\ got \subseteq 1 .. MaxRecords
           /\ inflight' = [inflight EXCEPT ![i] = got]
           /\ polled' = polled \cup got
  /\ Goto(i, "lock")
  /\ UNCHANGED <<status, mu, lifecycle, processed, failed, committed, closed>>

\* Mutant of Lock: a goroutine that finds its context done after the poll goes
\* back to the select at once.
LockOrDrop(i) ==
  /\ loop[i] = "lock"
  /\ mu = Nobody
  /\ IF Done(i)
     THEN /\ inflight' = [inflight EXCEPT ![i] = {}]
          /\ Goto(i, "select")
          /\ UNCHANGED mu
     ELSE /\ mu' = i
          /\ Goto(i, "process")
          /\ UNCHANGED inflight
  /\ UNCHANGED <<status, lifecycle, polled, processed, failed, committed, closed>>

Lock(i) ==
  /\ loop[i] = "lock"
  /\ mu = Nobody
  /\ mu' = i
  /\ Goto(i, "process")
  /\ UNCHANGED <<status, lifecycle, data>>

\* processFunc, which may commit through the client it is given.  Its error is
\* only logged; the records are not polled again.
Process(i) ==
  /\ loop[i] = "process"
  /\ \/ /\ processed' = processed \cup inflight[i]
        /\ \/ UNCHANGED committed
           \/ committed' = Cardinality(polled)
        /\ UNCHANGED failed
     \/ /\ failed' = failed \cup inflight[i]
        /\ UNCHANGED <<processed, committed>>
  /\ inflight' = [inflight EXCEPT ![i] = {}]
  /\ mu' = Nobody
  /\ Goto(i, "select")
  /\ UNCHANGED <<status, lifecycle, polled, closed>>

\* Mutant of Leave: only with all offsets committed.
LeaveWhenCommitted(i) ==
  /\ loop[i] = "select"
  /\ Done(i)
  /\ ~Uncommitted
  /\ Goto(i, "gone")
  /\ UNCHANGED <<status, mu, lifecycle, data>>

\* select: ctx.Done().  The deferred commit uses the same context: it fails
\* when there is something to commit, and then the client is closed.
Leave(i) ==
  /\ loop[i] = "select"
  /\ Done(i)
  /\ closed' = (closed \/ Uncommitted)
  /\ Goto(i, "gone")
  /\ UNCHANGED <<status, mu, lifecycle, inflight, polled, processed, failed,
                 committed>>

\* The client commits by itself, every few seconds, some of what was polled: Init
\* and NewClient leave autocommit on.
AutoCommit ==
  /\ ~closed
  /\ \E n \in committed + 1 .. Cardinality(polled) : committed' = n
  /\ UNCHANGED <<status, mu, loop, lifecycle, inflight, polled, processed, failed, closed>>

-----------------------------------------------------------------------------
LoopStep(i) ==
  SetRunning(i) \/ GoOn(i) \/ Poll(i) \/ Lock(i) \/ Process(i) \/ Leave(i)

CallerStep(t) == InitCache(t) \/ StartChecks(t) \/ StartSpawns(t) \/ Stop(t)

Next ==
  \/ ParentDone \/ AutoCommit
  \/ \E t \in Callers : CallerStep(t)
  \/ \E i \in Loops : LoopStep(i)

Spec == Init /\ [][Next]_vars

\* Goroutines keep running; Go's mutex does not starve a goroutine.
Fairness ==
  /\ \A i \in Loops : /\ WF_vars(GoOn(i) \/ Poll(i) \/ Process(i) \/ Leave(i))
                      /\ SF_vars(SetRunning(i) \/ Lock(i))
  /\ \A t \in Callers : WF_vars(StartSpawns(t))

FairSpec == Spec /\ Fairness

-----------------------------------------------------------------------------
(* Properties                                                              *)

\* The variables have their types.
TypeOK ==
  /\ status \in {"notready", "ready", "running", "stopped"}
  /\ starts \in 0 .. MaxStarts /\ cancelFunc \in 0 .. starts
  /\ cancelled \subseteq 1 .. starts
  /\ parentDone \in BOOLEAN
  /\ mu \in Loops \cup {Nobody}
  /\ caller \in [Callers -> {"ready", "starting"}]
  /\ loop \in [Loops -> {"none", "spawned", "select", "poll", "lock", "process", "gone"}]
  /\ inflight \in [Loops -> SUBSET (1 .. MaxRecords)]
  /\ polled \subseteq 1 .. MaxRecords
  /\ processed \subseteq polled /\ failed \subseteq polled
  /\ committed \in 0 .. Cardinality(polled) /\ closed \in BOOLEAN

\* Each polled record is with exactly one goroutine, in the cache, or given up
\* with a logged error: a Stop or a second goroutine never drops or doubles one.
EveryRecordAccounted ==
  /\ polled = processed \cup failed \cup UNION {inflight[i] : i \in Loops}
  /\ processed \cap failed = {}
  /\ \A i \in Loops : /\ inflight[i] \cap (processed \cup failed) = {}
                      /\ \A j \in Loops \ {i} : inflight[i] \cap inflight[j] = {}
                      /\ ~Alive(i) => inflight[i] = {}

\* With callers that wait for a Start to take effect, only the newest goroutine
\* has a context that is not cancelled, and Stop can still reach it.
OneStoppableLoop ==
  \A i \in Loops : Alive(i) /\ i \notin cancelled => i = cancelFunc

\* With such callers the status tells the truth: StatusRunning, unless the
\* service is shutting down, means a goroutine that goes on polling.
RunningMeansPolling ==
  status = "running" /\ ~parentDone =>
    \E i \in Loops : Alive(i) /\ loop[i] # "spawned" /\ ~Done(i)

\* A stopped cache goes quiet: every goroutine ends, in whatever it is doing,
\* unless the cache is started again.
StoppedGoesQuiet ==
  status = "stopped" ~> (status # "stopped" \/ \A i \in Loops : ~Alive(i))

\* cache_test.go: "Cache should not be startable if already running".
NotStartableWhileStarted ==
  [][\A t \in Callers :
       caller[t] = "ready" /\ caller'[t] = "starting" =>
         \A i \in Loops : Alive(i) => Done(i)]_vars
=============================================================================
