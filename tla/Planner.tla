------------------------------ MODULE Planner ------------------------------
(***************************************************************************)
(* motion_planning/planner.cpp: a background thread that serves planning   *)
(* requests from a single slot guarded by request_mutex_ and               *)
(* request_cv_.                                                            *)
(*                                                                         *)
(* Three kinds of thread take steps: the owner, which calls start and stop *)
(* (the header makes only requestPlan thread-safe, so the owner is one     *)
(* thread); the clients, which call requestPlan at any time; and the       *)
(* worker, which runs planningLoop.  A step is the code between two points *)
(* where another thread can intervene: an atomic access, a lock, an        *)
(* unlock, a wait, a notify or a join.  A request's contents play no part  *)
(* here: a request is its position in the order requests were stored.      *)
(***************************************************************************)
EXTENDS Naturals

CONSTANTS
    Clients,      \* the threads that call requestPlan
    MaxRequests,  \* bound on the requests made in a behaviour
    MaxStarts     \* bound on the calls of start that spawn a thread

ASSUME PlannerAssumption == MaxRequests \in Nat /\ MaxStarts \in Nat

VARIABLES
    running,    \* running_
    mutex,      \* who holds request_mutex_: "free", "client" or "worker"
    pending,    \* pending_request_ (None: nullopt)
    opc,        \* where the owner is: "idle" between calls
    cpc,        \* where each client is in requestPlan: "idle" between calls,
                \* "thrown" after a call that ended in an exception
    wpc,        \* where the worker is: "none" when thread_ is not joinable
    request,    \* the request the worker took last
    stored,     \* history: how many requests have been stored
    delivered,  \* history: the last request whose trajectory was handed on
    starts      \* history: threads asked for, for the bound MaxStarts

ownerVars   == <<opc, starts>>
requestVars == <<pending, stored>>
workerVars  == <<request, delivered>>
vars == <<running, mutex, pending, opc, cpc, wpc, request, stored, delivered,
          starts>>

None == 0
Requests == 1 .. MaxRequests

\* Where the worker holds request_mutex_.
Holding == {"predicate", "block", "check"}

\* Where the worker is planning for the request it took.
Planning == {"ik", "ompl", "callback"}

-----------------------------------------------------------------------------
(* The owner: start and stop. *)

Init ==
    /\ running = FALSE
    /\ mutex = "free"
    /\ pending = None
    /\ opc = "idle"
    /\ cpc = [c \in Clients |-> "idle"]
    /\ wpc = "none"
    /\ request = None
    /\ stored = 0
    /\ delivered = None
    /\ starts = 0

\* start() up to the creation of the thread; a running planner is left alone.
Start ==
    /\ opc = "idle"
    /\ starts < MaxStarts
    /\ running' = TRUE
    /\ IF running THEN UNCHANGED ownerVars
                  ELSE opc' = "spawn" /\ starts' = starts + 1
    /\ UNCHANGED <<mutex, requestVars, cpc, wpc, workerVars>>

\* std::thread's constructor succeeds and the handle is stored in thread_.
Spawn ==
    /\ opc = "spawn"
    /\ opc' = "idle"
    /\ wpc' = "loop"
    /\ UNCHANGED <<running, mutex, requestVars, cpc, workerVars, starts>>

\* std::thread's constructor throws: start() exits with running_ still true.
SpawnFails ==
    /\ opc = "spawn"
    /\ opc' = "idle"
    /\ UNCHANGED <<running, mutex, requestVars, cpc, wpc, workerVars, starts>>

\* stop() up to the notification; a planner that is not running is left alone.
Stop ==
    /\ opc = "idle"
    /\ running' = FALSE
    /\ opc' = IF running THEN "notify" ELSE "idle"
    /\ UNCHANGED <<mutex, requestVars, cpc, wpc, workerVars, starts>>

\* The worker after a notify_one or notify_all: woken if it is in the wait set.
Notified(pc) == IF pc = "waiting" THEN "lock" ELSE pc

\* stop() without notify_all.
StopNotifiesNobody ==
    /\ opc = "notify"
    /\ opc' = "join"
    /\ UNCHANGED <<running, mutex, requestVars, cpc, wpc, workerVars, starts>>

\* request_cv_.notify_all(), called without request_mutex_.
StopNotify ==
    /\ opc = "notify"
    /\ opc' = "join"
    /\ wpc' = Notified(wpc)
    /\ UNCHANGED <<running, mutex, requestVars, cpc, workerVars, starts>>

\* stop() that does not wait for the thread.
DetachInsteadOfJoin ==
    /\ opc = "join"
    /\ opc' = "idle"
    /\ UNCHANGED <<running, mutex, requestVars, cpc, wpc, workerVars, starts>>

\* if joinable, join: returns once the worker has left planningLoop.
Join ==
    /\ opc = "join"
    /\ wpc \in {"none", "done"}
    /\ opc' = "idle"
    /\ wpc' = "none"
    /\ UNCHANGED <<running, mutex, requestVars, cpc, workerVars, starts>>

-----------------------------------------------------------------------------
(* The clients: requestPlan. *)

\* The lock guard is missing: two clients can be between lock and unlock.
RequestLockUnguarded(c) ==
    /\ cpc[c] = "idle"
    /\ stored < MaxRequests
    /\ mutex' = "client"
    /\ cpc' = [cpc EXCEPT ![c] = "store"]
    /\ UNCHANGED <<running, requestVars, ownerVars, wpc, workerVars>>

\* request_mutex_ is locked for the store.
RequestLock(c) ==
    /\ cpc[c] = "idle"
    /\ mutex = "free"
    /\ stored < MaxRequests
    /\ mutex' = "client"
    /\ cpc' = [cpc EXCEPT ![c] = "store"]
    /\ UNCHANGED <<running, requestVars, ownerVars, wpc, workerVars>>

\* First request wins: a waiting request is not replaced.
StoreOnlyIfEmpty(c) ==
    /\ cpc[c] = "store"
    /\ pending' = IF pending = None THEN stored + 1 ELSE pending
    /\ stored' = stored + 1
    /\ mutex' = "free"
    /\ cpc' = [cpc EXCEPT ![c] = "notify"]
    /\ UNCHANGED <<running, ownerVars, wpc, workerVars>>

\* The slot is overwritten and the lock guard releases the mutex.
RequestStore(c) ==
    /\ cpc[c] = "store"
    /\ pending' = stored + 1
    /\ stored' = stored + 1
    /\ mutex' = "free"
    /\ cpc' = [cpc EXCEPT ![c] = "notify"]
    /\ UNCHANGED <<running, ownerVars, wpc, workerVars>>

\* Copying q_current into the request throws: the slot keeps what it had, the lock
\* guard releases the mutex and nobody is notified.  A client whose call threw
\* makes no other, which bounds the calls that throw.
RequestStoreThrows(c) ==
    /\ cpc[c] = "store"
    /\ mutex' = "free"
    /\ cpc' = [cpc EXCEPT ![c] = "thrown"]
    /\ UNCHANGED <<running, requestVars, ownerVars, wpc, workerVars>>

\* requestPlan() without notify_one.
RequestNotifiesNobody(c) ==
    /\ cpc[c] = "notify"
    /\ cpc' = [cpc EXCEPT ![c] = "idle"]
    /\ UNCHANGED <<running, mutex, requestVars, ownerVars, wpc, workerVars>>

\* request_cv_.notify_one(), after the unlock.
RequestNotify(c) ==
    /\ cpc[c] = "notify"
    /\ cpc' = [cpc EXCEPT ![c] = "idle"]
    /\ wpc' = Notified(wpc)
    /\ UNCHANGED <<running, mutex, requestVars, ownerVars, workerVars>>

-----------------------------------------------------------------------------
(* The worker: planningLoop. *)

\* while (running_.load())
LoopHead ==
    /\ wpc = "loop"
    /\ wpc' = IF running THEN "lock" ELSE "done"
    /\ UNCHANGED <<running, mutex, requestVars, ownerVars, cpc, workerVars>>

\* Acquire the mutex: on entry to the block, or when wait() returns to its loop.
AcquireMutex ==
    /\ wpc = "lock"
    /\ mutex = "free"
    /\ mutex' = "worker"
    /\ wpc' = "predicate"
    /\ UNCHANGED <<running, requestVars, ownerVars, cpc, workerVars>>

\* The mutex is released between the predicate and the wait.
UnlockThenBlock ==
    /\ wpc = "predicate"
    /\ wpc' = IF ~running \/ pending # None THEN "check" ELSE "block"
    /\ mutex' = IF ~running \/ pending # None THEN "worker" ELSE "free"
    /\ UNCHANGED <<running, requestVars, ownerVars, cpc, workerVars>>

\* The lambda given to wait(): stop waiting when stopped or when there is work.
EvalPredicate ==
    /\ wpc = "predicate"
    /\ wpc' = IF ~running \/ pending # None THEN "check" ELSE "block"
    /\ UNCHANGED <<running, mutex, requestVars, ownerVars, cpc, workerVars>>

\* wait() releases the mutex and joins the wait set in one step.
Block ==
    /\ wpc = "block"
    /\ mutex' = "free"
    /\ wpc' = "waiting"
    /\ UNCHANGED <<running, requestVars, ownerVars, cpc, workerVars>>

\* The standard lets wait() return with no notification.
SpuriousWakeup ==
    /\ wpc = "waiting"
    /\ wpc' = "lock"
    /\ UNCHANGED <<running, mutex, requestVars, ownerVars, cpc, workerVars>>

\* if (!running_.load()) break: leave the loop; the slot keeps its request.
LeaveLoop ==
    /\ wpc = "check"
    /\ ~running
    /\ mutex' = "free"
    /\ wpc' = "done"
    /\ UNCHANGED <<running, requestVars, ownerVars, cpc, workerVars>>

\* pending_request_.reset() is missing.
TakeWithoutReset ==
    /\ wpc = "check"
    /\ running
    /\ mutex' = "free"
    /\ request' = pending
    /\ wpc' = "ik"
    /\ UNCHANGED <<running, requestVars, ownerVars, cpc, delivered>>

\* Empty the slot and unlock; with an empty slot there is nothing to plan.
Take ==
    /\ wpc = "check"
    /\ running
    /\ mutex' = "free"
    /\ pending' = None
    /\ request' = IF pending = None THEN request ELSE pending
    /\ wpc' = IF pending = None THEN "loop" ELSE "ik"
    /\ UNCHANGED <<running, stored, ownerVars, cpc, delivered>>

\* model_.ik: on failure the request is dropped.
SolveIK ==
    /\ wpc = "ik"
    /\ wpc' \in {"ompl", "loop"}
    /\ UNCHANGED <<running, mutex, requestVars, ownerVars, cpc, workerVars>>

\* runOMPL and, for a non-empty path, fitCubicSpline.
PlanPath ==
    /\ wpc = "ompl"
    /\ wpc' \in {"callback", "loop"}
    /\ UNCHANGED <<running, mutex, requestVars, ownerVars, cpc, workerVars>>

\* callback_(trajectory)
Callback ==
    /\ wpc = "callback"
    /\ delivered' = request
    /\ wpc' = "loop"
    /\ UNCHANGED <<running, mutex, requestVars, ownerVars, cpc, request>>

-----------------------------------------------------------------------------
Owner == Start \/ Spawn \/ SpawnFails \/ Stop \/ StopNotify \/ Join

Client(c) ==
    RequestLock(c) \/ RequestStore(c) \/ RequestStoreThrows(c) \/ RequestNotify(c)

\* The worker's steps that its scheduler owes it.
WorkerStep ==
    \/ LoopHead \/ AcquireMutex \/ EvalPredicate \/ Block
    \/ LeaveLoop \/ Take \/ SolveIK \/ PlanPath \/ Callback

Next == Owner \/ (\E c \in Clients : Client(c)) \/ WorkerStep \/ SpuriousWakeup

Spec == Init /\ [][Next]_vars

\* A thread that can run does run, and IK and OMPL return (both are bounded in
\* the code).  Nobody owes the program a call of start, stop or requestPlan, a
\* failure to spawn or to copy a request, or a spurious wakeup.
Fairness ==
    /\ WF_vars(Spawn) /\ WF_vars(StopNotify) /\ WF_vars(Join)
    /\ \A c \in Clients : WF_vars(RequestStore(c)) /\ WF_vars(RequestNotify(c))
    /\ WF_vars(WorkerStep)

FairSpec == Spec /\ Fairness

-----------------------------------------------------------------------------
(* Properties. *)

\* The values each variable takes.
TypeOK ==
    /\ running \in BOOLEAN
    /\ mutex \in {"free", "client", "worker"}
    /\ pending \in 0 .. MaxRequests
    /\ opc \in {"idle", "spawn", "notify", "join"}
    /\ cpc \in [Clients -> {"idle", "store", "notify", "thrown"}]
    /\ wpc \in {"none", "loop", "lock", "predicate", "block", "waiting", "check",
                "ik", "ompl", "callback", "done"}
    /\ request \in 0 .. MaxRequests
    /\ stored \in 0 .. MaxRequests
    /\ delivered \in 0 .. MaxRequests
    /\ starts \in 0 .. MaxStarts

\* Once stop() has returned no planning thread is left, so no callback can come
\* after it, and start() never assigns over a joinable std::thread (which would
\* terminate the program).  planner.cpp:19-34.
QuietAfterStop ==
    /\ opc = "idle" /\ ~running => wpc = "none"
    /\ opc = "spawn" => wpc = "none"

\* A request is never left in the slot with the worker asleep and nobody about
\* to wake it, although requestPlan notifies after it has released the mutex.
\* planner.cpp:36-55.
NoLostRequestWakeup ==
    wpc = "waiting" /\ pending # None => \E c \in Clients : cpc[c] = "notify"

\* The newest request is in the slot or was the last one taken: neither a stop,
\* a restart nor a failed plan loses it in between.  planner.cpp:41, 61-64.
LatestRequestKept == stored = IF pending # None THEN pending ELSE request

\* Past the predicate and still running, the worker always finds a request, so
\* the second test of the slot (planner.cpp:61, 67-69) never fails.
NeverEmptyHanded == wpc = "check" /\ running => pending # None

\* request_mutex_ is held exactly where the code holds it.
MutexHeld ==
    /\ mutex = "worker" <=> wpc \in Holding
    /\ mutex = "client" <=> \E c \in Clients : cpc[c] = "store"
    /\ \A c, d \in Clients : cpc[c] = "store" /\ cpc[d] = "store" => c = d
    /\ mutex = "client" => stored < MaxRequests

\* The owner inside a call, against running_ and the thread.
OwnerInCall ==
    /\ opc = "spawn" => running
    /\ opc \in {"notify", "join"} => ~running

\* The slot, against the request taken before and the worker's decision to wait.
SlotAhead ==
    /\ pending # None => request < pending
    /\ wpc = "block" => pending = None

\* All of the above: together they are inductive, which no part is alone.
Inductive ==
    /\ TypeOK /\ QuietAfterStop /\ NoLostRequestWakeup /\ LatestRequestKept
    /\ NeverEmptyHanded /\ MutexHeld /\ OwnerInCall /\ SlotAhead

\* The worker gets to every request that is not replaced while it lives.
RequestServed ==
    \A n \in Requests :
        (pending = n /\ running /\ wpc \notin {"none", "done"})
            ~> (pending # n \/ ~running)

\* stop() returns whenever it does not fall between the worker's evaluation of
\* the predicate and its entry into the wait set.  planner.cpp:26-34, 52-55.
StopReturnsIfHeard == (opc = "notify" /\ wpc # "block") ~> (opc = "idle")

\* planner.hpp:53, "Stop the planning thread and join": every call returns.
StopAlwaysReturns == (opc = "join") ~> (opc = "idle")

\* planner.hpp:44-45, "latest request wins", in the sense the code gives it: a
\* plan is begun for the newest request only, and deliveries follow that order.
Service == INSTANCE PlanService WITH
    latest <- stored, begun <- request, busy <- (wpc \in Planning)

ImplementsService == Service!ServiceSpec
=============================================================================
