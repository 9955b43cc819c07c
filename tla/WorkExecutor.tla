---------------------------- MODULE WorkExecutor ----------------------------
(***************************************************************************)
(* gfsim::WorkExecutor (include/gfsim/WorkExecutor.h): a pool of worker    *)
(* threads that runs one borrowed batch of work items at a time.           *)
(*                                                                         *)
(* Callers are the host threads that call run(); one further thread owns   *)
(* the executor and runs its constructor and destructor.  Workers is the   *)
(* set threads_.  An executor that is built with workers_ == 1 starts none *)
(* of them, and run() executes the batch on the calling thread.            *)
(*                                                                         *)
(* Everything guarded by mutex_ (items_, next_, pending_, errors_, stop_)  *)
(* is read and written only while mutex_ is held, so a critical section,   *)
(* including the predicate that a condition variable evaluates before it   *)
(* blocks, is one action.  A blocked thread may wake spuriously.           *)
(***************************************************************************)
EXTENDS Integers, FiniteSets

CONSTANTS Callers,    \* host threads that call run()
          Workers,    \* threads_
          MaxItems,   \* bound: the largest batch
          MaxRuns,    \* bound: calls of run() by each caller
          Owner,      \* the thread that constructs and destroys the executor
          NoThread    \* "no holder" of runMutex_

ASSUME ConstantsAssumption ==
  /\ IsFiniteSet(Workers)
  /\ MaxItems \in Nat
  /\ MaxRuns \in Nat
  /\ Owner \notin Callers
  /\ NoThread \notin Callers \cup {Owner}

VARIABLES
  life,      \* the owner thread: constructor, lifetime, destructor
  wpc,       \* program counter of each worker
  held,      \* index of the item a worker executes
  cpc,       \* program counter of each caller
  batch,     \* size of the batch a caller passed to run()
  outcome,   \* how the caller's last run() ended
  runs,      \* number of run() calls a caller has made
  at, first, \* runSerial: index of the next item, first exception so far
  runMutex,  \* holder of runMutex_
  items,     \* items_.size()
  next,      \* next_
  pending,   \* pending_
  errors,    \* errors_: which slots hold an exception
  stop,      \* stop_
  executed,  \* history: how often each item of the batch was executed
  threw      \* history: items of the batch whose Work threw

poolVars   == <<items, next, pending, errors>>
workerVars == <<wpc, held>>
callerVars == <<cpc, batch, outcome, runs, at, first>>
history    == <<executed, threw>>
vars == <<life, workerVars, callerVars, runMutex, poolVars, stop, history>>

Index == 0 .. MaxItems - 1
Nobody == -1       \* held[w] outside of an execution
Returned == -1     \* outcome: run() returned normally
Rejected == -2     \* outcome: std::invalid_argument, an item without callback
NoOutcome == -3    \* outcome: no run() has ended yet

\* workers_ == 1: a pool of which no thread was started.
Serial == \A w \in Workers : wpc[w] = "unborn"

Slots(n) == 0 .. n - 1

\* The exception that run() rethrows when the items in F threw.
FirstError(F) ==
  IF F = {} THEN Returned ELSE CHOOSE i \in F : \A j \in F : i <= j

\* Threads are where the code of the pool can be, and its indices, counts and
\* error slots stay within the batch.
TypeOK ==
  /\ life \in {"constructing", "aborting", "alive", "destroying", "stopped", "notified", "joined"}
  /\ wpc \in [Workers -> {"unborn", "ready", "blocked", "working", "nested", "resumed", "exited"}]
  /\ held \in [Workers -> Index \cup {Nobody}]
  /\ cpc \in [Callers -> {"idle", "enter", "locked", "serial", "nested", "resumed", "waiting", "notified"}]
  /\ batch \in [Callers -> 0 .. MaxItems]
  /\ outcome \in [Callers -> Index \cup {Returned, Rejected, NoOutcome}]
  /\ runs \in [Callers -> 0 .. MaxRuns]
  /\ at \in [Callers -> 0 .. MaxItems]
  /\ first \in [Callers -> Index \cup {Returned}]
  /\ runMutex \in Callers \cup {Owner, NoThread}
  /\ items \in 0 .. MaxItems
  /\ next \in 0 .. MaxItems
  /\ pending \in 0 .. MaxItems
  /\ errors \in SUBSET Index
  /\ stop \in BOOLEAN
  /\ executed \in [Index -> Nat]
  /\ threw \in SUBSET Index

\* With workers_ == 1 the constructor has nothing more to do.
Init ==
  /\ life \in {"constructing", "alive"}
  /\ wpc = [w \in Workers |-> "unborn"]
  /\ held = [w \in Workers |-> Nobody]
  /\ cpc = [c \in Callers |-> "idle"]
  /\ batch = [c \in Callers |-> 0]
  /\ outcome = [c \in Callers |-> NoOutcome]
  /\ runs = [c \in Callers |-> 0]
  /\ at = [c \in Callers |-> 0]
  /\ first = [c \in Callers |-> Returned]
  /\ runMutex = NoThread
  /\ items = 0 /\ next = 0 /\ pending = 0 /\ errors = {}
  /\ stop = FALSE
  /\ executed = [i \in Index |-> 0]
  /\ threw = {}

-----------------------------------------------------------------------------
(* Constructor and destructor, on the owner's thread.                      *)

\* threads_.emplace_back: a worker starts and will lock mutex_.
SpawnWorker(w) ==
  /\ life = "constructing"
  /\ wpc[w] = "unborn"
  /\ wpc' = [wpc EXCEPT ![w] = "ready"]
  /\ UNCHANGED <<life, held, callerVars, runMutex, poolVars, stop, history>>

\* The constructor returns once every thread exists.
Constructed ==
  /\ life = "constructing"
  /\ \A w \in Workers : wpc[w] # "unborn"
  /\ life' = "alive"
  /\ UNCHANGED <<workerVars, callerVars, runMutex, poolVars, stop, history>>

\* Thread creation throws: the constructor stops and joins what it started.
ConstructorThrows ==
  /\ life = "constructing"
  /\ \E w \in Workers : wpc[w] = "unborn"
  /\ life' = "aborting"
  /\ UNCHANGED <<workerVars, callerVars, runMutex, poolVars, stop, history>>

\* Mutant: the destructor does not lock runMutex_.
DestructorLocks_NoLock ==
  /\ life = "alive"
  /\ \A c \in Callers : cpc[c] # "enter"
  /\ life' = "destroying"
  /\ UNCHANGED <<runMutex, workerVars, callerVars, poolVars, stop, history>>

\* ~WorkExecutor locks runMutex_.  No caller may be on its way into run(), but
\* one may be inside it: the lock makes the destructor wait for that batch.
DestructorLocks ==
  /\ life = "alive"
  /\ \A c \in Callers : cpc[c] # "enter"
  /\ runMutex = NoThread
  /\ runMutex' = Owner
  /\ life' = "destroying"
  /\ UNCHANGED <<workerVars, callerVars, poolVars, stop, history>>

\* stopAndJoin: set stop_ under mutex_ ...
SetStop ==
  /\ life \in {"aborting", "destroying"}
  /\ stop' = TRUE
  /\ life' = "stopped"
  /\ UNCHANGED <<workerVars, callerVars, runMutex, poolVars, history>>

\* Mutant: stopAndJoin does not notify workReady_.
NotifyStop_Silent ==
  /\ life = "stopped"
  /\ life' = "notified"
  /\ UNCHANGED <<workerVars, callerVars, runMutex, poolVars, stop, history>>

\* ... then workReady_.notify_all(), after mutex_ was released ...
NotifyStop ==
  /\ life = "stopped"
  /\ wpc' = [w \in Workers |-> IF wpc[w] = "blocked" THEN "ready" ELSE wpc[w]]
  /\ life' = "notified"
  /\ UNCHANGED <<held, callerVars, runMutex, poolVars, stop, history>>

\* ... then join every thread that was started.
JoinAll ==
  /\ life = "notified"
  /\ \A w \in Workers : wpc[w] \in {"unborn", "exited"}
  /\ life' = "joined"
  /\ runMutex' = NoThread
  /\ UNCHANGED <<workerVars, callerVars, poolVars, stop, history>>

-----------------------------------------------------------------------------
(* run(), on a caller's thread.                                            *)

\* An item without a callback: rejected before any lock is taken.
RejectRun(c) ==
  /\ life = "alive"
  /\ cpc[c] = "idle"
  /\ runs[c] < MaxRuns
  /\ MaxItems > 0
  /\ runs' = [runs EXCEPT ![c] = @ + 1]
  /\ outcome' = [outcome EXCEPT ![c] = Rejected]
  /\ UNCHANGED <<life, workerVars, cpc, batch, at, first, runMutex, poolVars, stop, history>>

EnterRun(c, n) ==
  /\ life = "alive"
  /\ cpc[c] = "idle"
  /\ runs[c] < MaxRuns
  /\ runs' = [runs EXCEPT ![c] = @ + 1]
  /\ batch' = [batch EXCEPT ![c] = n]
  /\ cpc' = [cpc EXCEPT ![c] = "enter"]
  /\ UNCHANGED <<life, workerVars, outcome, at, first, runMutex, poolVars, stop, history>>

LockRunMutex(c) ==
  /\ cpc[c] = "enter"
  /\ runMutex = NoThread
  /\ runMutex' = c
  /\ cpc' = [cpc EXCEPT ![c] = "locked"]
  /\ UNCHANGED <<life, workerVars, batch, outcome, runs, at, first, poolVars, stop, history>>

\* Leave run(): runLock is released by its destructor.
Leave(c, result) ==
  /\ cpc' = [cpc EXCEPT ![c] = "idle"]
  /\ outcome' = [outcome EXCEPT ![c] = result]
  /\ runMutex' = NoThread
  /\ UNCHANGED <<batch, runs, at, first>>

\* workers_ == 1: runSerial executes every item in order on this thread ...
StartSerial(c) ==
  /\ cpc[c] = "locked"
  /\ Serial
  /\ cpc' = [cpc EXCEPT ![c] = "serial"]
  /\ at' = [at EXCEPT ![c] = 0]
  /\ first' = [first EXCEPT ![c] = Returned]
  /\ executed' = [i \in Index |-> 0]
  /\ threw' = {}
  /\ UNCHANGED <<life, workerVars, batch, outcome, runs, runMutex, poolVars, stop>>

\* (the Work of the current item calls run() on this same executor)
SerialNested(c) ==
  /\ cpc[c] = "serial"
  /\ at[c] < batch[c]
  /\ cpc' = [cpc EXCEPT ![c] = "nested"]
  /\ UNCHANGED <<life, workerVars, batch, outcome, runs, at, first, runMutex, poolVars, stop, history>>

\* active_ == this on a caller's thread: ActiveScope marks the serial batch.
CallerActive(c) == cpc[c] \in {"serial", "nested", "resumed"}

\* (which executes inline as on a worker, or would need the runMutex_ that this
\* very thread holds)
SerialNestedReturn(c) ==
  /\ cpc[c] = "nested"
  /\ CallerActive(c) \/ runMutex = NoThread
  /\ cpc' = [cpc EXCEPT ![c] = "resumed"]
  /\ UNCHANGED <<life, workerVars, batch, outcome, runs, at, first, runMutex, poolVars, stop, history>>

\* ... keeps the first exception and goes on ...
SerialItem(c, fails) ==
  /\ cpc[c] \in {"serial", "resumed"}
  /\ at[c] < batch[c]
  /\ cpc' = [cpc EXCEPT ![c] = "serial"]
  /\ at' = [at EXCEPT ![c] = @ + 1]
  /\ first' = [first EXCEPT ![c] = IF fails /\ @ = Returned THEN at[c] ELSE @]
  /\ executed' = [executed EXCEPT ![at[c]] = @ + 1]
  /\ threw' = IF fails THEN threw \cup {at[c]} ELSE threw
  /\ UNCHANGED <<life, workerVars, batch, outcome, runs, runMutex, poolVars, stop>>

\* ... and rethrows it after the last item.
SerialReturn(c) ==
  /\ cpc[c] = "serial"
  /\ at[c] = batch[c]
  /\ Leave(c, first[c])
  /\ UNCHANGED <<life, workerVars, poolVars, stop, history>>

ReturnEmpty(c) ==
  /\ cpc[c] = "locked"
  /\ ~Serial
  /\ batch[c] = 0
  /\ executed' = [i \in Index |-> 0]
  /\ threw' = {}
  /\ Leave(c, Returned)
  /\ UNCHANGED <<life, workerVars, poolVars, stop>>

\* Mutant: errors_ keeps the exceptions of the batch before.
PublishBatch_StaleErrors(c) ==
  /\ cpc[c] = "locked"
  /\ ~Serial
  /\ batch[c] > 0
  /\ items' = batch[c]
  /\ next' = 0
  /\ pending' = batch[c]
  /\ wpc' = [w \in Workers |-> IF wpc[w] = "blocked" THEN "ready" ELSE wpc[w]]
  /\ cpc' = [cpc EXCEPT ![c] = "waiting"]
  /\ executed' = [i \in Index |-> 0]
  /\ threw' = {}
  /\ UNCHANGED <<life, held, batch, outcome, runs, at, first, runMutex, errors, stop>>

\* Publish the batch under mutex_, notify_all, and block on complete_.
PublishBatch(c) ==
  /\ cpc[c] = "locked"
  /\ ~Serial
  /\ batch[c] > 0
  /\ errors' = {}
  /\ items' = batch[c]
  /\ next' = 0
  /\ pending' = batch[c]
  /\ wpc' = [w \in Workers |-> IF wpc[w] = "blocked" THEN "ready" ELSE wpc[w]]
  /\ cpc' = [cpc EXCEPT ![c] = "waiting"]
  /\ executed' = [i \in Index |-> 0]
  /\ threw' = {}
  /\ UNCHANGED <<life, held, batch, outcome, runs, at, first, runMutex, stop>>

\* complete_ may wake its waiter without a notification.
SpuriousCallerWake(c) ==
  /\ cpc[c] = "waiting"
  /\ cpc' = [cpc EXCEPT ![c] = "notified"]
  /\ UNCHANGED <<life, workerVars, batch, outcome, runs, at, first, runMutex, poolVars, stop, history>>

\* The waiter holds mutex_ again and finds pending_ # 0.
BlockAgain(c) ==
  /\ cpc[c] = "notified"
  /\ pending # 0
  /\ cpc' = [cpc EXCEPT ![c] = "waiting"]
  /\ UNCHANGED <<life, workerVars, batch, outcome, runs, at, first, runMutex, poolVars, stop, history>>

\* Mutant: run() waits until every item was taken, not until it was executed.
CollectBatch_AllTaken(c) ==
  /\ cpc[c] = "notified"
  /\ next = items
  /\ items' = 0
  /\ Leave(c, FirstError(errors))
  /\ UNCHANGED <<life, workerVars, next, pending, errors, stop, history>>

\* pending_ = 0: drop the borrowed items and rethrow the first error in order.
CollectBatch(c) ==
  /\ cpc[c] = "notified"
  /\ pending = 0
  /\ items' = 0
  /\ Leave(c, FirstError(errors))
  /\ UNCHANGED <<life, workerVars, next, pending, errors, stop, history>>

-----------------------------------------------------------------------------
(* workerLoop(), on a worker's thread.                                     *)

\* The predicate of workReady_.wait and what follows it, mutex_ held.
WaitOrTake(w) ==
  \/ /\ stop
     /\ wpc' = [wpc EXCEPT ![w] = "exited"]
     /\ held' = [held EXCEPT ![w] = Nobody]
     /\ UNCHANGED next
  \/ /\ ~stop
     /\ next < items
     /\ wpc' = [wpc EXCEPT ![w] = "working"]
     /\ held' = [held EXCEPT ![w] = next]
     /\ next' = next + 1
  \/ /\ ~stop
     /\ next >= items
     /\ wpc' = [wpc EXCEPT ![w] = "blocked"]
     /\ held' = [held EXCEPT ![w] = Nobody]
     /\ UNCHANGED next

\* A started or notified worker acquires mutex_ and evaluates the predicate.
WorkerWakes(w) ==
  /\ wpc[w] = "ready"
  /\ WaitOrTake(w)
  /\ UNCHANGED <<life, callerVars, runMutex, items, pending, errors, stop, history>>

SpuriousWorkerWake(w) ==
  /\ wpc[w] = "blocked"
  /\ wpc' = [wpc EXCEPT ![w] = "ready"]
  /\ UNCHANGED <<life, held, callerVars, runMutex, poolVars, stop, history>>

\* The item's Work calls run() on this same executor.
NestedRun(w) ==
  /\ wpc[w] = "working"
  /\ wpc' = [wpc EXCEPT ![w] = "nested"]
  /\ UNCHANGED <<life, held, callerVars, runMutex, poolVars, stop, history>>

\* Mutant: workerLoop has no ActiveScope.
ActiveIsThis_Never(w) == FALSE

\* active_ == this: ActiveScope marks the whole life of a pool thread.
ActiveIsThis(w) == wpc[w] \notin {"unborn", "exited"}

\* The nested run() executes inline when active_ == this and otherwise would
\* need runMutex_.  Its exception, if any, becomes that of the outer item.
NestedReturn(w) ==
  /\ wpc[w] = "nested"
  /\ ActiveIsThis(w) \/ runMutex = NoThread
  /\ wpc' = [wpc EXCEPT ![w] = "resumed"]
  /\ UNCHANGED <<life, held, callerVars, runMutex, poolVars, stop, history>>

\* item.work returned or threw; the worker locks mutex_, records the result in
\* its slot, counts the item down and loops to the wait.
FinishItem(w, fails) ==
  /\ wpc[w] \in {"working", "resumed"}
  /\ errors' = IF fails THEN errors \cup {held[w]} ELSE errors \ {held[w]}
  /\ pending' = pending - 1
  /\ cpc' = IF pending' = 0
            THEN [c \in Callers |-> IF cpc[c] = "waiting" THEN "notified" ELSE cpc[c]]
            ELSE cpc
  /\ executed' = [executed EXCEPT ![held[w]] = @ + 1]
  /\ threw' = IF fails THEN threw \cup {held[w]} ELSE threw
  /\ WaitOrTake(w)
  /\ UNCHANGED <<life, batch, outcome, runs, at, first, runMutex, items, stop>>

-----------------------------------------------------------------------------

OwnerStep ==
  \/ \E w \in Workers : SpawnWorker(w)
  \/ Constructed
  \/ ConstructorThrows
  \/ DestructorLocks
  \/ SetStop
  \/ NotifyStop
  \/ JoinAll

CallerStep(c) ==
  \/ RejectRun(c)
  \/ \E n \in 0 .. MaxItems : EnterRun(c, n)
  \/ LockRunMutex(c)
  \/ StartSerial(c)
  \/ SerialNested(c)
  \/ SerialNestedReturn(c)
  \/ \E fails \in BOOLEAN : SerialItem(c, fails)
  \/ SerialReturn(c)
  \/ ReturnEmpty(c)
  \/ PublishBatch(c)
  \/ SpuriousCallerWake(c)
  \/ BlockAgain(c)
  \/ CollectBatch(c)

WorkerStep(w) ==
  \/ WorkerWakes(w)
  \/ SpuriousWorkerWake(w)
  \/ NestedRun(w)
  \/ NestedReturn(w)
  \/ \E fails \in BOOLEAN : FinishItem(w, fails)

\* The executor is gone and no call can follow.
Terminated == life = "joined" /\ UNCHANGED vars

Next ==
  \/ OwnerStep
  \/ \E c \in Callers : CallerStep(c)
  \/ \E w \in Workers : WorkerStep(w)
  \/ Terminated

Spec == Init /\ [][Next]_vars

\* The scheduler runs every thread that can run, item callbacks return, and
\* nobody is obliged to call run(), to throw, or to destroy the executor.
CallerProgress(c) ==
  \/ LockRunMutex(c)
  \/ StartSerial(c)
  \/ SerialNestedReturn(c)
  \/ \E fails \in BOOLEAN : SerialItem(c, fails)
  \/ SerialReturn(c)
  \/ ReturnEmpty(c)
  \/ PublishBatch(c)
  \/ BlockAgain(c)
  \/ CollectBatch(c)

WorkerProgress(w) ==
  \/ WorkerWakes(w)
  \/ NestedReturn(w)
  \/ \E fails \in BOOLEAN : FinishItem(w, fails)

Fairness ==
  /\ \A c \in Callers : WF_vars(CallerProgress(c))
  /\ \A w \in Workers : WF_vars(WorkerProgress(w))
  /\ WF_vars(SetStop \/ NotifyStop \/ JoinAll)

FairSpec == Spec /\ Fairness

-----------------------------------------------------------------------------
(* Properties.                                                             *)

Executing(w) == wpc[w] \in {"working", "nested", "resumed"}
InBatch(c) == cpc[c] \in {"waiting", "notified"}
InRun(c) == InBatch(c) \/ CallerActive(c)

\* The items that have not been counted down: not taken yet, or being executed.
Outstanding ==
  (next .. items - 1) \cup {held[w] : w \in {v \in Workers : Executing(v)}}

\* pending_ always equals the number of items that are not finished, so
\* complete_ is signalled exactly when the last item of the batch finishes,
\* whatever the order in which the workers take and finish items.
PendingCountsOutstanding == pending = Cardinality(Outstanding)

\* "Tasks and their instances are borrowed and must remain valid until run
\* returns" (WorkExecutor.h:20): a worker executes an item only while the caller
\* that published it is still inside run() and holds runMutex_, and two workers
\* never execute the same item.
BorrowedWhileExecuting ==
  \A w \in Workers : Executing(w) =>
    /\ held[w] \in Slots(items)
    /\ \E c \in Callers : InBatch(c) /\ runMutex = c
    /\ \A v \in Workers \ {w} : Executing(v) => held[v] # held[w]

\* When run() leaves a batch, on the pool or serial, every item was executed
\* exactly once and the exception rethrown is the one of the lowest failing
\* index: the result does not depend on the number of workers, on which of them
\* failed first, or on the failures of earlier batches.
BatchResult ==
  [][\A c \in Callers :
       InRun(c) /\ ~InRun(c)' =>
         /\ \A i \in Slots(batch[c]) : executed[i] = 1
         /\ outcome'[c] = FirstError(threw)]_vars

\* The destructor holds runMutex_ while it stops the pool: no batch is cut
\* short, and once the threads are joined none of them still executes an item.
DestroyedIsQuiet ==
  life \in {"aborting", "destroying", "stopped", "notified", "joined"} =>
    /\ pending = 0
    /\ \A c \in Callers : cpc[c] = "idle"
    /\ \A w \in Workers : ~Executing(w)
    /\ life = "joined" => \A w \in Workers : wpc[w] \in {"unborn", "exited"}

\* Every call of run() returns: no wakeup is lost between the predicate and
\* the wait, and a batch nested in an item waits neither for its own worker nor,
\* when the executor has none, for the runMutex_ of its own caller.
RunReturns == \A c \in Callers : cpc[c] = "enter" ~> cpc[c] = "idle"

\* Stopping always joins: a worker that blocks concurrently with stop_ is woken.
StopJoins == life \in {"aborting", "destroying"} ~> life = "joined"

=============================================================================
