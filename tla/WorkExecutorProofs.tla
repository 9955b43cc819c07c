-------------------------- MODULE WorkExecutorProofs --------------------------
(***************************************************************************)
(* Proofs about module WorkExecutor, for every number of callers, workers, *)
(* items and runs.                                                         *)
(***************************************************************************)
EXTENDS WorkExecutor, FiniteSetTheorems, WellFoundedInduction, TLAPS

\* Who is inside run(), against the state of runMutex_ and of the owner.
MutexInv ==
  /\ \A c \in Callers : runMutex = c <=> cpc[c] \in {"locked", "waiting", "notified"} \/ CallerActive(c)
  /\ life # "alive" => \A c \in Callers : cpc[c] = "idle"
  /\ stop => life \notin {"constructing", "aborting", "alive", "destroying"}

\* What the pool holds of the published batch, and that it holds nothing
\* between two batches.
BatchInv ==
  /\ \A c \in Callers : InBatch(c) => items = batch[c] /\ next <= items
  /\ (\A c \in Callers : ~InBatch(c)) => items = 0 /\ \A w \in Workers : ~Executing(w)
  /\ \A w \in Workers : Executing(w) => held[w] \in Slots(next) /\ held[w] \in Slots(items)
  /\ \A v, w \in Workers : v # w /\ Executing(v) /\ Executing(w) => held[v] # held[w]
  /\ PendingCountsOutstanding

\* m is what run() rethrows after the items in F threw.
IsFirstError(m, F) ==
  IF F = {} THEN m = Returned ELSE m \in F /\ \A i \in F : m <= i

\* The history of the batch against the slots of errors_ and the locals of
\* runSerial.
HistoryInv ==
  /\ \A c \in Callers : InBatch(c) =>
       /\ \A i \in Slots(items) : executed[i] = IF i \in Outstanding THEN 0 ELSE 1
       /\ errors = threw
       /\ errors \subseteq Slots(items) \ Outstanding
  /\ \A c \in Callers : CallerActive(c) =>
       /\ at[c] <= batch[c]
       /\ \A i \in Slots(batch[c]) : executed[i] = IF i < at[c] THEN 1 ELSE 0
       /\ threw \subseteq Slots(at[c])
       /\ IsFirstError(first[c], threw)

\* The inductive invariant of the pool.
IInv == TypeOK /\ MutexInv /\ BatchInv /\ HistoryInv

-----------------------------------------------------------------------------
(* FirstError returns the least index that threw.                          *)

\* A non-empty set of natural numbers has a least element.
LEMMA LeastExists ==
  ASSUME NEW F \in SUBSET Nat, F # {}
  PROVE  \E m \in F : \A i \in F : m <= i
<1> DEFINE R == {s \in Nat \X Nat : s[1] < s[2]}
<1>1. IsWellFoundedOn(R, Nat)
  BY NatLessThanWellFounded, Zenon DEF OpToRel
<1>2. \A i, m \in Nat : <<i, m>> \notin R => m <= i
  OBVIOUS
<1> HIDE DEF R
<1>3. PICK m \in F : \A i \in F : <<i, m>> \notin R
  BY <1>1, WFMin, Zenon
<1> QED
  BY <1>2, <1>3, Zenon

\* FirstError of the rethrow loop is exactly the least element.
LEMMA FirstErrorIsLeast ==
  ASSUME NEW F \in SUBSET Nat
  PROVE  /\ IsFirstError(FirstError(F), F)
         /\ \A m : IsFirstError(m, F) => m = FirstError(F)
<1>1. CASE F = {}
  BY <1>1, Zenon DEF IsFirstError, FirstError
<1>2. CASE F # {}
  <2>1. FirstError(F) \in F /\ \A i \in F : FirstError(F) <= i
    BY <1>2, LeastExists, Zenon DEF FirstError
  <2>2. ASSUME NEW m, IsFirstError(m, F) PROVE m = FirstError(F)
    <3>1. m \in F /\ \A i \in F : m <= i
      BY <1>2, <2>2, Zenon DEF IsFirstError
    <3>2. m \in Nat /\ FirstError(F) \in Nat /\ m <= FirstError(F) /\ FirstError(F) <= m
      BY <2>1, <3>1, Zenon
    <3> QED BY <3>2
  <2> QED BY <1>2, <2>1, <2>2, Zenon DEF IsFirstError
<1> QED BY <1>1, <1>2, Zenon

\* The outcome of a batch is one of its indices, or that it returned.
LEMMA FirstErrorType ==
  ASSUME NEW F \in SUBSET Index
  PROVE  FirstError(F) \in Index \cup {Returned}
<1>1. F \in SUBSET Nat
  BY ConstantsAssumption DEF Index
<1> QED BY <1>1, FirstErrorIsLeast, Zenon DEF IsFirstError

-----------------------------------------------------------------------------

\* There are finitely many unfinished items.
LEMMA OutstandingFinite ==
  ASSUME TypeOK
  PROVE  IsFiniteSet(Outstanding)
<1>1. Outstanding \subseteq -1 .. MaxItems
  BY ConstantsAssumption, SMTT(30) DEF TypeOK, Outstanding, Index, Nobody
<1>2. IsFiniteSet(-1 .. MaxItems)
  BY FS_Interval, ConstantsAssumption
<1> QED BY <1>1, <1>2, FS_Subset, Zenon

\* Steps that leave the batch alone keep everything that is said about it.
LEMMA SamePool ==
  ASSUME TypeOK, BatchInv, HistoryInv,
         UNCHANGED <<poolVars, history>>,
         \A w \in Workers : Executing(w)' <=> Executing(w),
         \A w \in Workers : Executing(w) => held'[w] = held[w],
         \A c \in Callers : InBatch(c)' <=> InBatch(c),
         \A c \in Callers : InBatch(c) => batch'[c] = batch[c],
         \A c \in Callers : CallerActive(c)' =>
           /\ CallerActive(c)
           /\ batch'[c] = batch[c] /\ at'[c] = at[c] /\ first'[c] = first[c]
  PROVE  BatchInv' /\ HistoryInv'
<1>1. UNCHANGED <<items, next, pending, errors, executed, threw>>
  BY Zenon DEF poolVars, history
<1>2. Outstanding' = Outstanding
  <2>1. {v \in Workers : Executing(v)}' = {v \in Workers : Executing(v)}
    BY Zenon
  <2> QED BY <1>1, <2>1 DEF Outstanding
<1>3. BatchInv'
  BY <1>1, <1>2 DEF BatchInv, PendingCountsOutstanding, Slots
<1>4. HistoryInv'
  <2>1. ASSUME NEW c \in Callers, InBatch(c)'
        PROVE (/\ \A i \in Slots(items) : executed[i] = IF i \in Outstanding THEN 0 ELSE 1
               /\ errors = threw
               /\ errors \subseteq Slots(items) \ Outstanding)'
    <3>1. InBatch(c)
      BY <2>1, Zenon
    <3> QED BY <3>1, <1>1, <1>2, Zenon DEF HistoryInv, Slots
  <2>2. ASSUME NEW c \in Callers, CallerActive(c)'
        PROVE (/\ at[c] <= batch[c]
               /\ \A i \in Slots(batch[c]) : executed[i] = IF i < at[c] THEN 1 ELSE 0
               /\ threw \subseteq Slots(at[c])
               /\ IsFirstError(first[c], threw))'
    <3>1. CallerActive(c) /\ batch'[c] = batch[c] /\ at'[c] = at[c] /\ first'[c] = first[c]
      BY <2>2, Zenon
    <3> QED BY <3>1, <1>1, Zenon DEF HistoryInv, Slots, IsFirstError
  <2> QED BY <2>1, <2>2, Zenon DEF HistoryInv
<1> QED BY <1>3, <1>4, Zenon

\* The invariant holds before the constructor starts its first thread.
LEMMA InitIInv == Init => IInv
<1> SUFFICES ASSUME Init PROVE IInv
  BY Zenon
<1> USE ConstantsAssumption
<1>1. TypeOK
  <2>1. 0 \in 0 .. MaxItems /\ 0 \in 0 .. MaxRuns
    OBVIOUS
  <2> QED BY <2>1, Zenon DEF Init, TypeOK
<1>2. MutexInv
  BY Zenon DEF Init, MutexInv, CallerActive
<1>3. Outstanding = {}
  BY DEF Init, Outstanding, Executing
<1>4. BatchInv
  BY <1>3, FS_EmptySet, Zenon DEF Init, BatchInv, PendingCountsOutstanding, InBatch, Executing
<1>5. HistoryInv
  BY Zenon DEF Init, HistoryInv, InBatch, CallerActive
<1> QED BY <1>1, <1>2, <1>4, <1>5, Zenon DEF IInv

-----------------------------------------------------------------------------
(* Every action preserves IInv.                                            *)

\* Constructor and destructor.
LEMMA OwnerStepIInv == IInv /\ OwnerStep => IInv'
<1> SUFFICES ASSUME IInv, OwnerStep PROVE IInv'
  BY Zenon
<1> USE ConstantsAssumption DEF IInv
<1>1. ASSUME NEW w \in Workers, SpawnWorker(w) PROVE IInv'
  <2>1. TypeOK'
    BY <1>1, Zenon DEF TypeOK, SpawnWorker, callerVars, poolVars, history
  <2>2. MutexInv'
    BY <1>1, Zenon DEF MutexInv, SpawnWorker, callerVars, CallerActive
  <2>3. BatchInv' /\ HistoryInv'
    BY <1>1, SamePool, Zenon DEF SpawnWorker, callerVars, poolVars, history, TypeOK, Executing, InBatch, CallerActive
  <2> QED BY <2>1, <2>2, <2>3, Zenon
<1>2. CASE Constructed
  <2>1. TypeOK'
    BY <1>2, Zenon DEF TypeOK, Constructed, callerVars, workerVars, poolVars, history
  <2>2. MutexInv'
    BY <1>2, Zenon DEF MutexInv, Constructed, callerVars, CallerActive
  <2>3. BatchInv' /\ HistoryInv'
    BY <1>2, SamePool, Zenon DEF Constructed, callerVars, workerVars, poolVars, history, Executing, InBatch, CallerActive
  <2> QED BY <2>1, <2>2, <2>3, Zenon
<1>3. CASE ConstructorThrows
  <2>1. TypeOK'
    BY <1>3, Zenon DEF TypeOK, ConstructorThrows, callerVars, workerVars, poolVars, history
  <2>2. MutexInv'
    BY <1>3, Zenon DEF MutexInv, ConstructorThrows, callerVars, CallerActive
  <2>3. BatchInv' /\ HistoryInv'
    BY <1>3, SamePool, Zenon
    DEF ConstructorThrows, callerVars, workerVars, poolVars, history, Executing, InBatch, CallerActive
  <2> QED BY <2>1, <2>2, <2>3, Zenon
<1>4. CASE DestructorLocks
  <2>1. TypeOK'
    BY <1>4, Zenon DEF TypeOK, DestructorLocks, callerVars, workerVars, poolVars, history
  <2>2. MutexInv'
    BY <1>4, Zenon DEF MutexInv, TypeOK, DestructorLocks, callerVars, CallerActive
  <2>3. BatchInv' /\ HistoryInv'
    BY <1>4, SamePool, Zenon
    DEF DestructorLocks, callerVars, workerVars, poolVars, history, Executing, InBatch, CallerActive
  <2> QED BY <2>1, <2>2, <2>3, Zenon
<1>5. CASE SetStop
  <2>1. TypeOK'
    BY <1>5, Zenon DEF TypeOK, SetStop, callerVars, workerVars, poolVars, history
  <2>2. MutexInv'
    BY <1>5, Zenon DEF MutexInv, SetStop, callerVars, CallerActive
  <2>3. BatchInv' /\ HistoryInv'
    BY <1>5, SamePool, Zenon DEF SetStop, callerVars, workerVars, poolVars, history, Executing, InBatch, CallerActive
  <2> QED BY <2>1, <2>2, <2>3, Zenon
<1>6. CASE NotifyStop
  <2>1. TypeOK'
    BY <1>6, Zenon DEF TypeOK, NotifyStop, callerVars, poolVars, history
  <2>2. MutexInv'
    BY <1>6, Zenon DEF MutexInv, NotifyStop, callerVars, CallerActive
  <2>3. BatchInv' /\ HistoryInv'
    BY <1>6, SamePool, Zenon DEF NotifyStop, callerVars, poolVars, history, TypeOK, Executing, InBatch, CallerActive
  <2> QED BY <2>1, <2>2, <2>3, Zenon
<1>7. CASE JoinAll
  <2>1. TypeOK'
    BY <1>7, Zenon DEF TypeOK, JoinAll, callerVars, workerVars, poolVars, history
  <2>2. MutexInv'
    BY <1>7, Zenon DEF MutexInv, JoinAll, callerVars, CallerActive
  <2>3. BatchInv' /\ HistoryInv'
    BY <1>7, SamePool, Zenon DEF JoinAll, callerVars, workerVars, poolVars, history, Executing, InBatch, CallerActive
  <2> QED BY <2>1, <2>2, <2>3, Zenon
<1> QED BY <1>1, <1>2, <1>3, <1>4, <1>5, <1>6, <1>7, Zenon DEF OwnerStep

\* run(), on a caller's thread.
LEMMA CallerStepIInv ==
  ASSUME IInv, NEW c \in Callers, CallerStep(c)
  PROVE  IInv'
<1> USE ConstantsAssumption DEF IInv
<1> USE DEF callerVars, workerVars, poolVars, history
<1>1. CASE RejectRun(c)
  <2>1. TypeOK'
    BY <1>1 DEF TypeOK, RejectRun
  <2>2. MutexInv'
    BY <1>1, Zenon DEF MutexInv, TypeOK, RejectRun, CallerActive
  <2>3. BatchInv' /\ HistoryInv'
    BY <1>1, SamePool, Zenon DEF TypeOK, RejectRun, Executing, InBatch, CallerActive
  <2> QED BY <2>1, <2>2, <2>3, Zenon
<1>2. ASSUME NEW n \in 0 .. MaxItems, EnterRun(c, n) PROVE IInv'
  <2>1. TypeOK'
    BY <1>2 DEF TypeOK, EnterRun
  <2>2. MutexInv'
    BY <1>2, Zenon DEF MutexInv, TypeOK, EnterRun, CallerActive
  <2>3. BatchInv' /\ HistoryInv'
    BY <1>2, SamePool, Zenon DEF TypeOK, EnterRun, Executing, InBatch, CallerActive
  <2> QED BY <2>1, <2>2, <2>3, Zenon
<1>3. CASE LockRunMutex(c)
  <2>1. TypeOK'
    BY <1>3, Zenon DEF TypeOK, LockRunMutex
  <2>2. MutexInv'
    BY <1>3, Zenon DEF MutexInv, TypeOK, LockRunMutex, CallerActive
  <2>3. BatchInv' /\ HistoryInv'
    BY <1>3, SamePool, Zenon DEF TypeOK, LockRunMutex, Executing, InBatch, CallerActive
  <2> QED BY <2>1, <2>2, <2>3, Zenon
<1>4. CASE StartSerial(c)
  <2>1. TypeOK'
    BY <1>4 DEF TypeOK, StartSerial
  <2>2. MutexInv'
    BY <1>4, Zenon DEF MutexInv, TypeOK, StartSerial, CallerActive
  <2>3. \A d \in Callers : ~InBatch(d) /\ ~InBatch(d)'
    BY <1>4, Zenon DEF MutexInv, TypeOK, StartSerial, InBatch, CallerActive
  <2>4. BatchInv'
    <3>1. Outstanding' = Outstanding
      BY <1>4, Zenon DEF StartSerial, Outstanding, Executing
    <3> QED BY <1>4, <2>3, <3>1, Zenon
        DEF BatchInv, StartSerial, Executing, PendingCountsOutstanding, Slots
  <2>5. HistoryInv'
    <3>1. ASSUME NEW d \in Callers, CallerActive(d)' PROVE d = c
      BY <1>4, <3>1, Zenon DEF MutexInv, TypeOK, StartSerial, CallerActive
    <3>2. at'[c] = 0 /\ batch'[c] = batch[c] /\ first'[c] = Returned /\ threw' = {}
      BY <1>4, Zenon DEF StartSerial, TypeOK
    <3>3. \A i \in Slots(batch[c]) : executed'[i] = 0 /\ ~(i < 0)
      BY <1>4 DEF StartSerial, TypeOK, Slots, Index
    <3>4. batch[c] >= 0
      BY DEF TypeOK
    <3> QED BY <2>3, <3>1, <3>2, <3>3, <3>4, Zenon DEF HistoryInv, IsFirstError, Slots
  <2> QED BY <2>1, <2>2, <2>4, <2>5, Zenon
<1>5. ASSUME NEW fails \in BOOLEAN, SerialItem(c, fails) PROVE IInv'
  <2>1. at[c] \in Index /\ at[c] \in 0 .. MaxItems /\ batch[c] \in 0 .. MaxItems
    BY <1>5 DEF TypeOK, SerialItem, Index
  <2>2. TypeOK'
    BY <1>5, <2>1 DEF TypeOK, SerialItem
  <2>3. MutexInv'
    BY <1>5, Zenon DEF MutexInv, TypeOK, SerialItem, CallerActive
  <2>4. \A d \in Callers : ~InBatch(d) /\ ~InBatch(d)'
    BY <1>5, Zenon DEF MutexInv, TypeOK, SerialItem, InBatch, CallerActive
  <2>5. BatchInv'
    <3>1. Outstanding' = Outstanding
      BY <1>5, Zenon DEF SerialItem, Outstanding, Executing
    <3> QED BY <1>5, <2>4, <3>1, Zenon
        DEF BatchInv, SerialItem, Executing, PendingCountsOutstanding, Slots
  <2>6. HistoryInv'
    <3>1. ASSUME NEW d \in Callers, CallerActive(d)' PROVE d = c
      BY <1>5, <3>1, Zenon DEF MutexInv, TypeOK, SerialItem, CallerActive
    <3>2. /\ at[c] <= batch[c]
          /\ \A i \in Slots(batch[c]) : executed[i] = IF i < at[c] THEN 1 ELSE 0
          /\ threw \subseteq Slots(at[c])
          /\ IsFirstError(first[c], threw)
      BY <1>5, Zenon DEF HistoryInv, SerialItem, CallerActive
    <3>3. at'[c] = at[c] + 1 /\ at[c] < batch[c] /\ batch' = batch
      BY <1>5, <2>1, Zenon DEF SerialItem, TypeOK
    <3>4. \A i \in Slots(batch[c]) : executed'[i] = IF i < at[c] + 1 THEN 1 ELSE 0
      <4>1. \A i \in Slots(batch[c]) : i \in Index
        BY <2>1, ConstantsAssumption DEF Slots, Index
      <4>2. \A i \in Index : executed'[i] = IF i = at[c] THEN executed[i] + 1 ELSE executed[i]
        BY <1>5, <2>1, Zenon DEF SerialItem, TypeOK
      <4>3. \A i \in Slots(batch[c]) : i \in Int
        BY <2>1, SMTT(30) DEF Slots
      <4> QED BY <2>1, <3>2, <4>1, <4>2, <4>3
    <3>5. threw' \subseteq Slots(at[c] + 1)
      <4>1. threw' \subseteq threw \cup {at[c]}
        BY <1>5, Zenon DEF SerialItem
      <4>2. PICK n \in Nat : n = at[c]
        BY <2>1
      <4>3. Slots(n) \subseteq Slots(n + 1) /\ n \in Slots(n + 1)
        BY DEF Slots
      <4> QED BY <3>2, <4>1, <4>2, <4>3, Zenon
    <3>6. first'[c] = IF fails /\ first[c] = Returned THEN at[c] ELSE first[c]
      BY <1>5, Zenon DEF SerialItem, TypeOK
    <3>7. IsFirstError(first'[c], threw')
      <4>1. threw' = IF fails THEN threw \cup {at[c]} ELSE threw
        BY <1>5, Zenon DEF SerialItem
      <4>2. threw = {} <=> first[c] = Returned
        BY <3>2, <2>1 DEF IsFirstError, Returned, Slots
      <4>3. \A i \in threw : i < at[c] /\ i \in Nat
        BY <3>2, <2>1 DEF Slots
      <4> QED BY <2>1, <3>2, <3>6, <4>1, <4>2, <4>3 DEF IsFirstError
    <3> QED BY <2>1, <2>4, <3>1, <3>3, <3>4, <3>5, <3>7, SMTT(30) DEF HistoryInv
  <2> QED BY <2>2, <2>3, <2>5, <2>6, Zenon
<1>6. CASE SerialReturn(c)
  <2>1. TypeOK'
    BY <1>6, Zenon DEF TypeOK, SerialReturn, Leave
  <2>2. MutexInv'
    BY <1>6, Zenon DEF MutexInv, TypeOK, SerialReturn, Leave, CallerActive
  <2>3. BatchInv' /\ HistoryInv'
    BY <1>6, SamePool, Zenon DEF TypeOK, SerialReturn, Leave, Executing, InBatch, CallerActive
  <2> QED BY <2>1, <2>2, <2>3, Zenon
<1>7. CASE ReturnEmpty(c)
  <2>1. TypeOK'
    BY <1>7, Zenon DEF TypeOK, ReturnEmpty, Leave
  <2>2. MutexInv'
    BY <1>7, Zenon DEF MutexInv, TypeOK, ReturnEmpty, Leave, CallerActive
  <2>3. \A d \in Callers : /\ ~InBatch(d) /\ ~InBatch(d)'
                           /\ ~CallerActive(d)'
    BY <1>7, Zenon DEF MutexInv, TypeOK, ReturnEmpty, Leave, InBatch, CallerActive
  <2>4. BatchInv'
    <3>1. Outstanding' = Outstanding
      BY <1>7, Zenon DEF ReturnEmpty, Outstanding, Executing
    <3> QED BY <1>7, <2>3, <3>1, Zenon
        DEF BatchInv, ReturnEmpty, Executing, PendingCountsOutstanding, Slots
  <2>5. HistoryInv'
    BY <2>3, Zenon DEF HistoryInv
  <2> QED BY <2>1, <2>2, <2>4, <2>5, Zenon
<1>8. CASE PublishBatch(c)
  <2>1. TypeOK'
    BY <1>8 DEF TypeOK, PublishBatch
  <2>2. MutexInv'
    BY <1>8, Zenon DEF MutexInv, TypeOK, PublishBatch, CallerActive
  <2>3. \A d \in Callers : /\ ~InBatch(d)
                           /\ InBatch(d)' => d = c
                           /\ ~CallerActive(d)'
    BY <1>8, Zenon DEF MutexInv, TypeOK, PublishBatch, InBatch, CallerActive
  <2>4. \A w \in Workers : ~Executing(w) /\ ~Executing(w)'
    BY <1>8, <2>3, Zenon DEF BatchInv, PublishBatch, TypeOK, Executing
  <2>5. /\ batch[c] \in Nat /\ batch' = batch /\ InBatch(c)'
        /\ items' = batch[c] /\ next' = 0 /\ pending' = batch[c]
    BY <1>8 DEF PublishBatch, TypeOK, InBatch
  <2>6. Outstanding' = 0 .. batch[c] - 1
    BY <2>4, <2>5, Zenon DEF Outstanding
  <2>7. pending' = Cardinality(Outstanding')
    BY <2>5, <2>6, FS_Interval
  <2>8. BatchInv'
    <3>1. \A d \in Callers : InBatch(d)' => items' = batch'[d] /\ next' <= items'
      BY <2>3, <2>5
    <3> QED BY <2>4, <2>5, <2>7, <3>1, Zenon DEF BatchInv, PendingCountsOutstanding
  <2>9. HistoryInv'
    BY <1>8, <2>3, <2>5, <2>6, SMTT(30) DEF HistoryInv, PublishBatch, TypeOK, Slots, Index
  <2> QED BY <2>1, <2>2, <2>8, <2>9, Zenon
<1>9. CASE SpuriousCallerWake(c)
  <2>1. TypeOK'
    BY <1>9, Zenon DEF TypeOK, SpuriousCallerWake
  <2>2. MutexInv'
    BY <1>9, Zenon DEF MutexInv, TypeOK, SpuriousCallerWake, CallerActive
  <2>3. BatchInv' /\ HistoryInv'
    BY <1>9, SamePool, Zenon DEF TypeOK, SpuriousCallerWake, Executing, InBatch, CallerActive
  <2> QED BY <2>1, <2>2, <2>3, Zenon
<1>10. CASE BlockAgain(c)
  <2>1. TypeOK'
    BY <1>10, Zenon DEF TypeOK, BlockAgain
  <2>2. MutexInv'
    BY <1>10, Zenon DEF MutexInv, TypeOK, BlockAgain, CallerActive
  <2>3. BatchInv' /\ HistoryInv'
    BY <1>10, SamePool, Zenon DEF TypeOK, BlockAgain, Executing, InBatch, CallerActive
  <2> QED BY <2>1, <2>2, <2>3, Zenon
<1>11. CASE CollectBatch(c)
  <2>1. TypeOK'
    <3>1. FirstError(errors) \in Index \cup {Returned}
      BY FirstErrorType, Zenon DEF TypeOK
    <3> QED BY <1>11, <3>1, Zenon DEF TypeOK, CollectBatch, Leave
  <2>2. MutexInv'
    BY <1>11, Zenon DEF MutexInv, TypeOK, CollectBatch, Leave, CallerActive
  <2>3. \A d \in Callers : ~InBatch(d)' /\ ~CallerActive(d)'
    BY <1>11, Zenon DEF MutexInv, TypeOK, CollectBatch, Leave, InBatch, CallerActive
  <2>4. Outstanding = {}
    BY <1>11, OutstandingFinite, FS_EmptySet, Zenon DEF CollectBatch, BatchInv, PendingCountsOutstanding
  <2>5. \A w \in Workers : ~Executing(w) /\ ~Executing(w)'
    BY <1>11, <2>4, Zenon DEF Outstanding, CollectBatch, Executing
  <2>6. Outstanding' = {}
    BY <1>11, <2>5 DEF Outstanding, CollectBatch, TypeOK
  <2>7. BatchInv'
    BY <1>11, <2>3, <2>5, <2>6, FS_EmptySet, Zenon DEF BatchInv, CollectBatch, PendingCountsOutstanding
  <2>8. HistoryInv'
    BY <2>3, Zenon DEF HistoryInv
  <2> QED BY <2>1, <2>2, <2>7, <2>8, Zenon
<1>12. CASE SerialNested(c)
  <2>1. TypeOK'
    BY <1>12, Zenon DEF TypeOK, SerialNested
  <2>2. MutexInv'
    BY <1>12, Zenon DEF MutexInv, TypeOK, SerialNested, CallerActive
  <2>3. BatchInv' /\ HistoryInv'
    BY <1>12, SamePool, Zenon DEF TypeOK, SerialNested, Executing, InBatch, CallerActive
  <2> QED BY <2>1, <2>2, <2>3, Zenon
<1>13. CASE SerialNestedReturn(c)
  <2>1. TypeOK'
    BY <1>13, Zenon DEF TypeOK, SerialNestedReturn
  <2>2. MutexInv'
    BY <1>13, Zenon DEF MutexInv, TypeOK, SerialNestedReturn, CallerActive
  <2>3. BatchInv' /\ HistoryInv'
    BY <1>13, SamePool, Zenon DEF TypeOK, SerialNestedReturn, Executing, InBatch, CallerActive
  <2> QED BY <2>1, <2>2, <2>3, Zenon
<1> QED
  BY <1>1, <1>2, <1>3, <1>4, <1>5, <1>6, <1>7, <1>8, <1>9, <1>10, <1>11, <1>12, <1>13, Zenon
  DEF CallerStep

\* workerLoop(), on a worker's thread.
LEMMA WorkerStepIInv ==
  ASSUME IInv, NEW w \in Workers, WorkerStep(w)
  PROVE  IInv'
<1> USE ConstantsAssumption DEF IInv
<1> USE DEF callerVars, workerVars, poolVars, history
<1>1. CASE WorkerWakes(w)
  <2>1. TypeOK'
    <3>1. /\ wpc' \in [Workers -> {"unborn", "ready", "blocked", "working", "nested", "resumed",
                                   "exited"}]
          /\ held' \in [Workers -> Index \cup {Nobody}]
          /\ next' \in 0 .. MaxItems
      <4>1. next < items => next \in Index /\ next + 1 \in 0 .. MaxItems
        BY DEF TypeOK, Index
      <4> QED BY <1>1, <4>1, Zenon DEF TypeOK, WorkerWakes, WaitOrTake
    <3> QED BY <1>1, <3>1, Zenon DEF TypeOK, WorkerWakes
  <2>2. MutexInv'
    BY <1>1, Zenon DEF MutexInv, WorkerWakes, CallerActive
  <2>3. CASE next' = next
    <3>1. \A v \in Workers : Executing(v)' <=> Executing(v)
      BY <1>1, <2>3, SMTT(30) DEF WorkerWakes, WaitOrTake, TypeOK, Executing
    <3>2. \A v \in Workers : Executing(v) => held'[v] = held[v]
      BY <1>1, <2>3, Zenon DEF WorkerWakes, WaitOrTake, TypeOK, Executing
    <3>3. BatchInv' /\ HistoryInv'
      BY <1>1, <2>3, <3>1, <3>2, SamePool, Zenon DEF WorkerWakes, InBatch, CallerActive
    <3> QED BY <2>1, <2>2, <3>3, Zenon
  <2>4. CASE next' # next
    <3>1. /\ ~Executing(w) /\ Executing(w)' /\ held'[w] = next
          /\ next < items /\ next' = next + 1 /\ next \in Nat /\ items \in Nat
      BY <1>1, <2>4 DEF WorkerWakes, WaitOrTake, TypeOK, Executing
    <3>2. \A v \in Workers \ {w} : (Executing(v)' <=> Executing(v)) /\ held'[v] = held[v]
      BY <1>1, <2>4, Zenon DEF WorkerWakes, WaitOrTake, TypeOK, Executing
    <3>3. UNCHANGED <<items, pending, errors, executed, threw, cpc, batch, at, first>>
      BY <1>1, Zenon DEF WorkerWakes
    <3>4. \A c \in Callers : InBatch(c)' <=> InBatch(c)
      BY <3>3, Zenon DEF InBatch
    <3>5. Outstanding' = Outstanding
      BY <3>1, <3>2, <3>3 DEF Outstanding
    <3>6. BatchInv'
      <4>1. \A c \in Callers : InBatch(c)' => items' = batch'[c] /\ next' <= items'
        BY <3>1, <3>3, <3>4, SMTT(30) DEF BatchInv
      <4>2. \E c \in Callers : InBatch(c)'
        BY <3>1, <3>4, SMTT(30) DEF BatchInv
      <4>3. \A v \in Workers : Executing(v)' => held'[v] \in Slots(next') /\ held'[v] \in Slots(items')
        BY <3>1, <3>2, <3>3 DEF BatchInv, Slots
      <4>4. \A u, v \in Workers : u # v /\ Executing(u)' /\ Executing(v)' => held'[u] # held'[v]
        BY <3>1, <3>2, SMTT(30) DEF BatchInv, Slots
      <4>5. PendingCountsOutstanding'
        BY <3>3, <3>5, Zenon DEF BatchInv, PendingCountsOutstanding
      <4> QED BY <4>1, <4>2, <4>3, <4>4, <4>5, Zenon DEF BatchInv
    <3>7. HistoryInv'
      BY <3>3, <3>4, <3>5, Zenon DEF HistoryInv, Slots, IsFirstError, CallerActive
    <3> QED BY <2>1, <2>2, <3>6, <3>7, Zenon
  <2> QED BY <2>3, <2>4, Zenon
<1>2. CASE SpuriousWorkerWake(w)
  <2>1. TypeOK'
    BY <1>2, Zenon DEF TypeOK, SpuriousWorkerWake
  <2>2. MutexInv'
    BY <1>2, Zenon DEF MutexInv, SpuriousWorkerWake, CallerActive
  <2>3. BatchInv' /\ HistoryInv'
    BY <1>2, SamePool, Zenon DEF TypeOK, SpuriousWorkerWake, Executing, InBatch, CallerActive
  <2> QED BY <2>1, <2>2, <2>3, Zenon
<1>3. CASE NestedRun(w)
  <2>1. TypeOK'
    BY <1>3, Zenon DEF TypeOK, NestedRun
  <2>2. MutexInv'
    BY <1>3, Zenon DEF MutexInv, NestedRun, CallerActive
  <2>3. BatchInv' /\ HistoryInv'
    BY <1>3, SamePool, Zenon DEF TypeOK, NestedRun, Executing, InBatch, CallerActive
  <2> QED BY <2>1, <2>2, <2>3, Zenon
<1>4. CASE NestedReturn(w)
  <2>1. TypeOK'
    BY <1>4, Zenon DEF TypeOK, NestedReturn
  <2>2. MutexInv'
    BY <1>4, Zenon DEF MutexInv, NestedReturn, CallerActive
  <2>3. BatchInv' /\ HistoryInv'
    BY <1>4, SamePool, Zenon DEF TypeOK, NestedReturn, Executing, InBatch, CallerActive
  <2> QED BY <2>1, <2>2, <2>3, Zenon
<1>5. ASSUME NEW fails \in BOOLEAN, FinishItem(w, fails) PROVE IInv'
  <2>1. Executing(w) /\ held[w] \in Slots(next) /\ held[w] \in Slots(items)
    BY <1>5, Zenon DEF FinishItem, Executing, BatchInv
  <2>2. /\ next \in Nat /\ items \in Nat /\ items <= MaxItems /\ next <= MaxItems
        /\ held[w] \in Index /\ held[w] \in Outstanding
    BY <2>1, SMTT(30) DEF TypeOK, Slots, Index, Outstanding
  <2>3. pending \in 1 .. MaxItems
    BY <2>2, OutstandingFinite, FS_EmptySet DEF BatchInv, PendingCountsOutstanding, TypeOK
  <2>4. TypeOK'
    <3>1. /\ wpc' \in [Workers -> {"unborn", "ready", "blocked", "working", "nested", "resumed",
                                   "exited"}]
          /\ held' \in [Workers -> Index \cup {Nobody}]
          /\ next' \in 0 .. MaxItems
      <4>1. next < items => next \in Index /\ next + 1 \in 0 .. MaxItems
        BY <2>2 DEF TypeOK, Index
      <4> QED BY <1>5, <4>1, Zenon DEF TypeOK, FinishItem, WaitOrTake
    <3>2. pending' \in 0 .. MaxItems
      <4>1. pending' = pending - 1
        BY <1>5, Zenon DEF FinishItem
      <4> QED BY <2>3, <4>1, ConstantsAssumption
    <3>3. executed' \in [Index -> Nat]
      BY <1>5, <2>2 DEF FinishItem, TypeOK
    <3>4. errors' \in SUBSET Index /\ threw' \in SUBSET Index
      BY <1>5, <2>2, Zenon DEF FinishItem, TypeOK
    <3>5. cpc' \in [Callers -> {"idle", "enter", "locked", "serial", "nested", "resumed", "waiting", "notified"}]
      BY <1>5, Zenon DEF FinishItem, TypeOK
    <3> QED BY <1>5, <3>1, <3>2, <3>3, <3>4, <3>5, Zenon DEF FinishItem, TypeOK
  <2>5. \A c \in Callers :
          /\ cpc[c] \in {"waiting", "notified"} <=> cpc'[c] \in {"waiting", "notified"}
          /\ cpc[c] \notin {"waiting", "notified"} => cpc'[c] = cpc[c]
    BY <1>5, Zenon DEF FinishItem, TypeOK
  <2>6. MutexInv'
    BY <1>5, <2>5, Zenon DEF MutexInv, FinishItem, CallerActive
  <2>7. UNCHANGED <<items, batch, at, first>>
    BY <1>5, Zenon DEF FinishItem
  <2>8. /\ \A c \in Callers : InBatch(c)' <=> InBatch(c)
        /\ \E c \in Callers : InBatch(c)
    BY <2>1, <2>5, Zenon DEF InBatch, BatchInv
  <2>9. \A v \in Workers \ {w} : (Executing(v)' <=> Executing(v)) /\ held'[v] = held[v]
    BY <1>5, Zenon DEF FinishItem, WaitOrTake, TypeOK, Executing
  <2>10. \/ next' = next /\ ~Executing(w)'
         \/ next < items /\ next' = next + 1 /\ Executing(w)' /\ held'[w] = next
    BY <1>5, Zenon DEF FinishItem, WaitOrTake, TypeOK, Executing
  <2>11. Outstanding' = Outstanding \ {held[w]}
    <3> DEFINE Busy == {v \in Workers \ {w} : Executing(v)}
    <3>1. Outstanding = (next .. items - 1) \cup {held[v] : v \in Busy} \cup {held[w]}
      BY <2>1, Zenon DEF Outstanding
    <3>2. held[w] \notin (next .. items - 1) \cup {held[v] : v \in Busy}
      BY <2>1, <2>2 DEF BatchInv, Slots
    <3>3. Outstanding' = (next .. items - 1) \cup {held[v] : v \in Busy}
      <4>1. CASE next' = next /\ ~Executing(w)'
        BY <2>7, <2>9, <4>1, Zenon DEF Outstanding
      <4>2. CASE next < items /\ next' = next + 1 /\ Executing(w)' /\ held'[w] = next
        <5>1. (next .. items - 1) = {next} \cup (next + 1 .. items - 1)
          BY <2>2, <4>2
        <5>2. Outstanding' = (next + 1 .. items - 1) \cup {held[v] : v \in Busy} \cup {next}
          BY <2>7, <2>9, <4>2, Zenon DEF Outstanding
        <5> QED BY <5>1, <5>2, Zenon
      <4> QED BY <2>10, <4>1, <4>2, Zenon
    <3> QED BY <3>1, <3>2, <3>3, Zenon
  <2>12. PendingCountsOutstanding'
    <3>1. Cardinality(Outstanding \ {held[w]}) = Cardinality(Outstanding) - 1
      BY <2>2, OutstandingFinite, FS_RemoveElement, Zenon
    <3> QED BY <1>5, <2>11, <3>1, Zenon DEF FinishItem, BatchInv, PendingCountsOutstanding
  <2>13. BatchInv'
    <3>1. \A c \in Callers : InBatch(c)' => items' = batch'[c] /\ next' <= items'
      <4>1. SUFFICES ASSUME NEW c \in Callers, InBatch(c)'
                     PROVE  items' = batch'[c] /\ next' <= items'
        BY Zenon
      <4>2. items = batch[c] /\ next <= items
        BY <2>8, <4>1, Zenon DEF BatchInv
      <4> QED BY <2>2, <2>7, <2>10, <4>2, SMTT(30)
    <3>2. \A v \in Workers : Executing(v)' => held'[v] \in Slots(next') /\ held'[v] \in Slots(items')
      BY <2>2, <2>7, <2>9, <2>10, SMTT(30) DEF BatchInv, Slots
    <3>3. \A u, v \in Workers : u # v /\ Executing(u)' /\ Executing(v)' => held'[u] # held'[v]
      BY <2>2, <2>9, <2>10, SMTT(30) DEF BatchInv, Slots
    <3>4. ~(\A c \in Callers : ~InBatch(c)')
      BY <2>8, Zenon
    <3> QED BY <2>12, <3>1, <3>2, <3>3, <3>4, Zenon DEF BatchInv
  <2>14. HistoryInv'
    <3>1. PICK c \in Callers : InBatch(c)
      BY <2>8, Zenon
    <3>2. \A d \in Callers : ~CallerActive(d)'
      BY <3>1, <2>5, Zenon DEF MutexInv, TypeOK, InBatch, CallerActive
    <3>3. /\ \A i \in Slots(items) : executed[i] = IF i \in Outstanding THEN 0 ELSE 1
          /\ errors = threw
          /\ errors \subseteq Slots(items) \ Outstanding
      BY <3>1, Zenon DEF HistoryInv
    <3>4. \A i \in Slots(items) : executed'[i] = IF i \in Outstanding' THEN 0 ELSE 1
      <4>1. \A i \in Slots(items) : i \in Index
        BY <2>2 DEF Slots, Index
      <4>2. \A i \in Index : executed'[i] = IF i = held[w] THEN executed[i] + 1 ELSE executed[i]
        BY <1>5, <2>2, Zenon DEF FinishItem, TypeOK
      <4> QED BY <2>1, <2>2, <2>11, <3>3, <4>1, <4>2
    <3>5. errors' = threw' /\ errors' \subseteq Slots(items) \ Outstanding'
      BY <1>5, <2>1, <2>2, <2>11, <3>3, Zenon DEF FinishItem
    <3> QED BY <2>7, <3>2, <3>4, <3>5, Zenon DEF HistoryInv, Slots
  <2> QED BY <2>4, <2>6, <2>13, <2>14, Zenon
<1> QED BY <1>1, <1>2, <1>3, <1>4, <1>5, Zenon DEF WorkerStep

-----------------------------------------------------------------------------

\* Every step of every thread preserves the invariant.
LEMMA NextIInv == IInv /\ [Next]_vars => IInv'
<1> SUFFICES ASSUME IInv, [Next]_vars PROVE IInv'
  BY Zenon
<1>1. CASE OwnerStep
  BY <1>1, OwnerStepIInv, Zenon
<1>2. ASSUME NEW c \in Callers, CallerStep(c) PROVE IInv'
  BY <1>2, CallerStepIInv, Zenon
<1>3. ASSUME NEW w \in Workers, WorkerStep(w) PROVE IInv'
  BY <1>3, WorkerStepIInv, Zenon
<1>4. CASE UNCHANGED vars
  <2> USE <1>4 DEF vars, callerVars, workerVars, poolVars, history
  <2>1. TypeOK' /\ MutexInv'
    BY Zenon DEF IInv, TypeOK, MutexInv, CallerActive
  <2>2. BatchInv' /\ HistoryInv'
    BY SamePool, Zenon DEF IInv, Executing, InBatch, CallerActive
  <2> QED BY <2>1, <2>2, Zenon DEF IInv
<1> QED BY <1>1, <1>2, <1>3, <1>4, Zenon DEF Next, Terminated

\* The inductive invariant holds in every behaviour of the pool.
THEOREM Invariant == Spec => []IInv
<1> QED BY InitIInv, NextIInv, PTL DEF Spec

\* Type correctness of the pool's members and of the threads' locals.
THEOREM TypeCorrect == Spec => []TypeOK
<1>1. IInv => TypeOK
  BY Zenon DEF IInv
<1> QED BY <1>1, Invariant, PTL

\* pending_ counts the unfinished items, for every number of workers.
THEOREM PendingCorrect == Spec => []PendingCountsOutstanding
<1>1. IInv => PendingCountsOutstanding
  BY Zenon DEF IInv, BatchInv
<1> QED BY <1>1, Invariant, PTL

\* An item is executed only while its owner is inside run(), by one worker.
THEOREM BorrowingCorrect == Spec => []BorrowedWhileExecuting
<1>1. IInv => BorrowedWhileExecuting
  <2> SUFFICES ASSUME IInv, NEW w \in Workers, Executing(w)
               PROVE  /\ held[w] \in Slots(items)
                      /\ \E c \in Callers : InBatch(c) /\ runMutex = c
                      /\ \A v \in Workers \ {w} : Executing(v) => held[v] # held[w]
    BY Zenon DEF BorrowedWhileExecuting
  <2>1. held[w] \in Slots(items) /\ \A v \in Workers \ {w} : Executing(v) => held[v] # held[w]
    BY Zenon DEF IInv, BatchInv
  <2>2. PICK c \in Callers : InBatch(c)
    BY Zenon DEF IInv, BatchInv
  <2>3. runMutex = c
    BY <2>2, Zenon DEF IInv, MutexInv, InBatch, CallerActive
  <2> QED BY <2>1, <2>2, <2>3, Zenon
<1> QED BY <1>1, Invariant, PTL

\* Stopping the pool never cuts a batch short and leaves no worker executing.
DestroyedInv ==
  life = "joined" => \A w \in Workers : wpc[w] \in {"unborn", "exited"}

\* For any number of callers and workers, the destructor cuts no batch short and
\* leaves no worker executing an item.
THEOREM DestructionCorrect == Spec => []DestroyedIsQuiet
<1>1. Init => DestroyedInv
  BY Zenon DEF Init, DestroyedInv
<1>2. IInv /\ DestroyedInv /\ [Next]_vars => DestroyedInv'
  <2> SUFFICES ASSUME IInv, DestroyedInv, [Next]_vars PROVE DestroyedInv'
    BY Zenon
  <2> USE DEF DestroyedInv, callerVars, workerVars, poolVars, history
  <2>1. CASE OwnerStep
    BY <2>1, Zenon DEF OwnerStep, SpawnWorker, Constructed, ConstructorThrows, DestructorLocks, SetStop,
                NotifyStop, JoinAll
  <2>2. ASSUME NEW c \in Callers, CallerStep(c) PROVE DestroyedInv'
    <3>1. life' = life
      BY <2>2, Zenon DEF CallerStep, RejectRun, EnterRun, LockRunMutex, StartSerial, SerialNested,
                  SerialNestedReturn, SerialItem, SerialReturn, ReturnEmpty, PublishBatch, SpuriousCallerWake, BlockAgain,
                  CollectBatch
    <3>2. life = "joined" => cpc[c] = "idle"
      BY Zenon DEF IInv, MutexInv, CallerActive
    <3>3. life = "joined" => wpc' = wpc
      BY <2>2, <3>2, Zenon DEF CallerStep, RejectRun, EnterRun, LockRunMutex, StartSerial, SerialNested,
                  SerialNestedReturn, SerialItem, SerialReturn, ReturnEmpty, PublishBatch, SpuriousCallerWake, BlockAgain,
                  CollectBatch
    <3> QED BY <3>1, <3>3, Zenon
  <2>3. ASSUME NEW w \in Workers, WorkerStep(w) PROVE DestroyedInv'
    <3>1. life' = life /\ wpc[w] \notin {"unborn", "exited"}
      BY <2>3, Zenon DEF WorkerStep, WorkerWakes, SpuriousWorkerWake, NestedRun, NestedReturn, FinishItem
    <3> QED BY <3>1, Zenon
  <2>4. CASE UNCHANGED vars
    BY <2>4, Zenon DEF vars
  <2> QED BY <2>1, <2>2, <2>3, <2>4, Zenon DEF Next, Terminated
<1>3. IInv /\ DestroyedInv => DestroyedIsQuiet
  <2> SUFFICES ASSUME IInv, DestroyedInv,
                      life \in {"aborting", "destroying", "stopped", "notified", "joined"}
               PROVE  /\ pending = 0
                      /\ \A c \in Callers : cpc[c] = "idle"
                      /\ \A w \in Workers : ~Executing(w)
                      /\ life = "joined" => \A w \in Workers : wpc[w] \in {"unborn", "exited"}
    BY Zenon DEF DestroyedIsQuiet
  <2>1. \A c \in Callers : cpc[c] = "idle" /\ ~InBatch(c)
    BY Zenon DEF IInv, MutexInv, InBatch, CallerActive
  <2>2. items = 0 /\ \A w \in Workers : ~Executing(w)
    BY <2>1, Zenon DEF IInv, BatchInv
  <2>3. Outstanding = {}
    BY <2>2 DEF Outstanding, IInv, TypeOK
  <2>4. pending = 0
    BY <2>3, FS_EmptySet, Zenon DEF IInv, BatchInv, PendingCountsOutstanding
  <2> QED BY <2>1, <2>2, <2>4, Zenon DEF DestroyedInv
<1> QED BY <1>1, <1>2, <1>3, Invariant, PTL DEF Spec

\* run() executes every item once and rethrows the first error in order, for
\* every number of workers, one included.
THEOREM BatchCorrect == Spec => BatchResult
<1> DEFINE Result ==
      \A c \in Callers : InRun(c) /\ ~InRun(c)' =>
        /\ \A i \in Slots(batch[c]) : executed[i] = 1
        /\ outcome'[c] = FirstError(threw)
<1>1. IInv /\ [Next]_vars => Result
  <2> SUFFICES ASSUME IInv, [Next]_vars, NEW c \in Callers, InRun(c), ~InRun(c)'
               PROVE  /\ \A i \in Slots(batch[c]) : executed[i] = 1
                      /\ outcome'[c] = FirstError(threw)
    BY Zenon
  <2>1. /\ cpc[c] \in {"waiting", "notified", "serial", "nested", "resumed"}
        /\ cpc'[c] \notin {"waiting", "notified", "serial", "nested", "resumed"}
    BY Zenon DEF InRun, InBatch, CallerActive
  <2>2. CollectBatch(c) \/ SerialReturn(c)
    <3> USE <2>1 DEF callerVars
    <3>1. CASE OwnerStep
      BY <3>1, Zenon DEF OwnerStep, SpawnWorker, Constructed, ConstructorThrows, DestructorLocks, SetStop,
                  NotifyStop, JoinAll
    <3>2. ASSUME NEW d \in Callers, CallerStep(d) PROVE CollectBatch(c) \/ SerialReturn(c)
      BY <3>2, Zenon DEF CallerStep, RejectRun, EnterRun, LockRunMutex, StartSerial, SerialNested,
                  SerialNestedReturn, SerialItem, SerialReturn, ReturnEmpty, PublishBatch, SpuriousCallerWake, BlockAgain,
                  CollectBatch, Leave, IInv, TypeOK
    <3>3. ASSUME NEW w \in Workers, WorkerStep(w) PROVE FALSE
      BY <3>3, SMTT(30) DEF WorkerStep, WorkerWakes, SpuriousWorkerWake, NestedRun, NestedReturn, FinishItem,
                  IInv, TypeOK
    <3>4. CASE UNCHANGED vars
      BY <3>4, Zenon DEF vars
    <3> QED BY <3>1, <3>2, <3>3, <3>4, Zenon DEF Next, Terminated
  <2>3. CASE CollectBatch(c)
    <3>1. InBatch(c) /\ items = batch[c] /\ outcome'[c] = FirstError(errors)
      BY <2>3, Zenon DEF CollectBatch, Leave, InBatch, IInv, BatchInv, TypeOK
    <3>2. Outstanding = {}
      BY <2>3, OutstandingFinite, FS_EmptySet, Zenon
      DEF CollectBatch, IInv, BatchInv, PendingCountsOutstanding
    <3> QED BY <3>1, <3>2, Zenon DEF IInv, HistoryInv
  <2>4. CASE SerialReturn(c)
    <3>1. cpc[c] = "serial" /\ at[c] = batch[c] /\ outcome'[c] = first[c]
      BY <2>4, Zenon DEF SerialReturn, Leave, IInv, TypeOK
    <3> USE DEF CallerActive
    <3>2. \A i \in Slots(batch[c]) : executed[i] = 1
      BY <3>1, SMTT(30) DEF IInv, HistoryInv, Slots, TypeOK
    <3>3. IsFirstError(first[c], threw) /\ threw \in SUBSET Nat
      BY <3>1, SMTT(30) DEF IInv, HistoryInv, TypeOK, Index
    <3> QED BY <3>1, <3>2, <3>3, FirstErrorIsLeast, Zenon
  <2> QED BY <2>2, <2>3, <2>4, Zenon
<1> QED BY <1>1, Invariant, PTL DEF Spec, BatchResult
===============================================================================
