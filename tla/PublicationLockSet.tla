------------------------- MODULE PublicationLockSet -------------------------
(***************************************************************************)
(* Commands that read several published inputs and publish one output      *)
(* (compile, link, emit) under one set of locks:                           *)
(* _publication_lock_set of python/pycircuit/_publication.py, owner        *)
(* discovery of _source_unit_files.py and the commands of                  *)
(* _source_compile.py, _driver.py and _emit.py.                            *)
(*                                                                         *)
(* The transaction on one destination is that of module Publication, here  *)
(* reduced to the state it leaves for others: no journal ("clean"), an     *)
(* unfinished journal ("dirty") or a committed journal whose cleanup is    *)
(* pending ("committed"), next to the value that is visible through it.    *)
(***************************************************************************)
EXTENDS Naturals, FiniteSets, FiniteSetsExt

CONSTANTS Procs,       \* processes
          Dests,       \* destination paths; their order is the path order
          Owners,      \* publication owners
          Absent,      \* nothing is published
          Requests,    \* [inputs : SUBSET Dests, output : Dests] of commands
          Published,   \* destinations that earlier commands have published
          MaxIssued,   \* bound: commands issued in total
          MaxFaults,   \* bound: transactions, rollbacks and recoveries that fail
          MaxCrashes   \* bound: process crashes

ASSUME ConstantsAssumption ==
  /\ Dests \subseteq Nat /\ IsFiniteSet(Dests)
  /\ Published \subseteq Dests
  /\ Requests \subseteq [inputs : SUBSET Dests, output : Dests]
  /\ \A r \in Requests : r.output \notin r.inputs     \* _paths_conflict
  /\ MaxIssued \in Nat /\ MaxFaults \in Nat /\ MaxCrashes \in Nat

VARIABLES
  value,     \* visible artifact of each destination
  journal,   \* "clean", "dirty" or "committed"
  jowner,    \* owner recorded in the journal
  managed,   \* the control directory is initialised
  lock,      \* lock[p][d]: lock that p holds on d
  pc, req,   \* program counter and request of each process
  owner,     \* owner of the output the process publishes
  job,       \* number of the command: the version of what it publishes
  expect,    \* owner of each input, as discovered before locking
  todo,      \* entries not yet discovered, locked or validated
  mend,      \* input that must be recovered before the next attempt
  seen,      \* history: inputs as validated under the lock set
  issued, faults, crashes

shared == <<value, journal, jowner, managed>>
local  == <<pc, req, owner, job, expect, todo, mend, seen>>
vars == <<shared, lock, local, issued, faults, crashes>>

Version == 0 .. MaxIssued     \* 0 for what was published before
Artifact == [owner : Owners, version : Version]
Inputs(p) == req[p].inputs
Output(p) == req[p].output
Entries(p) == Inputs(p) \cup {Output(p)}
Free == [d \in Dests |-> "none"]

AnyOwner == CHOOSE o \in Owners : TRUE
NoCommand == [req |-> CHOOSE r \in Requests : TRUE, owner |-> AnyOwner, job |-> 0,
              expect |-> [d \in Dests |-> Absent], mend |-> CHOOSE d \in Dests : TRUE,
              seen |-> [d \in Dests |-> Absent]]

Init ==
  /\ value = [d \in Dests |-> IF d \in Published THEN [owner |-> AnyOwner, version |-> 0]
                             ELSE Absent]
  /\ journal = [d \in Dests |-> "clean"]
  /\ jowner = [d \in Dests |-> AnyOwner]
  /\ managed = [d \in Dests |-> d \in Published]
  /\ lock = [p \in Procs |-> Free]
  /\ pc = [p \in Procs |-> "idle"]
  /\ req = [p \in Procs |-> NoCommand.req]
  /\ owner = [p \in Procs |-> NoCommand.owner]
  /\ job = [p \in Procs |-> NoCommand.job]
  /\ expect = [p \in Procs |-> NoCommand.expect]
  /\ todo = [p \in Procs |-> {}]
  /\ mend = [p \in Procs |-> NoCommand.mend]
  /\ seen = [p \in Procs |-> NoCommand.seen]
  /\ issued = 0 /\ faults = 0 /\ crashes = 0

-----------------------------------------------------------------------------

At(p, label) == pc[p] = label
Goto(p, label) == pc' = [pc EXCEPT ![p] = label]

\* The command ends: the lock set (an ExitStack) is released and the locals go.
End(p) ==
  /\ Goto(p, "idle")
  /\ lock' = [lock EXCEPT ![p] = Free]
  /\ req' = [req EXCEPT ![p] = NoCommand.req]
  /\ owner' = [owner EXCEPT ![p] = NoCommand.owner]
  /\ job' = [job EXCEPT ![p] = NoCommand.job]
  /\ expect' = [expect EXCEPT ![p] = NoCommand.expect]
  /\ todo' = [todo EXCEPT ![p] = {}]
  /\ mend' = [mend EXCEPT ![p] = NoCommand.mend]
  /\ seen' = [seen EXCEPT ![p] = NoCommand.seen]

SharedFree(d) == \A q \in Procs : lock[q][d] # "ex"
AllFree(d) == \A q \in Procs : lock[q][d] = "none"

\* A file-system call of the step raises.
Fails == faults < MaxFaults /\ faults' = faults + 1

Issue(p, r, o) ==
  /\ At(p, "idle")
  /\ issued < MaxIssued
  /\ issued' = issued + 1
  /\ req' = [req EXCEPT ![p] = r]
  /\ owner' = [owner EXCEPT ![p] = o]
  /\ job' = [job EXCEPT ![p] = issued']
  /\ todo' = [todo EXCEPT ![p] = r.inputs]
  /\ Goto(p, "discover")
  /\ UNCHANGED <<shared, lock, expect, mend, seen, faults, crashes>>

\* _discover_source_unit_owner: under a lock of its own, read the owner of one
\* input from its unfinished journal or from the published artifact.
DiscoverOwner(p, d) ==
  /\ At(p, "discover")
  /\ d \in todo[p]
  /\ SharedFree(d)
  /\ IF ~managed[d] \/ (journal[d] # "dirty" /\ value[d] = Absent)
     THEN End(p)
     ELSE /\ expect' = [expect EXCEPT ![p][d] = IF journal[d] = "dirty" THEN jowner[d]
                                                ELSE value[d].owner]
          /\ todo' = [todo EXCEPT ![p] = @ \ {d}]
          /\ UNCHANGED <<pc, lock, req, owner, job, mend, seen>>
  /\ UNCHANGED <<shared, issued, faults, crashes>>

\* The first loop of _publication_lock_set: bootstrap the output's control
\* directory, require that of every input.
Bootstrap(p) ==
  /\ At(p, "discover")
  /\ todo[p] = {}
  /\ managed' = [managed EXCEPT ![Output(p)] = TRUE]
  /\ todo' = [todo EXCEPT ![p] = Entries(p)]
  /\ Goto(p, "lock")
  /\ UNCHANGED <<value, journal, jowner, lock, req, owner, job, expect, mend, seen,
                 issued, faults, crashes>>

\* entries are sorted by path: the next lock is the least one not yet held.
NextEntry(p) == Min(todo[p])

\* The second loop: shared locks for inputs, exclusive for the output.
LockEntry(p) ==
  /\ At(p, "lock")
  /\ todo[p] # {}
  /\ LET d == NextEntry(p) IN
       /\ IF d = Output(p) THEN AllFree(d) ELSE SharedFree(d)
       /\ lock' = [lock EXCEPT ![p][d] = IF d = Output(p) THEN "ex" ELSE "sh"]
       /\ todo' = [todo EXCEPT ![p] = @ \ {d}]
  /\ UNCHANGED <<shared, pc, req, owner, job, expect, mend, seen, issued, faults, crashes>>

AllLocked(p) ==
  /\ At(p, "lock")
  /\ todo[p] = {}
  /\ Goto(p, "validate")
  /\ todo' = [todo EXCEPT ![p] = Entries(p)]
  /\ UNCHANGED <<shared, lock, req, owner, job, expect, mend, seen, issued, faults, crashes>>

\* The third loop, on the output: _recover_locked, which may fail half-way.
ValidateOutput(p) ==
  /\ At(p, "validate")
  /\ todo[p] # {}
  /\ NextEntry(p) = Output(p)
  /\ \/ /\ journal' = [journal EXCEPT ![Output(p)] = "clean"]
        /\ todo' = [todo EXCEPT ![p] = @ \ {Output(p)}]
        /\ UNCHANGED <<pc, lock, req, owner, job, expect, mend, seen, faults>>
     \/ /\ journal[Output(p)] # "clean"
        /\ Fails
        /\ End(p)
        /\ UNCHANGED journal
  /\ UNCHANGED <<value, jowner, managed, issued, crashes>>

\* The third loop, on an input: an unfinished journal gives up every lock.
ValidateInput(p) ==
  /\ At(p, "validate")
  /\ todo[p] # {}
  /\ LET d == NextEntry(p) IN
     /\ d # Output(p)
     /\ IF journal[d] = "dirty"
        THEN /\ mend' = [mend EXCEPT ![p] = d]
             /\ lock' = [lock EXCEPT ![p] = Free]
             /\ todo' = [todo EXCEPT ![p] = {}]
             /\ Goto(p, "mend")
             /\ UNCHANGED <<req, owner, job, expect, seen>>
        ELSE IF value[d] = Absent \/ value[d].owner # expect[p][d]
        THEN End(p)                          \* "owner does not match"
        ELSE /\ seen' = [seen EXCEPT ![p][d] = value[d]]
             /\ todo' = [todo EXCEPT ![p] = @ \ {d}]
             /\ UNCHANGED <<pc, lock, req, owner, job, expect, mend>>
  /\ UNCHANGED <<shared, issued, faults, crashes>>

\* Mutant: the recovery does not wait for the lock.
LockMend_NoLock(p) ==
  /\ At(p, "mend")
  /\ Goto(p, "mending")
  /\ UNCHANGED <<shared, lock, req, owner, job, expect, todo, mend, seen, issued, faults, crashes>>

\* _recover_publication of that input, under its exclusive lock alone.
LockMend(p) ==
  /\ At(p, "mend")
  /\ AllFree(mend[p])
  /\ lock' = [lock EXCEPT ![p][mend[p]] = "ex"]
  /\ Goto(p, "mending")
  /\ UNCHANGED <<shared, req, owner, job, expect, todo, mend, seen,
                 issued, faults, crashes>>

\* Mutant: after the recovery only the recovered input is locked and validated.
RecoverInput_Resume(p) ==
  /\ At(p, "mending")
  /\ journal' = [journal EXCEPT ![mend[p]] = "clean"]
  /\ lock' = [lock EXCEPT ![p] = Free]
  /\ todo' = [todo EXCEPT ![p] = {e \in Entries(p) : e >= mend[p]}]
  /\ Goto(p, "validate")
  /\ UNCHANGED <<value, jowner, managed, req, owner, job, expect, mend, seen, issued, faults, crashes>>

\* Mutant: the recovery leaves the journal as it is.
RecoverInput_Ineffective(p) ==
  /\ At(p, "mending")
  /\ lock' = [lock EXCEPT ![p] = Free]
  /\ todo' = [todo EXCEPT ![p] = Entries(p)]
  /\ Goto(p, "lock")
  /\ UNCHANGED <<shared, req, owner, job, expect, mend, seen, issued, faults, crashes>>

\* Then the whole lock set is acquired and validated from the start.
RecoverInput(p) ==
  /\ At(p, "mending")
  /\ \/ /\ journal' = [journal EXCEPT ![mend[p]] = "clean"]
        /\ lock' = [lock EXCEPT ![p] = Free]
        /\ todo' = [todo EXCEPT ![p] = Entries(p)]
        /\ Goto(p, "lock")
        /\ UNCHANGED <<req, owner, job, expect, mend, seen, faults>>
     \/ /\ journal[mend[p]] # "clean"
        /\ Fails
        /\ End(p)
        /\ UNCHANGED journal
  /\ UNCHANGED <<value, jowner, managed, issued, crashes>>

-----------------------------------------------------------------------------
(* The body of the command: snapshot the inputs, run the native tool and   *)
(* publish the output.                                                     *)

InBody(p) == At(p, "validate") /\ todo[p] = {}

\* The tool fails, the output exists and may not be replaced, or it belongs to
\* another owner.
RejectPublish(p) ==
  /\ InBody(p)
  /\ End(p)
  /\ UNCHANGED <<shared, issued, faults, crashes>>

BeginTransaction(p) ==
  /\ InBody(p)
  /\ value[Output(p)] # Absent => value[Output(p)].owner = owner[p]
  /\ journal' = [journal EXCEPT ![Output(p)] = "dirty"]
  /\ jowner' = [jowner EXCEPT ![Output(p)] = owner[p]]
  /\ Goto(p, "transaction")
  /\ UNCHANGED <<value, managed, lock, req, owner, job, expect, todo, mend, seen,
                 issued, faults, crashes>>

Commit(p) ==
  /\ At(p, "transaction")
  /\ journal' = [journal EXCEPT ![Output(p)] = "committed"]
  /\ value' = [value EXCEPT ![Output(p)] = [owner |-> owner[p], version |-> job[p]]]
  /\ Goto(p, "finish")
  /\ UNCHANGED <<jowner, managed, lock, req, owner, job, expect, todo, mend, seen,
                 issued, faults, crashes>>

\* The publication raises; its rollback succeeds or raises in turn.
Rollback(p) ==
  /\ At(p, "transaction")
  /\ Fails
  /\ \/ journal' = [journal EXCEPT ![Output(p)] = "clean"]
     \/ UNCHANGED journal
  /\ End(p)
  /\ UNCHANGED <<value, jowner, managed, issued, crashes>>

FinishCommitted(p) ==
  /\ At(p, "finish")
  /\ \/ /\ journal' = [journal EXCEPT ![Output(p)] = "clean"]
        /\ End(p)
        /\ UNCHANGED faults
     \/ /\ UNCHANGED journal
        /\ Fails
        /\ End(p)
  /\ UNCHANGED <<value, jowner, managed, issued, crashes>>

Crash(p) ==
  /\ ~At(p, "idle")
  /\ crashes < MaxCrashes
  /\ crashes' = crashes + 1
  /\ End(p)
  /\ UNCHANGED <<shared, issued, faults>>

Proceed(p) ==
  \/ \E d \in Dests : DiscoverOwner(p, d)
  \/ Bootstrap(p)
  \/ LockEntry(p)
  \/ AllLocked(p)
  \/ ValidateOutput(p)
  \/ ValidateInput(p)
  \/ LockMend(p)
  \/ RecoverInput(p)
  \/ RejectPublish(p)
  \/ BeginTransaction(p)
  \/ Commit(p)
  \/ FinishCommitted(p)

Done == issued = MaxIssued /\ (\A p \in Procs : At(p, "idle")) /\ UNCHANGED vars

Next ==
  \/ \E p \in Procs :
       \/ \E r \in Requests, o \in Owners : Issue(p, r, o)
       \/ Proceed(p)
       \/ Rollback(p)
       \/ Crash(p)
  \/ Done

Spec == Init /\ [][Next]_vars

\* flock serves a waiter once the lock stays free; processes run until they
\* crash; nobody must issue a command, fail or crash.
FairSpec == Spec /\ \A p \in Procs : WF_vars(Proceed(p))

-----------------------------------------------------------------------------
(* Properties.                                                             *)

InLockSet(p) == InBody(p) \/ pc[p] \in {"transaction", "finish"}

\* The body of a command works on one consistent snapshot: every input still
\* has the value that was validated, through its whole transaction, and none
\* of them is in the middle of another publication.  Inputs that were
\* validated before a recovery gave the locks up are validated again, and
\* "a substitution between discovery and locking fails closed"
\* (_source_compile.py:171): the owners discovered without the lock set are
\* those of the artifacts used under it.
SnapshotHolds ==
  \A p \in Procs : InLockSet(p) =>
    \A d \in Inputs(p) :
      /\ value[d] # Absent
      /\ value[d] = seen[p][d]
      /\ value[d].owner = expect[p][d]
      /\ journal[d] # "dirty"

\* No recovery disturbs a live transaction: between its first journal entry and
\* its end, the journal and the destination are those of the process inside,
\* however many other commands find that journal unfinished and want to
\* recover it.
TransactionUndisturbed ==
  \A p \in Procs :
    /\ At(p, "transaction") => journal[Output(p)] = "dirty" /\ jowner[Output(p)] = owner[p]
    /\ At(p, "finish") =>
         /\ journal[Output(p)] = "committed"
         /\ value[Output(p)] = [owner |-> owner[p], version |-> job[p]]

\* Every command ends: locks taken in path order never deadlock, and a command
\* that has to recover an input does not retry for ever.  The commands are
\* finitely many, so in the end every process stays idle.
CommandsEnd == <>[](\A p \in Procs : At(p, "idle"))

=============================================================================
