----------------------------- MODULE Publication -----------------------------
(***************************************************************************)
(* The crash-recoverable publication of one compiler output                *)
(* (python/pycircuit/_publication.py over _publication_fs.py).             *)
(*                                                                         *)
(* Processes publish, read or recover one destination path.  Its control   *)
(* directory holds the journal, the journal's temporary file, the stage    *)
(* artifact that is being built and the previous artifact that is being    *)
(* replaced.  A process that holds the lock exclusively works on these     *)
(* files one file-system call at a time.  Every call that changes the disk *)
(* may raise, before or after its effect (a failing directory sync); a     *)
(* process may crash between any two calls, which releases its lock.       *)
(***************************************************************************)
EXTENDS Naturals

CONSTANTS Procs,        \* processes
          Contents,     \* complete artifacts a build can produce
          Owners,       \* publication owners
          OwnerOf,      \* the owner recorded in each artifact
          FileOwners,   \* owners of single-file artifacts (kind "program")
          Absent,       \* no such path
          MaxCommands,  \* bound: commands issued in total
          MaxFaults,    \* bound: file-system calls that raise
          MaxCrashes    \* bound: process crashes

Phases == {"preparing", "prepared", "rollback_restore", "rollback_cleanup", "committed"}

\* An artifact tree; a tree that is being built or removed is not whole.
Artifact == [content : Contents, whole : BOOLEAN]

ASSUME ConstantsAssumption ==
  /\ OwnerOf \in [Contents -> Owners]
  /\ FileOwners \subseteq Owners
  /\ Absent \notin Artifact
  /\ MaxCommands \in Nat /\ MaxFaults \in Nat /\ MaxCrashes \in Nat

VARIABLES
  phase,     \* the journal's phase, "none" when there is no journal.json
  had,       \* the journal's had_previous
  jowner,    \* the journal's owner
  tmp,       \* journal.json.tmp exists
  stage, previous, dest,   \* the three artifact paths
  lock,      \* the lock each process holds on the control directory
  pc,        \* what each process does next
  goal,      \* the command, or the part of it, that the process works on
  build,     \* the content a publisher builds
  hadPrev,   \* a publisher's local had_previous
  aim,       \* the phase that the journal write in progress will record
  outcome,   \* how the last command of the process ended
  got,       \* what the last read returned
  commits,   \* history: did the process's current publication commit
  issued, faults, crashes

disk     == <<phase, had, jowner, tmp, stage, previous, dest>>
journal  == <<phase, had, jowner>>
trees    == <<stage, previous, dest>>
locals   == <<goal, build, hadPrev, aim>>
results  == <<outcome, got, commits>>
counters == <<issued, faults, crashes>>
vars == <<disk, lock, pc, locals, results, counters>>

Kind(o) == IF o \in FileOwners THEN "file" ELSE "directory"

\* _validate_artifact: right kind, complete, and recorded for this owner.
Valid(a, o) == a # Absent /\ a.whole /\ OwnerOf[a.content] = o

Init ==
  /\ phase = "none" /\ had = FALSE /\ jowner \in Owners /\ tmp = FALSE
  /\ stage = Absent /\ previous = Absent /\ dest = Absent
  /\ lock = [p \in Procs |-> "none"]
  /\ pc = [p \in Procs |-> "idle"]
  /\ goal = [p \in Procs |-> "none"]
  /\ build \in [Procs -> Contents]
  /\ hadPrev = [p \in Procs |-> FALSE]
  /\ aim = [p \in Procs |-> "preparing"]
  /\ outcome = [p \in Procs |-> "none"]
  /\ got = [p \in Procs |-> Absent]
  /\ commits = [p \in Procs |-> FALSE]
  /\ issued = 0 /\ faults = 0 /\ crashes = 0

-----------------------------------------------------------------------------
(* Control flow shared by the steps.                                       *)

At(p, label) == pc[p] = label
Goto(p, label) == pc' = [pc EXCEPT ![p] = label] /\ UNCHANGED <<lock, goal, outcome>>

\* Leave the lock's with-block and end the command.
Finish(p, result) ==
  /\ pc' = [pc EXCEPT ![p] = "idle"]
  /\ lock' = [lock EXCEPT ![p] = "none"]
  /\ goal' = [goal EXCEPT ![p] = "none"]
  /\ outcome' = [outcome EXCEPT ![p] = result]

\* Where an exception goes: into the except clause of _publish_artifact, into
\* that of _finish_committed, or out of the command.
InTry(p) ==
  goal[p] = "publish" /\ pc[p] \notin {"begin", "handler", "authority", "fin_check", "recovered"}
InFinish(p) == pc[p] \in {"fin_previous", "fin_tmp", "fin_journal"}

Raise(p) ==
  IF InFinish(p) THEN Goto(p, "fin_error")
  ELSE IF InTry(p) THEN Goto(p, "handler")
  ELSE Finish(p, "raised")

\* A file-system call raises.
Faults(p) == faults < MaxFaults /\ faults' = faults + 1 /\ Raise(p)

\* A call that took effect returns, or raises after its effect.
Completes(p, label) ==
  \/ Goto(p, label) /\ UNCHANGED faults
  \/ Faults(p)

\* The check ok of the protocol succeeds, or refuses the state of the disk.
Checked(p, ok, label) ==
  /\ UNCHANGED faults
  /\ IF ok THEN Goto(p, label) ELSE Finish(p, "refused")

-----------------------------------------------------------------------------
(* Commands.                                                               *)

\* The owner that the command of p names.
Owner(p) == OwnerOf[build[p]]

Start(p, c, command, label) ==
  /\ At(p, "idle")
  /\ issued < MaxCommands
  /\ issued' = issued + 1
  /\ pc' = [pc EXCEPT ![p] = label]
  /\ goal' = [goal EXCEPT ![p] = command]
  /\ build' = [build EXCEPT ![p] = c]
  /\ outcome' = [outcome EXCEPT ![p] = "none"]
  /\ got' = [got EXCEPT ![p] = Absent]
  /\ commits' = [commits EXCEPT ![p] = FALSE]
  /\ UNCHANGED <<disk, lock, hadPrev, aim, faults, crashes>>

StartPublish(p, c) == Start(p, c, "acquire", "lock_ex")
StartRead(p, c)    == Start(p, c, "read", "lock_sh")
StartRecover(p, c) == Start(p, c, "recover", "lock_ex")

LockExclusive(p) ==
  /\ At(p, "lock_ex")
  /\ \A q \in Procs : lock[q] = "none"
  /\ lock' = [lock EXCEPT ![p] = "ex"]
  /\ pc' = [pc EXCEPT ![p] = IF goal[p] = "acquire" THEN "recover" ELSE "reread"]
  /\ UNCHANGED <<disk, locals, results, counters>>

LockShared(p) ==
  /\ At(p, "lock_sh")
  /\ \A q \in Procs : lock[q] # "ex"
  /\ lock' = [lock EXCEPT ![p] = "sh"]
  /\ pc' = [pc EXCEPT ![p] = "check"]
  /\ UNCHANGED <<disk, locals, results, counters>>

\* The process dies; the kernel releases its lock.
Crash(p) ==
  /\ ~At(p, "idle")
  /\ crashes < MaxCrashes
  /\ crashes' = crashes + 1
  /\ Finish(p, "crashed")
  /\ UNCHANGED <<disk, build, hadPrev, aim, got, commits, issued, faults>>

-----------------------------------------------------------------------------
(* _read_published, under the shared lock.                                 *)

StableState ==
  IF phase = "none"
  THEN stage = Absent /\ previous = Absent
  ELSE stage = Absent /\ (had \/ previous = Absent)

\* Mutant: the reader does not look at the journal's phase.
CheckPublished_AnyPhase(p) ==
  /\ At(p, "check")
  /\ IF Valid(dest, Owner(p)) THEN Goto(p, "read") ELSE Finish(p, "raised")
  /\ UNCHANGED <<disk, build, hadPrev, aim, got, commits, counters>>

\* The journal of an unfinished transaction sends the reader to recovery.
CheckPublished(p) ==
  /\ At(p, "check")
  /\ IF phase \notin {"none", "committed"}
     THEN /\ pc' = [pc EXCEPT ![p] = "lock_ex"]
          /\ lock' = [lock EXCEPT ![p] = "none"]
          /\ UNCHANGED <<goal, outcome>>
     ELSE IF ~StableState \/ (dest # Absent /\ ~dest.whole) THEN Finish(p, "refused")
     ELSE IF \/ ~Valid(dest, Owner(p))
             \/ phase = "committed" /\ jowner # Owner(p)
     THEN Finish(p, "raised")
     ELSE Goto(p, "read")
  /\ UNCHANGED <<disk, build, hadPrev, aim, got, commits, counters>>

ReadArtifact(p) ==
  /\ At(p, "read")
  /\ got' = [got EXCEPT ![p] = dest]
  /\ Finish(p, "read")
  /\ UNCHANGED <<disk, build, hadPrev, aim, commits, counters>>

-----------------------------------------------------------------------------
(* Journal access, under the exclusive lock.                               *)

\* _read_journal removes a left-over temporary file before it returns.
ReadJournal(p, from, to) ==
  /\ At(p, from)
  /\ IF phase = "none" /\ tmp /\ (stage # Absent \/ previous # Absent)
     THEN Finish(p, "refused") /\ UNCHANGED <<tmp, faults>>
     ELSE IF tmp
     THEN \/ tmp' = FALSE /\ Completes(p, to)
          \/ UNCHANGED tmp /\ Faults(p)
     ELSE Goto(p, to) /\ UNCHANGED <<tmp, faults>>
  /\ UNCHANGED <<journal, trees, build, hadPrev, aim, got, commits, issued, crashes>>

\* write_json_atomic: write and flush the temporary file ...
WriteTemporary(p) ==
  /\ At(p, "write")
  /\ \/ tmp' = TRUE /\ Completes(p, "put")
     \/ UNCHANGED tmp /\ Faults(p)
  /\ UNCHANGED <<journal, trees, build, hadPrev, aim, got, commits, issued, crashes>>

AfterPut(p) ==
  CASE aim[p] = "preparing" -> IF Kind(Owner(p)) = "directory" THEN "mkdir" ELSE "build"
    [] aim[p] = "prepared" -> IF had THEN "save" ELSE "install"
    [] aim[p] = "committed" -> "fin_check"
    [] aim[p] = "rollback_restore" -> "restore"
    [] aim[p] = "rollback_cleanup" -> "cleanup"

\* ... then replace the journal by it.
PutJournal(p) ==
  /\ At(p, "put")
  /\ \/ /\ tmp' = FALSE
        /\ phase' = aim[p]
        /\ had' = IF aim[p] = "preparing" THEN hadPrev[p] ELSE had
        /\ jowner' = IF aim[p] = "preparing" THEN Owner(p) ELSE jowner
        /\ commits' = [commits EXCEPT ![p] = @ \/ aim[p] = "committed"]
        /\ Completes(p, AfterPut(p))
     \/ UNCHANGED <<tmp, journal, commits>> /\ Faults(p)
  /\ UNCHANGED <<trees, build, hadPrev, aim, got, issued, crashes>>

\* Begin to write the journal with the given phase.
BeginWrite(p, ph) == aim' = [aim EXCEPT ![p] = ph]

-----------------------------------------------------------------------------
(* _publish_artifact.                                                      *)

\* Cancelled, the destination exists and replace is false, or it is not a
\* valid artifact of this owner.
RejectPublish(p) ==
  /\ At(p, "begin")
  /\ Finish(p, "raised")
  /\ UNCHANGED <<disk, build, hadPrev, aim, got, commits, counters>>

BeginPublish(p) ==
  /\ At(p, "begin")
  /\ dest = Absent \/ Valid(dest, Owner(p))
  /\ hadPrev' = [hadPrev EXCEPT ![p] = dest # Absent]
  /\ BeginWrite(p, "preparing")
  /\ Goto(p, "write")
  /\ UNCHANGED <<disk, build, got, commits, counters>>

MakeStage(p) ==
  /\ At(p, "mkdir")
  /\ \/ stage' = [content |-> build[p], whole |-> FALSE] /\ Completes(p, "build")
     \/ UNCHANGED stage /\ Faults(p)
  /\ UNCHANGED <<journal, tmp, previous, dest, build, hadPrev, aim, got, commits, issued, crashes>>

\* The builder may leave an incomplete tree, whether it returns or raises.
BuildStage(p, complete) ==
  /\ At(p, "build")
  /\ \/ stage' = [content |-> build[p], whole |-> complete] /\ Completes(p, "check_stage")
     \/ UNCHANGED stage /\ Faults(p)
  /\ UNCHANGED <<journal, tmp, previous, dest, build, hadPrev, aim, got, commits, issued, crashes>>

\* Validate and sync the stage.
CheckStage(p) ==
  /\ At(p, "check_stage")
  /\ IF Valid(stage, Owner(p))
     THEN BeginWrite(p, "prepared") /\ Completes(p, "write")
     ELSE UNCHANGED <<aim, faults>> /\ Raise(p)
  /\ UNCHANGED <<disk, build, hadPrev, got, commits, issued, crashes>>

\* rename() refuses to replace an existing path.
SavePrevious(p) ==
  /\ At(p, "save")
  /\ IF previous # Absent
     THEN UNCHANGED <<previous, dest, faults>> /\ Raise(p)
     ELSE \/ previous' = dest /\ dest' = Absent /\ Completes(p, "install")
          \/ UNCHANGED <<previous, dest>> /\ Faults(p)
  /\ UNCHANGED <<journal, tmp, stage, build, hadPrev, aim, got, commits, issued, crashes>>

InstallStage(p) ==
  /\ At(p, "install")
  /\ IF dest # Absent
     THEN UNCHANGED <<stage, dest, faults>> /\ Raise(p)
     ELSE \/ dest' = stage /\ stage' = Absent /\ Completes(p, "verify")
          \/ UNCHANGED <<stage, dest>> /\ Faults(p)
  /\ UNCHANGED <<journal, tmp, previous, build, hadPrev, aim, got, commits, issued, crashes>>

VerifyInstalled(p) ==
  /\ At(p, "verify")
  /\ BeginWrite(p, "committed")
  /\ IF Valid(dest, Owner(p)) THEN Goto(p, "write") ELSE Raise(p)
  /\ UNCHANGED <<disk, build, hadPrev, got, commits, counters>>

\* cancelled() answers true at one of the points before the commit.
CancelPoint(p) ==
  \/ pc[p] \in {"mkdir", "save", "install", "verify"}
  \/ pc[p] = "build" /\ Kind(Owner(p)) = "file"
  \/ pc[p] = "write" /\ aim[p] = "prepared"

Cancel(p) ==
  /\ goal[p] = "publish"
  /\ CancelPoint(p)
  /\ Raise(p)
  /\ UNCHANGED <<disk, build, hadPrev, aim, got, commits, counters>>

\* Mutant: an exception always rolls back, whatever the journal says.
Authoritative_AlwaysRollback(p) ==
  /\ At(p, "authority")
  /\ goal' = [goal EXCEPT ![p] = "rollback"]
  /\ pc' = [pc EXCEPT ![p] = "recover"]
  /\ UNCHANGED <<lock, outcome, disk, build, hadPrev, aim, got, commits, counters>>

\* except Exception: the journal on disk, not the flow of control, decides
\* whether the publication committed.
Authoritative(p) ==
  /\ At(p, "authority")
  /\ IF phase = "committed"
     THEN Goto(p, "fin_check")
     ELSE /\ goal' = [goal EXCEPT ![p] = "rollback"]
          /\ pc' = [pc EXCEPT ![p] = "recover"]
          /\ UNCHANGED <<lock, outcome>>
  /\ UNCHANGED <<disk, build, hadPrev, aim, got, commits, counters>>

-----------------------------------------------------------------------------
(* _recover_publication and _recover_locked, under the exclusive lock.     *)

\* _recover_publication returns at once when there is no journal.
RecoverPublication(p) ==
  /\ At(p, "reread_done")
  /\ Goto(p, IF phase = "none" THEN "recovered" ELSE "recover")
  /\ UNCHANGED <<disk, build, hadPrev, aim, got, commits, counters>>

\* _validate_preparing and _validate_restored: the destination is as it was
\* before the transaction.
DestinationIsPrevious ==
  /\ previous = Absent
  /\ (dest # Absent) = had
  /\ dest # Absent => Valid(dest, jowner)

\* Mutant: the state between the two renames of a replacement is forgotten.
PreparedCombination_NoGap ==
  IF had
  THEN \/ previous # Absent /\ dest # Absent /\ stage = Absent
       \/ previous = Absent /\ dest # Absent /\ stage # Absent
  ELSE previous = Absent /\ (dest = Absent \/ stage = Absent)

\* _validate_prepared_combination, also the cases of _restore_previous.
PreparedCombination ==
  IF had
  THEN \/ previous # Absent /\ dest = Absent
       \/ previous # Absent /\ dest # Absent /\ stage = Absent
       \/ previous = Absent /\ dest # Absent /\ stage # Absent
  ELSE previous = Absent /\ (dest = Absent \/ stage = Absent)

\* The branches of _recover_locked on the phase that was read.
DispatchOk ==
  CASE phase = "none" -> stage = Absent /\ previous = Absent
    [] phase = "preparing" -> DestinationIsPrevious
    [] phase = "prepared" -> PreparedCombination
    [] OTHER -> TRUE

DispatchTo ==
  CASE phase = "none" -> "recovered"
    [] phase = "committed" -> "fin_check"
    [] phase = "rollback_restore" -> "restore"
    [] phase = "rollback_cleanup" -> "cleanup"
    [] OTHER -> "write"

\* Mutant: a prepared transaction is cleaned up without restoring.
RecoverLocked_NoRestore(p) ==
  /\ At(p, "dispatch")
  /\ Checked(p, DispatchOk, DispatchTo)
  /\ aim' = [aim EXCEPT ![p] = IF phase \in {"preparing", "prepared"} THEN "rollback_cleanup"
                               ELSE @]
  /\ UNCHANGED <<disk, build, hadPrev, got, commits, issued, crashes>>

RecoverLocked(p) ==
  /\ At(p, "dispatch")
  /\ Checked(p, DispatchOk, DispatchTo)
  /\ aim' = [aim EXCEPT ![p] = CASE phase = "preparing" -> "rollback_cleanup"
                                 [] phase = "prepared" -> "rollback_restore"
                                 [] OTHER -> @]
  /\ UNCHANGED <<disk, build, hadPrev, got, commits, issued, crashes>>

\* _restore_previous: withdraw the new artifact to the stage path, then move the
\* previous one back; a crash between the two renames re-enters in between.
RestorePrevious(p) ==
  /\ At(p, "restore")
  /\ IF ~PreparedCombination
     THEN Finish(p, "refused") /\ UNCHANGED <<trees, faults>>
     ELSE IF previous # Absent /\ dest = Absent
     THEN \/ dest' = previous /\ previous' = Absent /\ UNCHANGED stage /\ Completes(p, "restored")
          \/ UNCHANGED trees /\ Faults(p)
     ELSE IF dest # Absent /\ stage = Absent
     THEN \/ stage' = dest /\ dest' = Absent /\ UNCHANGED previous
             /\ Completes(p, IF had THEN "restore" ELSE "restored")
          \/ UNCHANGED trees /\ Faults(p)
     ELSE Goto(p, "restored") /\ UNCHANGED <<trees, faults>>
  /\ UNCHANGED <<journal, tmp, build, hadPrev, aim, got, commits, issued, crashes>>

\* Mutant: the stage is removed before the journal says that it may be.
ValidateRestored_NoJournal(p) ==
  /\ At(p, "restored")
  /\ Checked(p, DestinationIsPrevious, "rm_stage")
  /\ UNCHANGED <<disk, build, hadPrev, aim, got, commits, issued, crashes>>

ValidateRestored(p) ==
  /\ At(p, "restored")
  /\ BeginWrite(p, "rollback_cleanup")
  /\ Checked(p, DestinationIsPrevious, "write")
  /\ UNCHANGED <<disk, build, hadPrev, got, commits, issued, crashes>>

RollbackCleanup(p) ==
  /\ At(p, "cleanup")
  /\ Checked(p, DestinationIsPrevious, "rm_stage")
  /\ UNCHANGED <<disk, build, hadPrev, aim, got, commits, issued, crashes>>

\* _remove_artifact on path a: skip what is absent; a tree loses its entries
\* one by one, so it is incomplete before it is gone.
RemoveArtifact(p, a, next, here) ==
  IF a = Absent THEN a' = Absent /\ Goto(p, next) /\ UNCHANGED faults
  ELSE \/ Kind(jowner) = "directory" /\ a.whole /\ a' = [a EXCEPT !.whole = FALSE] /\ Completes(p, here)
       \/ a' = Absent /\ Completes(p, next)
       \/ UNCHANGED a /\ Faults(p)

RemoveStage(p) ==
  /\ At(p, "rm_stage")
  /\ RemoveArtifact(p, stage, "rm_tmp", "rm_stage")
  /\ UNCHANGED <<journal, tmp, previous, dest, build, hadPrev, aim, got, commits, issued, crashes>>

\* remove_file on the journal's temporary, then on the journal itself.
RemoveTemporary(p, from, to) ==
  /\ At(p, from)
  /\ IF tmp
     THEN \/ tmp' = FALSE /\ Completes(p, to)
          \/ UNCHANGED tmp /\ Faults(p)
     ELSE Goto(p, to) /\ UNCHANGED <<tmp, faults>>
  /\ UNCHANGED <<journal, trees, build, hadPrev, aim, got, commits, issued, crashes>>

RemoveJournal(p, from) ==
  /\ At(p, from)
  /\ \/ phase' = "none" /\ had' = FALSE /\ Completes(p, "recovered")
     \/ UNCHANGED <<phase, had>> /\ Faults(p)
  /\ UNCHANGED <<jowner, tmp, trees, build, hadPrev, aim, got, commits, issued, crashes>>

\* Recovery, or the cleanup of the own commit, is done: a publisher goes on to
\* its transaction, a rolled-back one re-raises, a reader tries again.
Recovered(p) ==
  /\ At(p, "recovered")
  /\ CASE goal[p] = "acquire" ->
            /\ goal' = [goal EXCEPT ![p] = "publish"]
            /\ pc' = [pc EXCEPT ![p] = "begin"]
            /\ UNCHANGED <<lock, outcome>>
       [] goal[p] = "publish" -> Finish(p, "committed")
       [] goal[p] = "rollback" -> Finish(p, "raised")
       [] goal[p] = "recover" -> Finish(p, "recovered")
       [] goal[p] = "read" ->
            /\ pc' = [pc EXCEPT ![p] = "lock_sh"]
            /\ lock' = [lock EXCEPT ![p] = "none"]
            /\ UNCHANGED <<goal, outcome>>
  /\ UNCHANGED <<disk, build, hadPrev, aim, got, commits, counters>>

-----------------------------------------------------------------------------
(* _finish_committed, under the exclusive lock.                            *)

FinishCommitted(p) ==
  /\ At(p, "fin_check")
  /\ Checked(p, /\ stage = Absent
                /\ Valid(dest, jowner)
                /\ had \/ previous = Absent, "fin_previous")
  /\ UNCHANGED <<disk, build, hadPrev, aim, got, commits, issued, crashes>>

RemovePrevious(p) ==
  /\ At(p, "fin_previous")
  /\ RemoveArtifact(p, previous, "fin_tmp", "fin_previous")
  /\ UNCHANGED <<journal, tmp, stage, dest, build, hadPrev, aim, got, commits, issued, crashes>>

\* except OSError: the cleanup counts as done when the journal is gone.
CleanupFailed(p) ==
  /\ At(p, "fin_error")
  /\ IF phase = "none" THEN Goto(p, "recovered")
     ELSE Finish(p, IF goal[p] = "publish" THEN "pending" ELSE "raised")
  /\ UNCHANGED <<disk, build, hadPrev, aim, got, commits, counters>>

-----------------------------------------------------------------------------

Command(p) ==
  \E c \in Contents : StartPublish(p, c) \/ StartRead(p, c) \/ StartRecover(p, c)

Reader(p) == LockShared(p) \/ CheckPublished(p) \/ ReadArtifact(p)

Publisher(p) ==
  \/ BeginPublish(p)
  \/ MakeStage(p)
  \/ \E complete \in BOOLEAN : BuildStage(p, complete)
  \/ CheckStage(p)
  \/ SavePrevious(p)
  \/ InstallStage(p)
  \/ VerifyInstalled(p)
  \/ ReadJournal(p, "handler", "authority")
  \/ Authoritative(p)

Recovery(p) ==
  \/ LockExclusive(p)
  \/ ReadJournal(p, "reread", "reread_done")
  \/ RecoverPublication(p)
  \/ ReadJournal(p, "recover", "dispatch")
  \/ RecoverLocked(p)
  \/ WriteTemporary(p)
  \/ PutJournal(p)
  \/ RestorePrevious(p)
  \/ ValidateRestored(p)
  \/ RollbackCleanup(p)
  \/ RemoveStage(p)
  \/ RemoveTemporary(p, "rm_tmp", "rm_journal")
  \/ RemoveJournal(p, "rm_journal")
  \/ FinishCommitted(p)
  \/ RemovePrevious(p)
  \/ RemoveTemporary(p, "fin_tmp", "fin_journal")
  \/ RemoveJournal(p, "fin_journal")
  \/ CleanupFailed(p)
  \/ Recovered(p)

\* Steps that the code takes by itself, as opposed to commands, rejections,
\* cancellations and crashes.
Proceed(p) == Reader(p) \/ Publisher(p) \/ Recovery(p)

\* Every command that the bound allows has been issued and has ended.
Done ==
  /\ issued = MaxCommands
  /\ \A p \in Procs : At(p, "idle")
  /\ UNCHANGED vars

Next ==
  \/ \E p \in Procs : Command(p) \/ Proceed(p) \/ RejectPublish(p) \/ Cancel(p) \/ Crash(p)
  \/ Done

Spec == Init /\ [][Next]_vars

-----------------------------------------------------------------------------
(* Properties.                                                             *)

\* The value that a recovery followed by a read would find: until the journal
\* says "committed", what was at the destination before the transaction.
Visible ==
  IF phase \in {"prepared", "rollback_restore"}
  THEN IF ~had THEN Absent
       ELSE IF previous # Absent THEN previous ELSE dest
  ELSE dest

Abstract == INSTANCE PublishedArtifact WITH value <- Visible

\* The protocol implements an atomic replacement: whatever the interleaving of
\* processes, failing calls and crashes, the visible value changes only when the
\* committed journal is put in place, from one complete artifact to another of
\* the same owner; no rollback, recovery or cleanup ever changes it.
AtomicPublication == Abstract!Spec

\* Every state of the disk that an interrupted publication, rollback or cleanup
\* can leave behind is one that the next recovery accepts: none of the
\* consistency checks of _read_journal, _validate_*, _restore_previous and
\* _finish_committed ever refuses a state of the protocol's own making.  The
\* journal is removed last, and a recovery that returns has removed it: there is
\* no stage and no previous artifact that nobody would clean up, and a reader
\* that tries again does not meet the transaction that it has just recovered.
NeverRefused ==
  /\ \A p \in Procs : outcome[p] # "refused"
  /\ phase = "none" => stage = Absent /\ previous = Absent
  /\ \A p \in Procs : At(p, "recovered") => phase = "none"

\* The publisher learns the truth: it returns (with or without a cleanup
\* warning) only if its artifact was committed and raises only if it was not,
\* even when the call that put the committed journal in place raised.
TruthfulOutcome ==
  \A p \in Procs :
    /\ outcome[p] \in {"committed", "pending"} => commits[p]
    /\ outcome[p] = "raised" => ~commits[p]

\* A reader that passed its checks reads the committed value: nobody can start
\* or recover a transaction between the check and the read.
ReadsCommitted ==
  \A p \in Procs :
    At(p, "read") => /\ dest = Visible
                     /\ Valid(dest, Owner(p))
                     /\ phase \in {"none", "committed"}

\* A previous artifact is destroyed only after the new one was committed, and a
\* new one only after the previous one is back at the destination.
NothingLostEarly ==
  [][/\ (previous # Absent /\ previous' # previous /\ dest' # previous) => phase = "committed"
     /\ (stage # Absent /\ stage' = Absent /\ dest' # stage) => phase = "rollback_cleanup"]_vars

=============================================================================
