-------------------------- MODULE PublicationProofs --------------------------
(***************************************************************************)
(* Proofs about publication.  Module Publication: any processes, owners    *)
(* and artifacts and any number of failing calls and crashes on one        *)
(* destination. Module PublicationLockSet: any commands, with any inputs,  *)
(* over any number of destinations.                                        *)
(***************************************************************************)
EXTENDS Publication, FiniteSets, WellFoundedInduction, TLAPS

Unlocked == {"idle", "lock_ex", "lock_sh"}
Shared == {"check", "read"}
Publishing == {"begin", "mkdir", "build", "check_stage", "save", "install", "verify",
               "handler", "authority"}
Writing == {"write", "put"}
Restoring == {"recover", "dispatch", "restore", "restored", "cleanup", "rm_stage", "rm_tmp",
              "rm_journal"}
Rereading == {"reread", "reread_done"}
Finishing == {"fin_check", "fin_previous", "fin_tmp", "fin_journal", "fin_error"}
Labels == Unlocked \cup Shared \cup Publishing \cup Writing \cup Restoring \cup Rereading
            \cup Finishing \cup {"recovered"}

Path == Artifact \cup {Absent}

DiskTyped ==
  /\ phase \in Phases \cup {"none"} /\ had \in BOOLEAN /\ jowner \in Owners /\ tmp \in BOOLEAN
  /\ stage \in Path /\ previous \in Path /\ dest \in Path

ControlTyped ==
  /\ lock \in [Procs -> {"none", "sh", "ex"}]
  /\ pc \in [Procs -> Labels]
  /\ goal \in [Procs -> {"none", "acquire", "publish", "rollback", "read", "recover"}]
  /\ outcome \in [Procs -> {"none", "raised", "refused", "crashed", "read", "committed",
                            "recovered", "pending"}]

LocalTyped ==
  /\ build \in [Procs -> Contents]
  /\ hadPrev \in [Procs -> BOOLEAN]
  /\ aim \in [Procs -> Phases]
  /\ commits \in [Procs -> BOOLEAN]

Typed == DiskTyped /\ ControlTyped /\ LocalTyped

-----------------------------------------------------------------------------
(* What is on the disk in each phase of the journal, whoever is at work.   *)

\* The destination is as it was before the transaction.
Untouched == DestinationIsPrevious

\* The three stops on the way from the old artifact to the new one.
Swapping ==
  /\ stage # Absent => Valid(stage, jowner)
  /\ dest # Absent => Valid(dest, jowner)
  /\ previous # Absent => Valid(previous, jowner)
  /\ IF had
     THEN \/ previous = Absent /\ dest # Absent /\ stage # Absent
          \/ previous # Absent /\ dest = Absent /\ stage # Absent
          \/ previous # Absent /\ dest # Absent /\ stage = Absent
     ELSE previous = Absent /\ (dest = Absent <=> stage # Absent)

Layout ==
  /\ phase = "none" => stage = Absent /\ previous = Absent /\ (dest # Absent => dest.whole)
  /\ phase \in {"preparing", "rollback_cleanup"} => Untouched
  /\ phase \in {"prepared", "rollback_restore"} => Swapping
  /\ phase = "committed" => stage = Absent /\ Valid(dest, jowner) /\ (had \/ previous = Absent)

-----------------------------------------------------------------------------
(* What a process knows at each point of its command.                      *)

Exclusion ==
  \A p, q \in Procs : p # q /\ lock[p] = "ex" => lock[q] = "none"

\* The lock it holds and the part of the command it is in.
Flow(p) ==
  /\ lock[p] = IF pc[p] \in Unlocked THEN "none" ELSE IF pc[p] \in Shared THEN "sh" ELSE "ex"
  /\ pc[p] = "idle" => goal[p] = "none"
  /\ pc[p] = "lock_ex" => goal[p] \in {"acquire", "read", "recover"}
  /\ pc[p] \in Shared \cup {"lock_sh"} => goal[p] = "read"
  /\ pc[p] \in Publishing => goal[p] = "publish"
  /\ pc[p] \in Restoring => goal[p] \in {"acquire", "rollback", "read", "recover"}
  /\ pc[p] \in Rereading => goal[p] \in {"read", "recover"}
  /\ pc[p] \in Finishing => goal[p] \in {"acquire", "publish", "read", "recover"}
  /\ pc[p] = "recovered" => goal[p] # "none"
  /\ pc[p] \in Writing =>
       IF aim[p] \in {"preparing", "prepared", "committed"} THEN goal[p] = "publish"
       ELSE goal[p] \in {"acquire", "rollback", "read", "recover"}

\* The own transaction is in the given phase.
Own(p, ph) == phase = ph /\ jowner = Owner(p)

\* What it relies on when it writes the journal.
WriteClaim(p) ==
  /\ aim[p] = "preparing" => /\ phase = "none" /\ hadPrev[p] = (dest # Absent)
                             /\ dest # Absent => Valid(dest, Owner(p))
  /\ aim[p] = "prepared" => Own(p, "preparing") /\ Valid(stage, Owner(p))
  /\ aim[p] = "committed" => Own(p, "prepared") /\ Valid(dest, Owner(p)) /\ stage = Absent
  /\ aim[p] = "rollback_restore" => phase = "prepared"
  /\ aim[p] = "rollback_cleanup" => phase \in {"preparing", "rollback_restore"} /\ Untouched

Claim(p) ==
  /\ pc[p] = "read" => /\ phase \in {"none", "committed"} /\ Valid(dest, Owner(p))
  /\ pc[p] \in {"begin", "recovered"} => phase = "none"
  /\ pc[p] \in Writing => WriteClaim(p)
  /\ pc[p] \in {"mkdir", "build", "check_stage"} => Own(p, "preparing")
  /\ pc[p] \in {"save", "install", "verify"} => Own(p, "prepared")
  /\ pc[p] = "save" => had
  /\ pc[p] = "verify" => stage = Absent
  /\ pc[p] \in {"restore", "restored"} => phase = "rollback_restore"
  /\ pc[p] = "restored" => Untouched
  /\ pc[p] \in {"cleanup", "rm_stage", "rm_tmp", "rm_journal"} => phase = "rollback_cleanup"
  /\ pc[p] \in {"rm_tmp", "rm_journal"} => stage = Absent
  /\ pc[p] \in Finishing \ {"fin_error"} => phase = "committed"
  /\ pc[p] \in {"fin_tmp", "fin_journal"} => previous = Absent
  /\ pc[p] = "fin_error" => phase \in {"none", "committed"}
  /\ goal[p] = "rollback" => phase # "committed"

\* Whether its publication has committed, and what it has told its caller.
Truth(p) ==
  /\ commits[p] =>
       \/ pc[p] = "idle"
       \/ goal[p] = "publish" /\ pc[p] \in Finishing \cup {"recovered"}
       \/ pc[p] \in {"handler", "authority"} /\ phase = "committed" /\ ~tmp
  /\ goal[p] = "publish" /\ pc[p] \in Finishing \cup {"recovered"} => commits[p]
  /\ pc[p] \in {"handler", "authority"} /\ phase = "committed" => commits[p]
  /\ outcome[p] # "refused"
  /\ outcome[p] \in {"committed", "pending"} => commits[p]
  /\ outcome[p] = "raised" => ~commits[p]
  /\ pc[p] # "idle" => outcome[p] = "none"

Knows(p) == Flow(p) /\ Claim(p) /\ Truth(p)

IInv == Typed /\ Layout /\ Exclusion /\ \A p \in Procs : Knows(p)

-----------------------------------------------------------------------------
(* What every step of a process p does.                                    *)

OthersLocal(p) ==
  \A q \in Procs \ {p} :
    /\ pc'[q] = pc[q] /\ lock'[q] = lock[q] /\ goal'[q] = goal[q] /\ build'[q] = build[q]
    /\ hadPrev'[q] = hadPrev[q] /\ aim'[q] = aim[q] /\ outcome'[q] = outcome[q]
    /\ commits'[q] = commits[q]

LocksCompatible(p) ==
  \/ lock'[p] \in {lock[p], "none"}
  \/ lock'[p] = "sh" /\ \A q \in Procs : lock[q] # "ex"
  \/ lock'[p] = "ex" /\ \A q \in Procs : lock[q] = "none"

StepOf(p) == OthersLocal(p) /\ LocksCompatible(p) /\ (lock[p] = "ex" \/ UNCHANGED disk)

\* The visible artifact stays or is replaced as PublishedArtifact says, and no
\* artifact is destroyed too early.
Replaced == Visible' = Visible \/ Abstract!Next

NoEarlyLoss ==
  /\ (previous # Absent /\ previous' # previous /\ dest' # previous) => phase = "committed"
  /\ (stage # Absent /\ stage' = Absent /\ dest' # stage) => phase = "rollback_cleanup"

Kept(p) == Typed' /\ Layout' /\ StepOf(p) /\ Knows(p)' /\ Replaced /\ NoEarlyLoss

\* What the others know survives any such step.
LEMMA OthersKeep ==
  ASSUME IInv, NEW p \in Procs, StepOf(p), NEW q \in Procs, q # p
  PROVE  Knows(q)'
<1>1. /\ pc'[q] = pc[q] /\ lock'[q] = lock[q] /\ goal'[q] = goal[q] /\ build'[q] = build[q]
      /\ hadPrev'[q] = hadPrev[q] /\ aim'[q] = aim[q] /\ outcome'[q] = outcome[q]
      /\ commits'[q] = commits[q]
  BY Zenon DEF StepOf, OthersLocal
<1>2. Flow(q) /\ Claim(q) /\ Truth(q)
  BY Zenon DEF IInv, Knows
<1>3. Flow(q)'
  BY <1>1, <1>2, Zenon DEF Flow
<1>4. CASE UNCHANGED disk
  <2>1. /\ UNCHANGED <<phase, had, jowner, tmp, stage, previous, dest>> /\ Owner(q)' = Owner(q)
    BY <1>1, <1>4, Zenon DEF disk, Owner
  <2>2. Claim(q)'
    BY <1>1, <1>2, <2>1, Zenon DEF Claim, WriteClaim, Own, Untouched, DestinationIsPrevious, Valid
  <2>3. Truth(q)'
    BY <1>1, <1>2, <2>1, Zenon DEF Truth
  <2> QED BY <1>3, <2>2, <2>3, Zenon DEF Knows
<1>5. CASE lock[p] = "ex"
  <2>1. lock[q] = "none"
    BY <1>5, Zenon DEF IInv, Exclusion
  <2>2. pc[q] \in Unlocked
    BY <1>2, <2>1, Zenon DEF Flow
  <2>3. goal[q] # "rollback"
    BY <1>2, <2>2, Zenon DEF Flow, Unlocked, Shared
  <2>4. Claim(q)'
    BY <1>1, <2>2, <2>3, Zenon DEF Claim, Unlocked, Finishing, Writing
  <2>5. Truth(q)'
    BY <1>1, <1>2, <2>2, Zenon DEF Truth, Unlocked, Finishing
  <2> QED BY <1>3, <2>4, <2>5, Zenon DEF Knows
<1> QED BY <1>4, <1>5, Zenon DEF StepOf

\* Exclusive locks stay exclusive.
LEMMA ExclusionKept ==
  ASSUME IInv, NEW p \in Procs, StepOf(p)
  PROVE  Exclusion'
<1> SUFFICES ASSUME NEW q \in Procs, NEW r \in Procs, q # r, lock'[q] = "ex"
             PROVE  lock'[r] = "none"
  BY Zenon DEF Exclusion
<1>1. CASE q = p
  BY <1>1, Zenon DEF IInv, Exclusion, StepOf, OthersLocal, LocksCompatible
<1>2. CASE r = p
  BY <1>2, Zenon DEF IInv, Exclusion, StepOf, OthersLocal, LocksCompatible
<1>3. CASE q # p /\ r # p
  BY <1>3, Zenon DEF IInv, Exclusion, StepOf, OthersLocal
<1> QED BY <1>1, <1>2, <1>3, Zenon

\* A step that changes no journal and no tree.
LEMMA SameDisk ==
  ASSUME Layout, UNCHANGED <<journal, trees>>
  PROVE  Layout' /\ Replaced /\ NoEarlyLoss
<1>1. UNCHANGED <<phase, had, jowner, stage, previous, dest>>
  BY Zenon DEF journal, trees
<1>2. Layout'
  BY <1>1, Zenon DEF Layout, Untouched, DestinationIsPrevious, Swapping, Valid
<1>3. Replaced
  BY <1>1, Zenon DEF Replaced, Visible
<1>4. NoEarlyLoss
  BY <1>1, Zenon DEF NoEarlyLoss
<1> QED BY <1>2, <1>3, <1>4, Zenon

-----------------------------------------------------------------------------
(* The ways in which a step ends.                                          *)

\* A step of p that goes somewhere else, leaving the other processes alone.
Moved(p) ==
  /\ ControlTyped' /\ LocksCompatible(p)
  /\ \A q \in Procs \ {p} :
       pc'[q] = pc[q] /\ lock'[q] = lock[q] /\ goal'[q] = goal[q] /\ outcome'[q] = outcome[q]

\* Goto: the process goes on inside its command.
LEMMA GotoMoves ==
  ASSUME Typed, NEW p \in Procs, NEW l \in Labels, Goto(p, l)
  PROVE  /\ Moved(p)
         /\ pc'[p] = l /\ lock'[p] = lock[p] /\ goal'[p] = goal[p] /\ outcome'[p] = outcome[p]
<1> HIDE DEF Labels
<1> QED BY Zenon DEF Typed, ControlTyped, Goto, Moved, LocksCompatible

\* Finish: it leaves the lock and the command.
LEMMA FinishMoves ==
  ASSUME Typed, NEW p \in Procs,
         NEW result \in {"raised", "refused", "crashed", "read", "committed", "recovered",
                          "pending"},
         Finish(p, result)
  PROVE  /\ Moved(p)
         /\ pc'[p] = "idle" /\ lock'[p] = "none" /\ goal'[p] = "none" /\ outcome'[p] = result
BY Zenon DEF Typed, ControlTyped, Finish, Moved, LocksCompatible, Labels, Unlocked

\* Where an exception goes.
LEMMA RaiseMoves ==
  ASSUME Typed, NEW p \in Procs, Raise(p)
  PROVE  /\ Moved(p)
         /\ \/ /\ InFinish(p) /\ pc'[p] = "fin_error"
               /\ lock'[p] = lock[p] /\ goal'[p] = goal[p] /\ outcome'[p] = outcome[p]
            \/ /\ ~InFinish(p) /\ InTry(p) /\ pc'[p] = "handler"
               /\ lock'[p] = lock[p] /\ goal'[p] = goal[p] /\ outcome'[p] = outcome[p]
            \/ /\ ~InFinish(p) /\ ~InTry(p) /\ pc'[p] = "idle"
               /\ lock'[p] = "none" /\ goal'[p] = "none" /\ outcome'[p] = "raised"
<1>1. "fin_error" \in Labels /\ "handler" \in Labels
  BY Zenon DEF Labels, Finishing, Publishing
<1> QED BY <1>1, GotoMoves, FinishMoves, Zenon DEF Raise

LocalMoved(p) ==
  /\ LocalTyped'
  /\ \A q \in Procs \ {p} :
       build'[q] = build[q] /\ hadPrev'[q] = hadPrev[q] /\ aim'[q] = aim[q]
         /\ commits'[q] = commits[q]

\* The parts of a step put together.
LEMMA Assemble ==
  ASSUME NEW p \in Procs, Moved(p), LocalMoved(p), DiskTyped', lock[p] = "ex" \/ UNCHANGED disk,
         Layout', Replaced, NoEarlyLoss, Knows(p)'
  PROVE  Kept(p)
<1>1. Typed'
  BY Zenon DEF Typed, Moved, LocalMoved
<1>2. StepOf(p)
  BY Zenon DEF StepOf, OthersLocal, Moved, LocalMoved
<1> QED BY <1>1, <1>2, Zenon DEF Kept

\* Every point outside these two sets is reached with the exclusive lock held.
LEMMA Holder ==
  ASSUME IInv, NEW p \in Procs, pc[p] \notin Unlocked \cup Shared
  PROVE  lock[p] = "ex"
BY Zenon DEF IInv, Knows, Flow

\* After an exception a process knows what its next handler needs.
LEMMA RaiseKnows ==
  ASSUME IInv, NEW p \in Procs, pc[p] \notin Unlocked \cup Shared, Raise(p),
         InFinish(p) => phase' \in {"none", "committed"} /\ commits'[p] = commits[p],
         ~InFinish(p) /\ InTry(p) => /\ commits'[p] <=> phase' = "committed"
                                     /\ commits'[p] => ~tmp',
         ~InFinish(p) /\ ~InTry(p) => ~commits'[p]
  PROVE  Knows(p)'
<1>1. Typed /\ Flow(p) /\ Truth(p) /\ lock[p] = "ex"
  BY Holder, Zenon DEF IInv, Knows
<1>2. CASE InFinish(p)
  <2>1. /\ pc'[p] = "fin_error" /\ lock'[p] = "ex" /\ goal'[p] = goal[p]
        /\ outcome'[p] = outcome[p] /\ pc[p] \in Finishing /\ pc[p] # "idle"
        /\ pc[p] # "handler" /\ pc[p] # "authority"
    BY <1>1, <1>2, RaiseMoves, Zenon DEF InFinish, Finishing
  <2>2. goal[p] \in {"acquire", "publish", "read", "recover"}
    BY <1>1, <2>1, Zenon DEF Flow
  <2>3. Flow(p)'
    BY <2>1, <2>2, Zenon DEF Flow, Unlocked, Shared, Publishing, Restoring, Rereading, Writing,
       Finishing
  <2>4. Claim(p)'
    BY <1>2, <2>1, <2>2, Zenon DEF Claim, Writing, Finishing
  <2>5. Truth(p)'
    BY <1>1, <1>2, <2>1, Zenon DEF Truth, Finishing
  <2> QED BY <2>3, <2>4, <2>5, Zenon DEF Knows
<1>3. CASE ~InFinish(p) /\ InTry(p)
  <2>1. /\ pc'[p] = "handler" /\ lock'[p] = "ex" /\ goal'[p] = "publish"
        /\ outcome'[p] = outcome[p] /\ pc[p] # "idle"
    BY <1>1, <1>3, RaiseMoves, Zenon DEF InTry, Unlocked
  <2>3. Flow(p)'
    BY <2>1, Zenon DEF Flow, Unlocked, Shared, Publishing, Restoring, Rereading, Writing, Finishing
  <2>4. Claim(p)'
    BY <2>1, Zenon DEF Claim, Writing, Finishing
  <2>5. Truth(p)'
    BY <1>1, <1>3, <2>1, Zenon DEF Truth, Finishing
  <2> QED BY <2>3, <2>4, <2>5, Zenon DEF Knows
<1>4. CASE ~InFinish(p) /\ ~InTry(p)
  <2>1. pc'[p] = "idle" /\ lock'[p] = "none" /\ goal'[p] = "none" /\ outcome'[p] = "raised"
    BY <1>1, <1>4, RaiseMoves, Zenon
  <2>3. Flow(p)'
    BY <2>1, Zenon DEF Flow, Unlocked, Shared, Publishing, Restoring, Rereading, Writing, Finishing
  <2>4. Claim(p)'
    BY <2>1, Zenon DEF Claim, Writing, Finishing
  <2>5. Truth(p)'
    BY <1>4, <2>1, Zenon DEF Truth, Finishing
  <2> QED BY <2>3, <2>4, <2>5, Zenon DEF Knows
<1> QED BY <1>2, <1>3, <1>4, Zenon

\* In particular when the call that raised left journal and commit alone.
LEMMA FaultKnows ==
  ASSUME IInv, NEW p \in Procs, Raise(p), phase' = phase, commits' = commits,
         pc[p] \notin Unlocked \cup Shared
                       \cup {"begin", "authority", "fin_check", "fin_error", "recovered"},
         pc[p] = "handler" => tmp
  PROVE  Knows(p)'
<1>1. Typed /\ Flow(p) /\ Claim(p) /\ Truth(p)
  BY Zenon DEF IInv, Knows
<1>2. pc[p] \in Labels
  BY <1>1, Zenon DEF Typed, ControlTyped
<1>3. CASE InFinish(p)
  <2>1. phase = "committed"
    BY <1>1, <1>3, Zenon DEF Claim, InFinish, Finishing
  <2> QED BY <1>3, <2>1, RaiseKnows, Zenon
<1>4. CASE ~InFinish(p) /\ InTry(p)
  <2>1. goal[p] = "publish" /\ pc[p] # "handler"
    BY <1>4, Zenon DEF InTry
  <2>2. pc[p] \in {"mkdir", "build", "check_stage", "save", "install", "verify", "write", "put"}
    BY <1>1, <1>2, <1>4, <2>1, Zenon DEF Flow, InFinish, Labels, Unlocked, Shared, Publishing,
       Writing,
                                  Restoring, Rereading, Finishing
  <2>3. phase # "committed"
    <3>1. CASE pc[p] \in Writing
      <4>1. aim[p] \in {"preparing", "prepared", "committed"}
        BY <1>1, <2>1, <3>1, Zenon DEF Flow
      <4> QED BY <1>1, <3>1, <4>1, Zenon DEF Claim, WriteClaim, Own
    <3>2. CASE pc[p] \notin Writing
      BY <1>1, <2>2, <3>2, Zenon DEF Claim, Own, Writing
    <3> QED BY <3>1, <3>2, Zenon
  <2>4. ~commits[p]
    BY <1>1, <2>2, <2>3, Zenon DEF Truth, Finishing
  <2> QED BY <1>4, <2>3, <2>4, RaiseKnows, Zenon
<1>5. CASE ~InFinish(p) /\ ~InTry(p)
  <2>1. ~commits[p]
    BY <1>1, <1>5, Zenon DEF Truth, Flow, InTry, InFinish, Unlocked, Publishing, Finishing
  <2> QED BY <1>5, <2>1, RaiseKnows, Zenon
<1> QED BY <1>3, <1>4, <1>5, Zenon

\* A step that changes no local variable.
LEMMA SameLocals ==
  ASSUME Typed, UNCHANGED <<build, hadPrev, aim, commits>>, NEW p \in Procs
  PROVE  LocalMoved(p)
BY Zenon DEF Typed, LocalTyped, LocalMoved

\* A step that touches at most the journal's temporary file.
LEMMA Quiet ==
  ASSUME IInv, NEW p \in Procs, UNCHANGED <<journal, trees>>, tmp' \in BOOLEAN,
         lock[p] = "ex" \/ tmp' = tmp, Moved(p), LocalMoved(p), Knows(p)'
  PROVE  Kept(p)
<1>1. UNCHANGED <<phase, had, jowner, stage, previous, dest>>
  BY Zenon DEF journal, trees
<1>2. DiskTyped'
  BY <1>1, Zenon DEF IInv, Typed, DiskTyped
<1>3. Layout' /\ Replaced /\ NoEarlyLoss
  BY SameDisk, Zenon DEF IInv
<1>4. lock[p] = "ex" \/ UNCHANGED disk
  BY <1>1, Zenon DEF disk
<1> QED BY <1>2, <1>3, <1>4, Assemble, Zenon

\* In particular one that does not touch the disk.
LEMMA Silent ==
  ASSUME IInv, NEW p \in Procs, UNCHANGED disk, Moved(p), LocalMoved(p), Knows(p)'
  PROVE  Kept(p)
<1>1. UNCHANGED <<phase, had, jowner, tmp, stage, previous, dest>>
  BY Zenon DEF disk
<1>2. UNCHANGED <<journal, trees>> /\ tmp' = tmp /\ tmp' \in BOOLEAN
  BY <1>1, Zenon DEF journal, trees, IInv, Typed, DiskTyped
<1> QED BY <1>2, Quiet, Zenon

\* A command that ends tells the truth if its result does.
LEMMA EndKnows ==
  ASSUME IInv, NEW p \in Procs,
         NEW result \in {"raised", "crashed", "read", "committed", "recovered", "pending"},
         Finish(p, result), commits'[p] = commits[p],
         result \in {"committed", "pending"} => commits[p],
         result = "raised" => ~commits[p]
  PROVE  Moved(p) /\ Knows(p)'
<1>1. Moved(p) /\ pc'[p] = "idle" /\ lock'[p] = "none" /\ goal'[p] = "none" /\ outcome'[p] = result
  BY FinishMoves, Zenon DEF IInv
<1>2. Flow(p)'
  BY <1>1, Zenon DEF Flow, Unlocked, Shared, Publishing, Restoring, Rereading, Writing, Finishing
<1>3. Claim(p)'
  BY <1>1, Zenon DEF Claim, Writing, Finishing
<1>4. Truth(p)'
  BY <1>1, Zenon DEF Truth, Finishing
<1> QED BY <1>1, <1>2, <1>3, <1>4, Zenon DEF Knows

-----------------------------------------------------------------------------
(* The steps of a command, a crash and the reader.                         *)

\* A command starts: it holds no lock and knows nothing yet.
LEMMA StartKeeps ==
  ASSUME IInv, NEW p \in Procs, NEW c \in Contents, NEW command, NEW label,
         \/ command = "acquire" /\ label = "lock_ex"
         \/ command = "read" /\ label = "lock_sh"
         \/ command = "recover" /\ label = "lock_ex",
         Start(p, c, command, label)
  PROVE  Kept(p)
<1>1. Typed /\ Flow(p) /\ pc[p] = "idle"
  BY Zenon DEF IInv, Knows, Start, At
<1>2. /\ pc' = [pc EXCEPT ![p] = label] /\ goal' = [goal EXCEPT ![p] = command]
      /\ outcome' = [outcome EXCEPT ![p] = "none"] /\ UNCHANGED lock
  BY Zenon DEF Start
<1>3. /\ build' = [build EXCEPT ![p] = c] /\ commits' = [commits EXCEPT ![p] = FALSE]
      /\ UNCHANGED <<disk, hadPrev, aim>>
  BY Zenon DEF Start
<1>4. label \in Labels
  BY Zenon DEF Labels, Unlocked
<1>5. Moved(p)
  <2>1. ControlTyped'
    BY <1>1, <1>2, <1>4, Zenon DEF Typed, ControlTyped
  <2> QED BY <1>1, <1>2, <2>1 DEF Typed, ControlTyped, Moved, LocksCompatible
<1>6. LocalMoved(p)
  BY <1>1, <1>3, Zenon DEF Typed, LocalTyped, LocalMoved
<1>7. /\ pc'[p] = label /\ lock'[p] = "none" /\ goal'[p] = command /\ outcome'[p] = "none"
      /\ ~commits'[p]
  BY <1>1, <1>2, <1>3, Zenon DEF Typed, ControlTyped, LocalTyped, Flow, Unlocked
<1>8. Flow(p)'
  BY <1>7, Zenon DEF Flow, Unlocked, Shared, Publishing, Restoring, Rereading, Writing, Finishing
<1>9. Claim(p)'
  BY <1>7, Zenon DEF Claim, Writing, Finishing
<1>10. Truth(p)'
  BY <1>7, Zenon DEF Truth, Finishing
<1> QED BY <1>3, <1>5, <1>6, <1>8, <1>9, <1>10, Silent, Zenon DEF Knows

\* The exclusive lock is granted when nobody holds one.
LEMMA LockExclusiveKeeps ==
  ASSUME IInv, NEW p \in Procs, LockExclusive(p)
  PROVE  Kept(p)
<1>1. Typed /\ Flow(p) /\ Truth(p) /\ pc[p] = "lock_ex" /\ \A q \in Procs : lock[q] = "none"
  BY Zenon DEF IInv, Knows, LockExclusive, At
<1>2. /\ UNCHANGED <<disk, goal, build, hadPrev, aim, outcome, commits>>
      /\ lock' = [lock EXCEPT ![p] = "ex"]
      /\ pc' = [pc EXCEPT ![p] = IF goal[p] = "acquire" THEN "recover" ELSE "reread"]
  BY Zenon DEF LockExclusive, locals, results
<1>3. Moved(p)
  <2>1. "recover" \in Labels /\ "reread" \in Labels
    BY Zenon DEF Labels, Restoring, Rereading
  <2>2. ControlTyped'
    BY <1>1, <1>2, <2>1, Zenon DEF Typed, ControlTyped
  <2> QED BY <1>1, <1>2, <2>2 DEF Typed, ControlTyped, Moved, LocksCompatible
<1>4. LocalMoved(p)
  BY <1>1, <1>2, SameLocals, Zenon
<1>5. /\ lock'[p] = "ex" /\ goal'[p] = goal[p] /\ outcome'[p] = outcome[p]
      /\ commits'[p] = commits[p] /\ ~commits[p]
      /\ \/ pc'[p] = "recover" /\ goal[p] = "acquire"
         \/ pc'[p] = "reread" /\ goal[p] \in {"read", "recover"}
  BY <1>1, <1>2, Zenon DEF Typed, ControlTyped, Flow, Truth, Finishing
<1>6. Flow(p)'
  BY <1>5, Zenon DEF Flow, Unlocked, Shared, Publishing, Restoring, Rereading, Writing, Finishing
<1>7. Claim(p)'
  BY <1>5, Zenon DEF Claim, Writing, Finishing
<1>8. Truth(p)'
  BY <1>1, <1>5, Zenon DEF Truth, Finishing
<1> QED BY <1>2, <1>3, <1>4, <1>6, <1>7, <1>8, Silent, Zenon DEF Knows

\* The shared lock is granted when nobody holds the exclusive one.
LEMMA LockSharedKeeps ==
  ASSUME IInv, NEW p \in Procs, LockShared(p)
  PROVE  Kept(p)
<1>1. Typed /\ Flow(p) /\ Truth(p) /\ pc[p] = "lock_sh" /\ \A q \in Procs : lock[q] # "ex"
  BY Zenon DEF IInv, Knows, LockShared, At
<1>2. /\ UNCHANGED <<disk, goal, build, hadPrev, aim, outcome, commits>>
      /\ lock' = [lock EXCEPT ![p] = "sh"] /\ pc' = [pc EXCEPT ![p] = "check"]
  BY Zenon DEF LockShared, locals, results
<1>3. Moved(p)
  <2>1. "check" \in Labels
    BY Zenon DEF Labels, Shared
  <2>2. ControlTyped'
    BY <1>1, <1>2, <2>1, Zenon DEF Typed, ControlTyped
  <2> QED BY <1>1, <1>2, <2>2 DEF Typed, ControlTyped, Moved, LocksCompatible
<1>4. LocalMoved(p)
  BY <1>1, <1>2, SameLocals, Zenon
<1>5. /\ pc'[p] = "check" /\ lock'[p] = "sh" /\ goal'[p] = "read" /\ outcome'[p] = outcome[p]
      /\ commits'[p] = commits[p] /\ ~commits[p]
  BY <1>1, <1>2, Zenon DEF Typed, ControlTyped, Flow, Truth, Finishing
<1>6. Flow(p)'
  BY <1>5, Zenon DEF Flow, Unlocked, Shared, Publishing, Restoring, Rereading, Writing, Finishing
<1>7. Claim(p)'
  BY <1>5, Zenon DEF Claim, Writing, Finishing
<1>8. Truth(p)'
  BY <1>1, <1>5, Zenon DEF Truth, Finishing
<1> QED BY <1>2, <1>3, <1>4, <1>6, <1>7, <1>8, Silent, Zenon DEF Knows

\* A crash leaves the disk as it is, whatever the process was doing.
LEMMA CrashKeeps ==
  ASSUME IInv, NEW p \in Procs, Crash(p)
  PROVE  Kept(p)
<1>1. Finish(p, "crashed") /\ UNCHANGED <<disk, build, hadPrev, aim, commits>>
  BY Zenon DEF Crash
<1>2. LocalMoved(p)
  BY <1>1, SameLocals, Zenon DEF IInv
<1>3. Moved(p) /\ Knows(p)'
  BY <1>1, EndKnows, Zenon
<1> QED BY <1>1, <1>2, <1>3, Silent, Zenon

\* Before its commit a process has committed nothing.
LEMMA NotYet ==
  ASSUME IInv, NEW p \in Procs, pc[p] \notin {"idle", "handler", "authority"},
         goal[p] # "publish" \/ pc[p] \notin Finishing \cup {"recovered"}
  PROVE  ~commits[p]
BY Zenon DEF IInv, Knows, Truth

\* It goes on to a step that claims nothing about the commit.
LEMMA OnwardTruth ==
  ASSUME IInv, NEW p \in Procs, pc[p] # "idle", ~commits'[p],
         outcome'[p] = outcome[p], goal'[p] = goal[p],
         pc'[p] \notin {"handler", "authority"},
         goal[p] # "publish" \/ pc'[p] \notin Finishing \cup {"recovered"}
  PROVE  Truth(p)'
BY Zenon DEF IInv, Knows, Truth

\* The lock's check never refuses, and a reader that passes it may read.
LEMMA CheckPublishedKeeps ==
  ASSUME IInv, NEW p \in Procs, CheckPublished(p)
  PROVE  Kept(p)
<1>1. Typed /\ Flow(p) /\ Layout /\ pc[p] = "check" /\ lock[p] = "sh" /\ goal[p] = "read"
  BY Zenon DEF IInv, Knows, CheckPublished, At, Flow, Unlocked, Shared
<1>2. UNCHANGED <<disk, build, hadPrev, aim, commits>>
  BY Zenon DEF CheckPublished
<1>3. UNCHANGED <<phase, had, jowner, tmp, stage, previous, dest>> /\ Owner(p)' = Owner(p)
  BY <1>2, Zenon DEF disk, Owner
<1>4. ~commits[p] /\ ~commits'[p]
  BY <1>1, <1>2, NotYet, Zenon
<1>5. LocalMoved(p)
  BY <1>1, <1>2, SameLocals, Zenon
<1>6. SUFFICES Moved(p) /\ Knows(p)'
  BY <1>2, <1>5, Silent, Zenon
<1>7. CASE phase \notin {"none", "committed"}
  <2>1. pc' = [pc EXCEPT ![p] = "lock_ex"] /\ lock' = [lock EXCEPT ![p] = "none"]
        /\ UNCHANGED <<goal, outcome>>
    BY <1>7, Zenon DEF CheckPublished
  <2>2. "lock_ex" \in Labels
    BY Zenon DEF Labels, Unlocked
  <2>3. ControlTyped'
    BY <1>1, <2>1, <2>2, Zenon DEF Typed, ControlTyped
  <2>4. Moved(p)
    BY <1>1, <2>1, <2>3 DEF Typed, ControlTyped, Moved, LocksCompatible
  <2>5. pc'[p] = "lock_ex" /\ lock'[p] = "none" /\ goal'[p] = goal[p] /\ outcome'[p] = outcome[p]
    BY <1>1, <2>1, Zenon DEF Typed, ControlTyped
  <2>6. Flow(p)'
    BY <1>1, <2>5, Zenon DEF Flow, Unlocked, Shared, Publishing, Restoring, Rereading, Writing,
       Finishing
  <2>7. Claim(p)'
    BY <1>1, <2>5, Zenon DEF Claim, Writing, Finishing
  <2>8. Truth(p)'
    BY <1>1, <1>4, <2>5, OnwardTruth, Zenon
  <2> QED BY <2>4, <2>6, <2>7, <2>8, Zenon DEF Knows
<1>8. CASE phase \in {"none", "committed"}
  <2>1. StableState /\ ~(dest # Absent /\ ~dest.whole)
    BY <1>1, <1>8, Zenon DEF Layout, StableState, Valid
  <2>2. CASE ~Valid(dest, Owner(p)) \/ (phase = "committed" /\ jowner # Owner(p))
    <3>1. Finish(p, "raised")
      BY <1>8, <2>1, <2>2, Zenon DEF CheckPublished
    <3> QED BY <1>2, <1>4, <3>1, EndKnows, Zenon
  <2>3. CASE Valid(dest, Owner(p)) /\ ~(phase = "committed" /\ jowner # Owner(p))
    <3>1. Goto(p, "read")
      BY <1>8, <2>1, <2>3, Zenon DEF CheckPublished
    <3>2. "read" \in Labels
      BY Zenon DEF Labels, Shared
    <3>3. /\ Moved(p) /\ pc'[p] = "read" /\ lock'[p] = "sh" /\ goal'[p] = "read"
          /\ outcome'[p] = outcome[p]
      BY <1>1, <3>1, <3>2, GotoMoves, Zenon
    <3>4. Flow(p)'
      BY <3>3, Zenon DEF Flow, Unlocked, Shared, Publishing, Restoring, Rereading, Writing,
         Finishing
    <3>5. Claim(p)'
      BY <1>3, <1>8, <2>3, <3>3, Zenon DEF Claim, Writing, Finishing, Valid
    <3>6. Truth(p)'
      BY <1>1, <1>4, <3>3, OnwardTruth, Zenon DEF Finishing
    <3> QED BY <3>3, <3>4, <3>5, <3>6, Zenon DEF Knows
  <2> QED BY <2>2, <2>3, Zenon
<1> QED BY <1>7, <1>8, Zenon

\* The read ends the command of a reader.
LEMMA ReadArtifactKeeps ==
  ASSUME IInv, NEW p \in Procs, ReadArtifact(p)
  PROVE  Kept(p)
<1>1. Finish(p, "read") /\ UNCHANGED <<disk, build, hadPrev, aim, commits>>
  BY Zenon DEF ReadArtifact
<1>2. LocalMoved(p)
  BY <1>1, SameLocals, Zenon DEF IInv
<1>3. Moved(p) /\ Knows(p)'
  BY <1>1, EndKnows, Zenon
<1> QED BY <1>1, <1>2, <1>3, Silent, Zenon

-----------------------------------------------------------------------------
(* Access to the journal.                                                  *)

\* An exception out of a call that changed nothing but the temporary file.
LEMMA FaultKeeps ==
  ASSUME IInv, NEW p \in Procs, Raise(p), UNCHANGED <<journal, trees, commits>>, tmp' \in BOOLEAN,
         LocalMoved(p),
         pc[p] \notin Unlocked \cup Shared
                       \cup {"begin", "authority", "fin_check", "fin_error", "recovered"},
         pc[p] = "handler" => tmp
  PROVE  Kept(p)
<1>1. phase' = phase /\ commits' = commits
  BY Zenon DEF journal
<1>2. Knows(p)'
  BY <1>1, FaultKnows, Zenon
<1>3. Moved(p) /\ lock[p] = "ex"
  BY RaiseMoves, Holder, Zenon DEF IInv
<1> QED BY <1>2, <1>3, Quiet, Zenon

\* The journal is never missing while there is something to clean up, and a
\* publisher that put the committed journal in place finds no temporary file.
LEMMA ReadJournalKeeps ==
  ASSUME IInv, NEW p \in Procs, NEW from, NEW to,
         \/ from = "handler" /\ to = "authority"
         \/ from = "reread" /\ to = "reread_done"
         \/ from = "recover" /\ to = "dispatch",
         ReadJournal(p, from, to)
  PROVE  Kept(p)
<1>1. Typed /\ Flow(p) /\ Claim(p) /\ Truth(p) /\ Layout /\ pc[p] = from
  BY Zenon DEF IInv, Knows, ReadJournal, At
<1>2. UNCHANGED <<journal, trees, build, hadPrev, aim, commits>>
  BY Zenon DEF ReadJournal
<1>3. UNCHANGED <<phase, had, jowner, stage, previous, dest>> /\ commits'[p] = commits[p]
  BY <1>2, Zenon DEF journal, trees
<1>4. from \notin Unlocked \cup Shared \cup {"begin", "authority", "fin_check", "fin_error",
                                             "recovered"}
  BY Zenon DEF Unlocked, Shared
<1>5. lock[p] = "ex" /\ LocalMoved(p)
  BY <1>1, <1>2, <1>4, Holder, SameLocals, Zenon
<1>6. ~(phase = "none" /\ tmp /\ (stage # Absent \/ previous # Absent))
  BY <1>1, Zenon DEF Layout
<1>7. \/ tmp /\ tmp' = FALSE /\ Goto(p, to)
      \/ ~tmp /\ tmp' = tmp /\ Goto(p, to)
      \/ tmp /\ tmp' \in BOOLEAN /\ Raise(p)
  <2>1. tmp \in BOOLEAN
    BY <1>1, Zenon DEF Typed, DiskTyped
  <2> QED BY <1>6, <2>1, Zenon DEF ReadJournal, Completes, Faults
<1>8. CASE tmp /\ tmp' \in BOOLEAN /\ Raise(p)
  BY <1>1, <1>2, <1>4, <1>5, <1>8, FaultKeeps, Zenon
<1>9. CASE Goto(p, to) /\ tmp' = FALSE
  <2>1. to \in Labels
    BY Zenon DEF Labels, Publishing, Rereading, Restoring
  <2>2. /\ Moved(p) /\ pc'[p] = to /\ lock'[p] = "ex" /\ goal'[p] = goal[p]
        /\ outcome'[p] = outcome[p]
    BY <1>1, <1>5, <1>9, <2>1, GotoMoves, Zenon
  <2>3. Flow(p)'
    BY <1>1, <2>2, Zenon DEF Flow, Unlocked, Shared, Publishing, Restoring, Rereading, Writing,
       Finishing
  <2>4. Claim(p)'
    BY <1>1, <1>3, <2>2, Zenon DEF Claim, Writing, Finishing
  <2>5. Truth(p)'
    BY <1>1, <1>3, <1>9, <2>2, Zenon DEF Truth, Finishing
  <2> QED BY <1>2, <1>5, <1>9, <2>2, <2>3, <2>4, <2>5, Quiet, Zenon DEF Knows
<1> QED BY <1>1, <1>7, <1>8, <1>9, Zenon DEF Typed, DiskTyped

\* write_json_atomic, first half: only the temporary file changes.
LEMMA WriteTemporaryKeeps ==
  ASSUME IInv, NEW p \in Procs, WriteTemporary(p)
  PROVE  Kept(p)
<1>1. Typed /\ Flow(p) /\ Claim(p) /\ Truth(p) /\ pc[p] = "write"
  BY Zenon DEF IInv, Knows, WriteTemporary, At
<1>2. UNCHANGED <<journal, trees, build, hadPrev, aim, commits>>
  BY Zenon DEF WriteTemporary
<1>3. UNCHANGED <<phase, had, jowner, stage, previous, dest>> /\ Owner(p)' = Owner(p)
  BY <1>2, Zenon DEF journal, trees, Owner
<1>4. lock[p] = "ex" /\ LocalMoved(p)
  BY <1>1, <1>2, Holder, SameLocals, Zenon DEF Unlocked, Shared
<1>5. ~commits[p] /\ ~commits'[p]
  BY <1>1, <1>2, NotYet, Zenon DEF Finishing
<1>6. tmp' \in BOOLEAN /\ (Goto(p, "put") \/ Raise(p))
  BY <1>1, Zenon DEF WriteTemporary, Completes, Faults, Typed, DiskTyped
<1>7. CASE Raise(p)
  BY <1>1, <1>2, <1>4, <1>6, <1>7, FaultKeeps, Zenon DEF Unlocked, Shared
<1>8. CASE Goto(p, "put")
  <2>1. "put" \in Labels
    BY Zenon DEF Labels, Writing
  <2>2. /\ Moved(p) /\ pc'[p] = "put" /\ lock'[p] = "ex" /\ goal'[p] = goal[p]
        /\ outcome'[p] = outcome[p]
    BY <1>1, <1>4, <1>8, <2>1, GotoMoves, Zenon
  <2>3. Flow(p)'
    BY <1>1, <1>2, <2>2, Zenon DEF Flow, Unlocked, Shared, Publishing, Restoring, Rereading,
       Writing,
                            Finishing
  <2>4. WriteClaim(p)'
    BY <1>1, <1>2, <1>3, Zenon DEF Claim, WriteClaim, Own, Untouched, DestinationIsPrevious,
       Valid, Writing
  <2>5. Claim(p)'
    BY <1>1, <1>3, <2>2, <2>4, Zenon DEF Claim, Writing, Finishing
  <2>6. Truth(p)'
    BY <1>1, <1>5, <2>2, OnwardTruth, Zenon DEF Finishing
  <2> QED BY <1>2, <1>4, <1>6, <2>2, <2>3, <2>5, <2>6, Quiet, Zenon DEF Knows
<1> QED BY <1>6, <1>7, <1>8, Zenon

\* The new journal is in place: what it says of the disk is true, whichever
\* phase it records.
Put(p) ==
  /\ tmp' = FALSE /\ phase' = aim[p] /\ UNCHANGED trees
  /\ had' = IF aim[p] = "preparing" THEN hadPrev[p] ELSE had
  /\ jowner' = IF aim[p] = "preparing" THEN Owner(p) ELSE jowner
  /\ commits' = [commits EXCEPT ![p] = @ \/ aim[p] = "committed"]
  /\ UNCHANGED <<build, hadPrev, aim>>

\* What the new journal says of the three trees is true of them.
LEMMA PutLayout ==
  ASSUME Typed, Layout, NEW p \in Procs, WriteClaim(p), Put(p)
  PROVE  Layout'
<1>1. UNCHANGED <<stage, previous, dest>> /\ phase' = aim[p] /\ aim[p] \in Phases
  BY Zenon DEF Put, trees, Typed, LocalTyped
<1>2. CASE aim[p] = "preparing"
  <2>1. previous = Absent /\ hadPrev[p] = (dest # Absent)
          /\ (dest # Absent => Valid(dest, Owner(p)))
    BY <1>2, Zenon DEF WriteClaim, Layout
  <2>2. had' = hadPrev[p] /\ jowner' = Owner(p)
    BY <1>2, Zenon DEF Put
  <2>3. Untouched'
    BY <1>1, <2>1, <2>2, Zenon DEF Untouched, DestinationIsPrevious, Valid
  <2> QED BY <1>1, <1>2, <2>3, Zenon DEF Layout
<1>3. CASE aim[p] # "preparing"
  <2>1. had' = had /\ jowner' = jowner
    BY <1>3, Zenon DEF Put
  <2>2. CASE aim[p] = "prepared"
    <3>1. Untouched /\ Valid(stage, jowner)
      BY <2>2, Zenon DEF WriteClaim, Layout, Own
    <3>2. Swapping'
      BY <1>1, <2>1, <3>1, Zenon DEF Untouched, DestinationIsPrevious, Swapping, Valid
    <3> QED BY <1>1, <2>2, <3>2, Zenon DEF Layout
  <2>3. CASE aim[p] = "committed"
    <3>1. Swapping /\ Valid(dest, jowner) /\ stage = Absent
      BY <2>3, Zenon DEF WriteClaim, Layout, Own
    <3>2. stage' = Absent /\ Valid(dest, jowner)' /\ (had' \/ previous' = Absent)
      BY <1>1, <2>1, <3>1, Zenon DEF Swapping, Valid
    <3> QED BY <1>1, <2>3, <3>2, Zenon DEF Layout
  <2>4. CASE aim[p] = "rollback_restore"
    <3>1. Swapping
      BY <2>4, Zenon DEF WriteClaim, Layout
    <3>2. Swapping'
      BY <1>1, <2>1, <3>1, Zenon DEF Swapping, Valid
    <3> QED BY <1>1, <2>4, <3>2, Zenon DEF Layout
  <2>5. CASE aim[p] = "rollback_cleanup"
    <3>1. Untouched
      BY <2>5, Zenon DEF WriteClaim
    <3>2. Untouched'
      BY <1>1, <2>1, <3>1, Zenon DEF Untouched, DestinationIsPrevious, Valid
    <3> QED BY <1>1, <2>5, <3>2, Zenon DEF Layout
  <2> QED BY <1>1, <1>3, <2>2, <2>3, <2>4, <2>5, Zenon DEF Phases
<1> QED BY <1>2, <1>3, Zenon

\* Only the committed journal changes the visible artifact, and it replaces the
\* previous one, whole, by the new one, whole, of the same owner.
LEMMA PutReplaces ==
  ASSUME Typed, Layout, NEW p \in Procs, WriteClaim(p), Put(p)
  PROVE  Replaced
<1>1. UNCHANGED <<stage, previous, dest>> /\ phase' = aim[p] /\ aim[p] \in Phases
  BY Zenon DEF Put, trees, Typed, LocalTyped
<1>2. CASE aim[p] = "preparing"
  BY <1>1, <1>2, Zenon DEF Replaced, Visible, WriteClaim
<1>3. CASE aim[p] = "prepared"
  <2>1. Untouched /\ phase = "preparing" /\ had' = had
    BY <1>3, Zenon DEF WriteClaim, Layout, Own, Put
  <2> QED BY <1>1, <1>3, <2>1, Zenon DEF Replaced, Visible, Untouched, DestinationIsPrevious
<1>4. CASE aim[p] = "committed"
  <2>1. Swapping /\ phase = "prepared" /\ Valid(dest, jowner) /\ stage = Absent
    BY <1>4, Zenon DEF WriteClaim, Layout, Own
  <2>2. dest \in Artifact /\ dest.content \in Contents /\ dest = Abstract!Complete(dest.content)
    BY <2>1, Zenon DEF Typed, DiskTyped, Path, Artifact, Valid, Abstract!Complete
  <2>3. Visible = Absent \/ OwnerOf[Visible.content] = OwnerOf[dest.content]
    BY <2>1, Zenon DEF Visible, Swapping, Valid
  <2>4. Visible' = dest
    BY <1>1, <1>4, Zenon DEF Visible
  <2>5. Abstract!Publish(dest.content)
    BY <2>2, <2>3, <2>4, Zenon DEF Abstract!Publish
  <2> QED BY <2>2, <2>5, Zenon DEF Replaced, Abstract!Next
<1>5. CASE aim[p] = "rollback_restore"
  <2>1. phase = "prepared" /\ had' = had
    BY <1>5, Zenon DEF WriteClaim, Put
  <2> QED BY <1>1, <1>5, <2>1, Zenon DEF Replaced, Visible
<1>6. CASE aim[p] = "rollback_cleanup"
  <2>1. Untouched /\ phase \in {"preparing", "rollback_restore"}
    BY <1>6, Zenon DEF WriteClaim
  <2> QED BY <1>1, <1>6, <2>1, Zenon DEF Replaced, Visible, Untouched, DestinationIsPrevious
<1> QED BY <1>1, <1>2, <1>3, <1>4, <1>5, <1>6, Zenon DEF Phases

\* write_json_atomic, second half, whether it returns or raises.
LEMMA PutJournalKeeps ==
  ASSUME IInv, NEW p \in Procs, PutJournal(p)
  PROVE  Kept(p)
<1>1. Typed /\ Flow(p) /\ Claim(p) /\ WriteClaim(p) /\ Layout /\ pc[p] = "put"
  BY Zenon DEF IInv, Knows, PutJournal, At, Claim, Writing
<1>2. lock[p] = "ex" /\ pc[p] \notin Unlocked \cup Shared
  BY <1>1, Holder, Zenon DEF Unlocked, Shared
<1>3. ~commits[p]
  BY <1>1, NotYet, Zenon DEF Finishing
<1>4. CASE UNCHANGED <<tmp, journal, commits>> /\ Faults(p)
  <2>1. UNCHANGED <<trees, build, hadPrev, aim>> /\ Raise(p)
    BY <1>4, Zenon DEF PutJournal, Faults
  <2>2. LocalMoved(p) /\ tmp' \in BOOLEAN
    BY <1>1, <1>4, <2>1, SameLocals, Zenon DEF Typed, DiskTyped
  <2> QED BY <1>1, <1>2, <1>4, <2>1, <2>2, FaultKeeps, Zenon
<1>5. CASE Put(p) /\ (Goto(p, AfterPut(p)) \/ Raise(p))
  <2>1. Layout' /\ Replaced
    BY <1>1, <1>5, PutLayout, PutReplaces, Zenon
  <2>2. NoEarlyLoss
    BY <1>5, Zenon DEF Put, trees, NoEarlyLoss
  <2>3. LocalMoved(p) /\ (commits'[p] <=> aim[p] = "committed")
    BY <1>1, <1>3, <1>5, Zenon DEF Typed, LocalTyped, LocalMoved, Put
  <2>4. DiskTyped'
    <3>1. Owner(p) \in Owners /\ aim[p] \in Phases /\ hadPrev[p] \in BOOLEAN
      BY <1>1, ConstantsAssumption, Zenon DEF Typed, LocalTyped, Owner
    <3> QED BY <1>1, <1>5, <3>1, Zenon DEF Typed, DiskTyped, Put, trees
  <2>5. phase' = aim[p] /\ tmp' = FALSE /\ aim'[p] = aim[p] /\ UNCHANGED <<stage, previous, dest>>
        /\ Owner(p)' = Owner(p)
    BY <1>5, Zenon DEF Put, trees, Owner
  <2>6. CASE Raise(p)
    <3>1. ~InFinish(p) /\ (~InTry(p) => aim[p] # "committed")
      BY <1>1, Zenon DEF InFinish, InTry, Flow, Writing
    <3>2. Knows(p)'
      BY <1>2, <2>3, <2>5, <2>6, <3>1, RaiseKnows, Zenon
    <3>3. Moved(p)
      BY <1>1, <2>6, RaiseMoves, Zenon
    <3> QED BY <1>2, <2>1, <2>2, <2>3, <2>4, <3>2, <3>3, Assemble, Zenon
  <2>7. CASE Goto(p, AfterPut(p))
    <3>1. \/ aim[p] = "preparing" /\ AfterPut(p) \in {"mkdir", "build"}
          \/ aim[p] = "prepared" /\ AfterPut(p) = "install"
          \/ aim[p] = "prepared" /\ AfterPut(p) = "save" /\ had
          \/ aim[p] = "committed" /\ AfterPut(p) = "fin_check"
          \/ aim[p] = "rollback_restore" /\ AfterPut(p) = "restore"
          \/ aim[p] = "rollback_cleanup" /\ AfterPut(p) = "cleanup"
      BY <1>1, Zenon DEF Typed, LocalTyped, Phases, AfterPut
    <3>2. AfterPut(p) \in Labels
      BY <3>1, Zenon DEF Labels, Publishing, Restoring, Finishing
    <3>3. /\ Moved(p) /\ pc'[p] = AfterPut(p) /\ lock'[p] = "ex" /\ goal'[p] = goal[p]
          /\ outcome'[p] = outcome[p]
      BY <1>1, <1>2, <2>7, <3>2, GotoMoves, Zenon
    <3>4. IF aim[p] \in {"preparing", "prepared", "committed"} THEN goal[p] = "publish"
          ELSE goal[p] \in {"acquire", "rollback", "read", "recover"}
      BY <1>1, Zenon DEF Flow, Writing
    <3>5. Flow(p)'
      BY <3>1, <3>3, <3>4, Zenon DEF Flow, Unlocked, Shared, Publishing, Restoring, Rereading,
         Writing,
                              Finishing
    <3>6. /\ jowner' = IF aim[p] = "preparing" THEN Owner(p) ELSE jowner
          /\ aim[p] # "preparing" => had' = had
      BY <1>5, Zenon DEF Put
    <3>7. Claim(p)'
      BY <1>1, <2>5, <3>1, <3>3, <3>4, <3>6, Zenon DEF Claim, WriteClaim, Own, Writing, Finishing
    <3>8. Truth(p)'
      BY <1>1, <2>3, <2>5, <3>1, <3>3, <3>4, Zenon DEF IInv, Knows, Truth, Finishing
    <3> QED BY <1>2, <2>1, <2>2, <2>3, <2>4, <3>3, <3>5, <3>7, <3>8, Assemble, Zenon DEF Knows
  <2> QED BY <1>5, <2>6, <2>7, Zenon
<1> QED BY <1>4, <1>5, Zenon DEF PutJournal, Put, Completes, Faults

-----------------------------------------------------------------------------
(* The steps of _publish_artifact.                                         *)

\* An exception out of a call that changed the trees.
LEMMA FaultAfter ==
  ASSUME IInv, NEW p \in Procs, Raise(p), phase' = phase, commits' = commits, LocalMoved(p),
         DiskTyped', Layout', Replaced, NoEarlyLoss,
         pc[p] \notin Unlocked \cup Shared
                       \cup {"begin", "handler", "authority", "fin_check", "fin_error", "recovered"}
  PROVE  Kept(p)
<1>1. Knows(p)'
  BY FaultKnows, Zenon
<1>2. Moved(p) /\ lock[p] = "ex"
  BY RaiseMoves, Holder, Zenon DEF IInv
<1> QED BY <1>1, <1>2, Assemble, Zenon

\* While the destination is as it was, the stage may be built or removed.
LEMMA StageBuilt ==
  ASSUME IInv, UNCHANGED <<journal, tmp, previous, dest>>,
         phase \in {"preparing", "rollback_cleanup"}, stage' \in Path,
         phase = "preparing" => stage' # Absent
  PROVE  DiskTyped' /\ Layout' /\ Replaced /\ NoEarlyLoss
<1>1. UNCHANGED <<phase, had, jowner, tmp, previous, dest>>
  BY Zenon DEF journal
<1>2. DiskTyped'
  BY <1>1, Zenon DEF IInv, Typed, DiskTyped
<1>3. Untouched
  BY Zenon DEF IInv, Layout
<1>4. Untouched'
  BY <1>1, <1>3, Zenon DEF Untouched, DestinationIsPrevious, Valid
<1>5. Layout'
  BY <1>1, <1>4, Zenon DEF Layout
<1>6. Replaced
  BY <1>1, Zenon DEF Replaced, Visible
<1>7. NoEarlyLoss
  BY <1>1, Zenon DEF NoEarlyLoss
<1> QED BY <1>2, <1>5, <1>6, <1>7, Zenon

BeforeCommit == {"begin", "mkdir", "build", "check_stage", "save", "install", "verify"}

\* A publisher that goes on before its commit has committed nothing.
LEMMA PublisherMoves ==
  ASSUME IInv, NEW p \in Procs, pc[p] \in BeforeCommit, NEW l \in BeforeCommit \cup {"write"},
         Goto(p, l), commits' = commits,
         l = "write" => aim'[p] \in {"preparing", "prepared", "committed"}
  PROVE  Moved(p) /\ pc'[p] = l /\ goal'[p] = "publish" /\ Flow(p)' /\ Truth(p)'
<1>1. goal[p] = "publish" /\ lock[p] = "ex" /\ Typed
  BY Holder, Zenon DEF IInv, Knows, Flow, BeforeCommit, Publishing, Unlocked, Shared
<1>2. ~commits'[p]
  BY NotYet, Zenon DEF BeforeCommit, Finishing
<1>3. l \in Labels
  BY Zenon DEF BeforeCommit, Labels, Publishing, Writing
<1>4. /\ Moved(p) /\ pc'[p] = l /\ lock'[p] = "ex" /\ goal'[p] = "publish"
      /\ outcome'[p] = outcome[p]
  BY <1>1, <1>3, GotoMoves, Zenon
<1>5. Flow(p)'
  BY <1>4, Zenon DEF Flow, BeforeCommit, Unlocked, Shared, Publishing, Restoring, Rereading,
     Writing,
              Finishing
<1>6. Truth(p)'
  BY <1>1, <1>2, <1>4, OnwardTruth, Zenon DEF BeforeCommit, Finishing
<1> QED BY <1>4, <1>5, <1>6, Zenon

\* _publish_artifact refuses the request before it writes anything.
LEMMA RejectPublishKeeps ==
  ASSUME IInv, NEW p \in Procs, RejectPublish(p)
  PROVE  Kept(p)
<1>1. /\ Finish(p, "raised") /\ UNCHANGED <<disk, build, hadPrev, aim, commits>>
      /\ pc[p] = "begin"
  BY Zenon DEF RejectPublish, At
<1>2. LocalMoved(p) /\ ~commits[p]
  BY <1>1, SameLocals, NotYet, Zenon DEF IInv, Finishing
<1>3. Moved(p) /\ Knows(p)'
  BY <1>1, <1>2, EndKnows, Zenon
<1> QED BY <1>1, <1>2, <1>3, Silent, Zenon

\* It remembers whether there is an artifact to replace.
LEMMA BeginPublishKeeps ==
  ASSUME IInv, NEW p \in Procs, BeginPublish(p)
  PROVE  Kept(p)
<1>1. /\ pc[p] = "begin" /\ Goto(p, "write") /\ UNCHANGED <<disk, build, commits>>
      /\ hadPrev' = [hadPrev EXCEPT ![p] = dest # Absent]
      /\ aim' = [aim EXCEPT ![p] = "preparing"]
      /\ dest = Absent \/ Valid(dest, Owner(p))
  BY Zenon DEF BeginPublish, BeginWrite, At
<1>2. Typed /\ phase = "none"
  BY <1>1, Zenon DEF IInv, Knows, Claim
<1>3. LocalMoved(p) /\ aim'[p] = "preparing" /\ hadPrev'[p] = (dest # Absent)
  BY <1>1, <1>2, Zenon DEF Typed, LocalTyped, LocalMoved, Phases
<1>4. Moved(p) /\ pc'[p] = "write" /\ goal'[p] = "publish" /\ Flow(p)' /\ Truth(p)'
  BY <1>1, <1>3, PublisherMoves, Zenon DEF BeforeCommit
<1>5. UNCHANGED <<phase, dest>> /\ Owner(p)' = Owner(p)
  BY <1>1, Zenon DEF disk, Owner
<1>6. WriteClaim(p)'
  BY <1>1, <1>2, <1>3, <1>5 DEF WriteClaim, Valid
<1>7. Claim(p)'
  BY <1>4, <1>6, Zenon DEF Claim, Writing, Finishing
<1> QED BY <1>1, <1>3, <1>4, <1>7, Silent, Zenon DEF Knows

\* The two steps that make the stage.
LEMMA StageStepKeeps ==
  ASSUME IInv, NEW p \in Procs, MakeStage(p) \/ \E complete \in BOOLEAN : BuildStage(p, complete)
  PROVE  Kept(p)
<1>1. PICK here \in {"mkdir", "build"}, next \in {"build", "check_stage"} :
        /\ pc[p] = here
        /\ UNCHANGED <<journal, tmp, previous, dest, build, hadPrev, aim, commits>>
        /\ \/ /\ \E w \in BOOLEAN : stage' = [content |-> build[p], whole |-> w]
              /\ Goto(p, next) \/ Raise(p)
           \/ stage' = stage /\ Raise(p)
  BY Zenon DEF MakeStage, BuildStage, At, Completes, Faults
<1>2. Typed /\ phase = "preparing" /\ jowner = Owner(p)
  BY <1>1, Zenon DEF IInv, Knows, Claim, Own
<1>3. UNCHANGED <<phase, jowner>> /\ Owner(p)' = Owner(p)
  BY <1>1, Zenon DEF journal, Owner
<1>4. LocalMoved(p) /\ lock[p] = "ex"
  BY <1>1, <1>2, SameLocals, Holder, Zenon DEF Unlocked, Shared
<1>5. CASE stage' = stage /\ Raise(p)
  <2>1. UNCHANGED <<journal, trees, commits>> /\ tmp' \in BOOLEAN
    BY <1>1, <1>2, <1>5, Zenon DEF trees, Typed, DiskTyped
  <2> QED BY <1>1, <1>4, <1>5, <2>1, FaultKeeps, Zenon DEF Unlocked, Shared
<1>6. CASE /\ \E w \in BOOLEAN : stage' = [content |-> build[p], whole |-> w]
           /\ Goto(p, next) \/ Raise(p)
  <2>1. stage' \in Artifact
    BY <1>2, <1>6 DEF Typed, LocalTyped, Artifact
  <2>2. stage' \in Path /\ stage' # Absent
    BY <2>1, ConstantsAssumption, Zenon DEF Path
  <2>3. DiskTyped' /\ Layout' /\ Replaced /\ NoEarlyLoss
    BY <1>1, <1>2, <2>2, StageBuilt, Zenon
  <2>4. CASE Raise(p)
    BY <1>1, <1>3, <1>4, <2>3, <2>4, FaultAfter, Zenon DEF Unlocked, Shared
  <2>5. CASE Goto(p, next)
    <3>1. Moved(p) /\ pc'[p] = next /\ goal'[p] = "publish" /\ Flow(p)' /\ Truth(p)'
      BY <1>1, <2>5, PublisherMoves, Zenon DEF BeforeCommit
    <3>2. Claim(p)'
      BY <1>2, <1>3, <3>1, Zenon DEF Claim, Own, Writing, Finishing
    <3> QED BY <1>4, <2>3, <3>1, <3>2, Assemble, Zenon DEF Knows
  <2> QED BY <1>6, <2>4, <2>5, Zenon
<1> QED BY <1>1, <1>5, <1>6, Zenon

\* Only a valid stage is declared prepared.
LEMMA CheckStageKeeps ==
  ASSUME IInv, NEW p \in Procs, CheckStage(p)
  PROVE  Kept(p)
<1>1. pc[p] = "check_stage" /\ UNCHANGED <<disk, build, hadPrev, commits>>
  BY Zenon DEF CheckStage, At
<1>2. Typed /\ phase = "preparing" /\ jowner = Owner(p)
  BY <1>1, Zenon DEF IInv, Knows, Claim, Own
<1>3. UNCHANGED <<journal, trees, tmp>> /\ UNCHANGED <<phase, jowner, stage>>
        /\ Owner(p)' = Owner(p)
      /\ tmp' \in BOOLEAN
  BY <1>1, <1>2, Zenon DEF disk, journal, trees, Owner, Typed, DiskTyped
<1>4. \/ Raise(p) /\ aim' = aim
      \/ Valid(stage, Owner(p)) /\ aim' = [aim EXCEPT ![p] = "prepared"]
           /\ (Goto(p, "write") \/ Raise(p))
  BY Zenon DEF CheckStage, BeginWrite, Completes, Faults
<1>5. LocalMoved(p)
  BY <1>1, <1>2, <1>4, Zenon DEF Typed, LocalTyped, LocalMoved, Phases
<1>6. CASE Raise(p)
  BY <1>1, <1>3, <1>5, <1>6, FaultKeeps, Zenon DEF Unlocked, Shared
<1>7. CASE Valid(stage, Owner(p)) /\ aim' = [aim EXCEPT ![p] = "prepared"] /\ Goto(p, "write")
  <2>1. aim'[p] = "prepared"
    BY <1>2, <1>7, Zenon DEF Typed, LocalTyped
  <2>2. Moved(p) /\ pc'[p] = "write" /\ goal'[p] = "publish" /\ Flow(p)' /\ Truth(p)'
    BY <1>1, <1>7, <2>1, PublisherMoves, Zenon DEF BeforeCommit
  <2>3. WriteClaim(p)'
    BY <1>2, <1>3, <1>7, <2>1, Zenon DEF WriteClaim, Own, Valid
  <2>4. Claim(p)'
    BY <2>2, <2>3, Zenon DEF Claim, Writing, Finishing
  <2> QED BY <1>1, <1>5, <2>2, <2>4, Silent, Zenon DEF Knows
<1> QED BY <1>4, <1>6, <1>7, Zenon

\* The first rename: the old artifact leaves the destination and is still what a
\* recovery would restore.
LEMMA SavePreviousKeeps ==
  ASSUME IInv, NEW p \in Procs, SavePrevious(p)
  PROVE  Kept(p)
<1>1. /\ pc[p] = "save"
      /\ UNCHANGED <<journal, tmp, stage, build, hadPrev, aim, commits>>
  BY Zenon DEF SavePrevious, At
<1>2. Typed /\ phase = "prepared" /\ jowner = Owner(p) /\ had /\ Swapping
  BY <1>1, Zenon DEF IInv, Knows, Claim, Own, Layout
<1>3. UNCHANGED <<phase, had, jowner, tmp, stage>> /\ Owner(p)' = Owner(p)
  BY <1>1, Zenon DEF journal, Owner
<1>4. LocalMoved(p) /\ lock[p] = "ex"
  BY <1>1, <1>2, SameLocals, Holder, Zenon DEF Unlocked, Shared
<1>5. CASE UNCHANGED <<previous, dest>> /\ Raise(p)
  <2>1. UNCHANGED <<journal, trees, commits>> /\ tmp' \in BOOLEAN
    BY <1>1, <1>2, <1>5, Zenon DEF trees, Typed, DiskTyped
  <2> QED BY <1>1, <1>4, <1>5, <2>1, FaultKeeps, Zenon DEF Unlocked, Shared
<1>6. CASE previous = Absent /\ previous' = dest /\ dest' = Absent
             /\ (Goto(p, "install") \/ Raise(p))
  <2>1. dest # Absent /\ stage # Absent /\ Valid(dest, jowner) /\ Valid(stage, jowner)
    BY <1>2, <1>6, Zenon DEF Swapping
  <2>2. DiskTyped'
    BY <1>2, <1>3, <1>6, Zenon DEF Typed, DiskTyped, Path
  <2>3. Swapping'
    BY <1>2, <1>3, <1>6, <2>1, Zenon DEF Swapping, Valid
  <2>4. Layout'
    BY <1>2, <1>3, <2>3, Zenon DEF Layout
  <2>5. Replaced
    BY <1>2, <1>3, <1>6, <2>1, Zenon DEF Replaced, Visible
  <2>6. NoEarlyLoss
    BY <1>3, <1>6, <2>1, Zenon DEF NoEarlyLoss
  <2>7. CASE Raise(p)
    BY <1>1, <1>3, <1>4, <2>2, <2>4, <2>5, <2>6, <2>7, FaultAfter, Zenon DEF Unlocked, Shared
  <2>8. CASE Goto(p, "install")
    <3>1. Moved(p) /\ pc'[p] = "install" /\ goal'[p] = "publish" /\ Flow(p)' /\ Truth(p)'
      BY <1>1, <2>8, PublisherMoves, Zenon DEF BeforeCommit
    <3>2. Claim(p)'
      BY <1>2, <1>3, <3>1, Zenon DEF Claim, Own, Writing, Finishing
    <3> QED BY <1>4, <2>2, <2>4, <2>5, <2>6, <3>1, <3>2, Assemble, Zenon DEF Knows
  <2> QED BY <1>6, <2>7, <2>8, Zenon
<1> QED BY <1>5, <1>6, Zenon DEF SavePrevious, Completes, Faults

\* The second rename: the new artifact is at the destination, not yet visible.
LEMMA InstallStageKeeps ==
  ASSUME IInv, NEW p \in Procs, InstallStage(p)
  PROVE  Kept(p)
<1>1. /\ pc[p] = "install"
      /\ UNCHANGED <<journal, tmp, previous, build, hadPrev, aim, commits>>
  BY Zenon DEF InstallStage, At
<1>2. Typed /\ phase = "prepared" /\ jowner = Owner(p) /\ Swapping
  BY <1>1, Zenon DEF IInv, Knows, Claim, Own, Layout
<1>3. UNCHANGED <<phase, had, jowner, tmp, previous>> /\ Owner(p)' = Owner(p)
  BY <1>1, Zenon DEF journal, Owner
<1>4. LocalMoved(p) /\ lock[p] = "ex"
  BY <1>1, <1>2, SameLocals, Holder, Zenon DEF Unlocked, Shared
<1>5. CASE UNCHANGED <<stage, dest>> /\ Raise(p)
  <2>1. UNCHANGED <<journal, trees, commits>> /\ tmp' \in BOOLEAN
    BY <1>1, <1>2, <1>5, Zenon DEF trees, Typed, DiskTyped
  <2> QED BY <1>1, <1>4, <1>5, <2>1, FaultKeeps, Zenon DEF Unlocked, Shared
<1>6. CASE dest = Absent /\ dest' = stage /\ stage' = Absent /\ (Goto(p, "verify") \/ Raise(p))
  <2>1. stage # Absent /\ Valid(stage, jowner) /\ (had <=> previous # Absent)
    BY <1>2, <1>6, Zenon DEF Swapping, Typed, DiskTyped
  <2>2. DiskTyped'
    BY <1>2, <1>3, <1>6, Zenon DEF Typed, DiskTyped, Path
  <2>3. Swapping'
    BY <1>2, <1>3, <1>6, <2>1, Zenon DEF Swapping, Valid
  <2>4. Layout'
    BY <1>2, <1>3, <2>3, Zenon DEF Layout
  <2>5. Replaced
    BY <1>2, <1>3, <1>6, <2>1, Zenon DEF Replaced, Visible
  <2>6. NoEarlyLoss
    BY <1>3, <1>6, <2>1, Zenon DEF NoEarlyLoss
  <2>7. CASE Raise(p)
    BY <1>1, <1>3, <1>4, <2>2, <2>4, <2>5, <2>6, <2>7, FaultAfter, Zenon DEF Unlocked, Shared
  <2>8. CASE Goto(p, "verify")
    <3>1. Moved(p) /\ pc'[p] = "verify" /\ goal'[p] = "publish" /\ Flow(p)' /\ Truth(p)'
      BY <1>1, <2>8, PublisherMoves, Zenon DEF BeforeCommit
    <3>2. Claim(p)'
      BY <1>2, <1>3, <1>6, <3>1, Zenon DEF Claim, Own, Writing, Finishing
    <3> QED BY <1>4, <2>2, <2>4, <2>5, <2>6, <3>1, <3>2, Assemble, Zenon DEF Knows
  <2> QED BY <1>6, <2>7, <2>8, Zenon
<1> QED BY <1>5, <1>6, Zenon DEF InstallStage, Completes, Faults

\* Only a valid destination is declared committed.
LEMMA VerifyInstalledKeeps ==
  ASSUME IInv, NEW p \in Procs, VerifyInstalled(p)
  PROVE  Kept(p)
<1>1. /\ pc[p] = "verify" /\ UNCHANGED <<disk, build, hadPrev, commits>>
      /\ aim' = [aim EXCEPT ![p] = "committed"]
  BY Zenon DEF VerifyInstalled, At, BeginWrite
<1>2. Typed /\ phase = "prepared" /\ jowner = Owner(p) /\ stage = Absent
  BY <1>1, Zenon DEF IInv, Knows, Claim, Own
<1>3. UNCHANGED <<journal, trees, tmp>> /\ UNCHANGED <<phase, jowner, stage, dest>>
      /\ Owner(p)' = Owner(p) /\ tmp' \in BOOLEAN
  BY <1>1, <1>2, Zenon DEF disk, journal, trees, Owner, Typed, DiskTyped
<1>4. LocalMoved(p) /\ aim'[p] = "committed"
  BY <1>1, <1>2, Zenon DEF Typed, LocalTyped, LocalMoved, Phases
<1>5. CASE Raise(p)
  BY <1>1, <1>3, <1>4, <1>5, FaultKeeps, Zenon DEF Unlocked, Shared
<1>6. CASE Valid(dest, Owner(p)) /\ Goto(p, "write")
  <2>1. Moved(p) /\ pc'[p] = "write" /\ goal'[p] = "publish" /\ Flow(p)' /\ Truth(p)'
    BY <1>1, <1>4, <1>6, PublisherMoves, Zenon DEF BeforeCommit
  <2>2. WriteClaim(p)'
    BY <1>2, <1>3, <1>4, <1>6, Zenon DEF WriteClaim, Own, Valid
  <2>3. Claim(p)'
    BY <2>1, <2>2, Zenon DEF Claim, Writing, Finishing
  <2> QED BY <1>1, <1>4, <2>1, <2>3, Silent, Zenon DEF Knows
<1> QED BY <1>5, <1>6, Zenon DEF VerifyInstalled

\* A cancellation is an exception before the commit.
LEMMA CancelKeeps ==
  ASSUME IInv, NEW p \in Procs, Cancel(p)
  PROVE  Kept(p)
<1>1. /\ pc[p] \in {"mkdir", "save", "install", "verify", "build", "write"} /\ Raise(p)
      /\ UNCHANGED <<disk, build, hadPrev, aim, commits>>
  BY Zenon DEF Cancel, CancelPoint
<1>2. UNCHANGED <<journal, trees, commits>> /\ tmp' \in BOOLEAN
  BY <1>1, Zenon DEF disk, journal, trees, IInv, Typed, DiskTyped
<1>3. LocalMoved(p)
  BY <1>1, SameLocals, Zenon DEF IInv
<1> QED BY <1>1, <1>2, <1>3, FaultKeeps, Zenon DEF Unlocked, Shared

\* The journal decides between finishing the commit and rolling back.
LEMMA AuthoritativeKeeps ==
  ASSUME IInv, NEW p \in Procs, Authoritative(p)
  PROVE  Kept(p)
<1>1. pc[p] = "authority" /\ UNCHANGED <<disk, build, hadPrev, aim, commits>>
  BY Zenon DEF Authoritative, At
<1>2. Typed /\ Truth(p) /\ goal[p] = "publish" /\ lock[p] = "ex"
  BY <1>1, Holder, Zenon DEF IInv, Knows, Flow, Publishing, Unlocked, Shared
<1>3. UNCHANGED phase /\ LocalMoved(p) /\ commits'[p] = commits[p]
  BY <1>1, <1>2, SameLocals, Zenon DEF disk
<1>4. outcome[p] = "none"
  BY <1>1, <1>2, Zenon DEF Truth
<1>5. CASE phase = "committed"
  <2>1. Goto(p, "fin_check") /\ commits[p]
    BY <1>1, <1>2, <1>5, Zenon DEF Authoritative, Truth
  <2>2. "fin_check" \in Labels
    BY Zenon DEF Labels, Finishing
  <2>3. Moved(p) /\ pc'[p] = "fin_check" /\ lock'[p] = "ex" /\ goal'[p] = "publish"
          /\ outcome'[p] = "none"
    BY <1>2, <1>4, <2>1, <2>2, GotoMoves, Zenon
  <2>4. Flow(p)'
    BY <2>3, Zenon DEF Flow, Unlocked, Shared, Publishing, Restoring, Rereading, Writing, Finishing
  <2>5. Claim(p)'
    BY <1>3, <1>5, <2>3, Zenon DEF Claim, Writing, Finishing
  <2>6. Truth(p)'
    BY <1>3, <2>1, <2>3, Zenon DEF Truth, Finishing
  <2> QED BY <1>1, <1>3, <2>3, <2>4, <2>5, <2>6, Silent, Zenon DEF Knows
<1>6. CASE phase # "committed"
  <2>1. /\ goal' = [goal EXCEPT ![p] = "rollback"] /\ pc' = [pc EXCEPT ![p] = "recover"]
        /\ UNCHANGED <<lock, outcome>> /\ ~commits[p]
    BY <1>1, <1>2, <1>6, Zenon DEF Authoritative, Truth, Finishing
  <2>2. "recover" \in Labels
    BY Zenon DEF Labels, Restoring
  <2>3. ControlTyped'
    BY <1>2, <2>1, <2>2, Zenon DEF Typed, ControlTyped
  <2>4. Moved(p)
    BY <1>2, <2>1, <2>3 DEF Typed, ControlTyped, Moved, LocksCompatible
  <2>5. pc'[p] = "recover" /\ lock'[p] = "ex" /\ goal'[p] = "rollback" /\ outcome'[p] = "none"
    BY <1>2, <1>4, <2>1, Zenon DEF Typed, ControlTyped
  <2>6. Flow(p)'
    BY <2>5, Zenon DEF Flow, Unlocked, Shared, Publishing, Restoring, Rereading, Writing, Finishing
  <2>7. Claim(p)'
    BY <1>3, <1>6, <2>5, Zenon DEF Claim, Writing, Finishing
  <2>8. Truth(p)'
    BY <1>3, <2>1, <2>5, Zenon DEF Truth, Finishing
  <2> QED BY <1>1, <1>3, <2>4, <2>6, <2>7, <2>8, Silent, Zenon DEF Knows
<1> QED BY <1>5, <1>6, Zenon

-----------------------------------------------------------------------------
(* The steps of _recover_publication and _recover_locked.                  *)

\* A process that recovers, or rolls back, has committed nothing itself.
LEMMA RecoveryMoves ==
  ASSUME IInv, NEW p \in Procs, pc[p] \in Restoring \cup {"reread_done"},
         NEW l \in Restoring \cup {"write", "recovered", "fin_check"},
         Goto(p, l), commits' = commits,
         l = "write" => aim'[p] \in {"rollback_restore", "rollback_cleanup"},
         goal[p] = "rollback" => l # "fin_check"
  PROVE  Moved(p) /\ pc'[p] = l /\ goal'[p] = goal[p] /\ Flow(p)' /\ Truth(p)'
<1>1. goal[p] \in {"acquire", "rollback", "read", "recover"} /\ lock[p] = "ex" /\ Typed
  BY Holder, Zenon DEF IInv, Knows, Flow, Restoring, Rereading, Unlocked, Shared
<1>2. ~commits'[p]
  BY <1>1, NotYet, Zenon DEF Restoring
<1>3. l \in Labels
  BY Zenon DEF Labels, Restoring, Writing, Finishing
<1>4. /\ Moved(p) /\ pc'[p] = l /\ lock'[p] = "ex" /\ goal'[p] = goal[p]
      /\ outcome'[p] = outcome[p]
  BY <1>1, <1>3, GotoMoves, Zenon
<1>5. Flow(p)'
  BY <1>1, <1>4, Zenon DEF Flow, Unlocked, Shared, Publishing, Restoring, Rereading, Writing,
     Finishing
<1>6. Truth(p)'
  BY <1>1, <1>2, <1>4, OnwardTruth, Zenon DEF Restoring
<1> QED BY <1>4, <1>5, <1>6, Zenon

\* Without a journal there is nothing to recover.
LEMMA RecoverPublicationKeeps ==
  ASSUME IInv, NEW p \in Procs, RecoverPublication(p)
  PROVE  Kept(p)
<1>1. /\ pc[p] = "reread_done" /\ UNCHANGED <<disk, build, hadPrev, aim, commits>>
      /\ Goto(p, IF phase = "none" THEN "recovered" ELSE "recover")
  BY Zenon DEF RecoverPublication, At
<1>2. LocalMoved(p) /\ UNCHANGED phase /\ goal[p] # "rollback"
  BY <1>1, SameLocals, Zenon DEF IInv, disk, Knows, Flow, Rereading
<1>3. PICK l \in {"recovered", "recover"} : Goto(p, l) /\ (l = "recovered" => phase = "none")
  BY <1>1, Zenon
<1>4. Moved(p) /\ pc'[p] = l /\ goal'[p] = goal[p] /\ Flow(p)' /\ Truth(p)'
  BY <1>1, <1>3, RecoveryMoves, Zenon DEF Restoring
<1>5. Claim(p)'
  BY <1>2, <1>3, <1>4, Zenon DEF Claim, Writing, Finishing
<1> QED BY <1>1, <1>2, <1>4, <1>5, Silent, Zenon DEF Knows

\* Every state that an interrupted transaction leaves passes the validation that
\* its phase asks for.
LEMMA RecoverLockedKeeps ==
  ASSUME IInv, NEW p \in Procs, RecoverLocked(p)
  PROVE  Kept(p)
<1>1. /\ pc[p] = "dispatch" /\ UNCHANGED <<disk, build, hadPrev, commits>>
      /\ aim' = [aim EXCEPT ![p] = CASE phase = "preparing" -> "rollback_cleanup"
                                     [] phase = "prepared" -> "rollback_restore"
                                     [] OTHER -> @]
      /\ Checked(p, DispatchOk, DispatchTo)
  BY Zenon DEF RecoverLocked, At
<1>2. Typed /\ Layout /\ Claim(p)
  BY Zenon DEF IInv, Knows
<1>3. DispatchOk
  BY <1>2, Zenon DEF Layout, DispatchOk, Untouched, Swapping, PreparedCombination
<1>4. Goto(p, DispatchTo)
  BY <1>1, <1>3, Zenon DEF Checked
<1>5. LocalMoved(p) /\ (phase = "preparing" => aim'[p] = "rollback_cleanup")
      /\ (phase = "prepared" => aim'[p] = "rollback_restore")
  BY <1>1, <1>2, Zenon DEF Typed, LocalTyped, LocalMoved, Phases
<1>6. \/ phase = "none" /\ DispatchTo = "recovered"
      \/ phase = "committed" /\ DispatchTo = "fin_check"
      \/ phase = "rollback_restore" /\ DispatchTo = "restore"
      \/ phase = "rollback_cleanup" /\ DispatchTo = "cleanup"
      \/ phase \in {"preparing", "prepared"} /\ DispatchTo = "write"
  BY <1>2, Zenon DEF DispatchTo, Typed, DiskTyped, Phases
<1>7. /\ Moved(p) /\ pc'[p] = DispatchTo /\ goal'[p] = goal[p] /\ Flow(p)' /\ Truth(p)'
  <2>1. DispatchTo \in Restoring \cup {"write", "recovered", "fin_check"}
    BY <1>6, Zenon DEF Restoring
  <2>2. goal[p] = "rollback" => DispatchTo # "fin_check"
    BY <1>2, <1>6, Zenon DEF Claim
  <2>3. DispatchTo = "write" => aim'[p] \in {"rollback_restore", "rollback_cleanup"}
    BY <1>5, <1>6, Zenon
  <2>4. pc[p] \in Restoring
    BY <1>1, Zenon DEF Restoring
  <2> QED BY <1>1, <1>4, <2>1, <2>2, <2>3, <2>4, RecoveryMoves, Zenon
<1>8. UNCHANGED <<phase, had, jowner, tmp, stage, previous, dest>>
  BY <1>1, Zenon DEF disk
<1>9. phase = "preparing" => Untouched'
  BY <1>2, <1>8, Zenon DEF Layout, Untouched, DestinationIsPrevious, Valid
<1>10. pc'[p] \in Writing => WriteClaim(p)'
  BY <1>5, <1>6, <1>7, <1>8, <1>9, Zenon DEF WriteClaim, Writing
<1>11. Claim(p)'
  BY <1>2, <1>6, <1>7, <1>8, <1>10, Zenon DEF Claim, Writing, Finishing
<1> QED BY <1>1, <1>5, <1>7, <1>11, Silent, Zenon DEF Knows

\* _restore_previous walks the renames back; what is visible stays the same.
LEMMA RestorePreviousKeeps ==
  ASSUME IInv, NEW p \in Procs, RestorePrevious(p)
  PROVE  Kept(p)
<1>1. /\ pc[p] = "restore" /\ UNCHANGED <<journal, tmp, build, hadPrev, aim, commits>>
  BY Zenon DEF RestorePrevious, At
<1>2. Typed /\ Layout /\ Claim(p) /\ phase = "rollback_restore" /\ Swapping
  BY <1>1, Zenon DEF IInv, Knows, Claim, Layout
<1>3. PreparedCombination
  BY <1>2, Zenon DEF Swapping, PreparedCombination
<1>4. UNCHANGED <<phase, had, jowner, tmp>>
  BY <1>1, Zenon DEF journal
<1>5. LocalMoved(p) /\ lock[p] = "ex" /\ pc[p] \in Restoring /\ tmp' \in BOOLEAN
  BY <1>1, <1>2, SameLocals, Holder, Zenon DEF Unlocked, Shared, Restoring, Typed, DiskTyped
<1>6. CASE UNCHANGED trees /\ Raise(p)
  BY <1>1, <1>5, <1>6, FaultKeeps, Zenon DEF Unlocked, Shared
<1>7. CASE UNCHANGED trees /\ Goto(p, "restored") /\ ~(previous # Absent /\ dest = Absent)
           /\ ~(dest # Absent /\ stage = Absent)
  <2>1. UNCHANGED <<stage, previous, dest>> /\ UNCHANGED <<journal, trees>>
    BY <1>1, <1>7, Zenon DEF trees
  <2>2. Untouched
    BY <1>2, <1>7, Zenon DEF Swapping, Untouched, DestinationIsPrevious, Typed, DiskTyped
  <2>3. Untouched'
    BY <1>4, <2>1, <2>2, Zenon DEF Untouched, DestinationIsPrevious, Valid
  <2>4. Moved(p) /\ pc'[p] = "restored" /\ goal'[p] = goal[p] /\ Flow(p)' /\ Truth(p)'
    BY <1>1, <1>5, <1>7, RecoveryMoves, Zenon DEF Restoring
  <2>5. Claim(p)'
    BY <1>2, <1>4, <2>3, <2>4, Zenon DEF Claim, Writing, Finishing
  <2> QED BY <1>5, <2>1, <2>4, <2>5, Quiet, Zenon DEF Knows
<1>8. CASE /\ previous # Absent /\ dest = Absent
           /\ dest' = previous /\ previous' = Absent /\ UNCHANGED stage
           /\ Goto(p, "restored") \/ Raise(p)
  <2>1. had /\ stage # Absent /\ Valid(previous, jowner)
    BY <1>2, <1>8, Zenon DEF Swapping
  <2>2. DiskTyped'
    BY <1>2, <1>4, <1>8, Zenon DEF Typed, DiskTyped, Path
  <2>3. Swapping' /\ Untouched'
    BY <1>2, <1>4, <1>8, <2>1, Zenon DEF Swapping, Untouched, DestinationIsPrevious, Valid
  <2>4. Layout'
    BY <1>2, <1>4, <2>3, Zenon DEF Layout
  <2>5. Replaced
    BY <1>2, <1>4, <1>8, <2>1, Zenon DEF Replaced, Visible
  <2>6. NoEarlyLoss
    BY <1>8, <2>1, Zenon DEF NoEarlyLoss
  <2>7. CASE Raise(p)
    BY <1>1, <1>4, <1>5, <2>2, <2>4, <2>5, <2>6, <2>7, FaultAfter, Zenon DEF Unlocked, Shared
  <2>8. CASE Goto(p, "restored")
    <3>1. Moved(p) /\ pc'[p] = "restored" /\ goal'[p] = goal[p] /\ Flow(p)' /\ Truth(p)'
      BY <1>1, <1>5, <2>8, RecoveryMoves, Zenon DEF Restoring
    <3>2. Claim(p)'
      BY <1>2, <1>4, <2>3, <3>1, Zenon DEF Claim, Writing, Finishing
    <3> QED BY <1>5, <2>2, <2>4, <2>5, <2>6, <3>1, <3>2, Assemble, Zenon DEF Knows
  <2> QED BY <1>8, <2>7, <2>8, Zenon
<1>9. CASE /\ ~(previous # Absent /\ dest = Absent) /\ dest # Absent /\ stage = Absent
           /\ stage' = dest /\ dest' = Absent /\ UNCHANGED previous
           /\ Goto(p, IF had THEN "restore" ELSE "restored") \/ Raise(p)
  <2>1. Valid(dest, jowner) /\ (had <=> previous # Absent)
    BY <1>2, <1>9, Zenon DEF Swapping, Typed, DiskTyped
  <2>2. DiskTyped'
    BY <1>2, <1>4, <1>9, Zenon DEF Typed, DiskTyped, Path
  <2>3. Swapping'
    BY <1>2, <1>4, <1>9, <2>1, Zenon DEF Swapping, Valid
  <2>4. ~had => Untouched'
    BY <1>2, <1>4, <1>9, <2>1, Zenon DEF Untouched, DestinationIsPrevious, Typed, DiskTyped
  <2>5. Layout'
    BY <1>2, <1>4, <2>3, Zenon DEF Layout
  <2>6. Replaced
    BY <1>2, <1>4, <1>9, <2>1, Zenon DEF Replaced, Visible
  <2>7. NoEarlyLoss
    BY <1>9, Zenon DEF NoEarlyLoss
  <2>8. CASE Raise(p)
    BY <1>1, <1>4, <1>5, <2>2, <2>5, <2>6, <2>7, <2>8, FaultAfter, Zenon DEF Unlocked, Shared
  <2>9. CASE Goto(p, IF had THEN "restore" ELSE "restored")
    <3>1. PICK l \in {"restore", "restored"} : Goto(p, l) /\ (l = "restored" => ~had)
      BY <2>9, Zenon
    <3>2. Moved(p) /\ pc'[p] = l /\ goal'[p] = goal[p] /\ Flow(p)' /\ Truth(p)'
      BY <1>1, <1>5, <3>1, RecoveryMoves, Zenon DEF Restoring
    <3>3. Claim(p)'
      BY <1>2, <1>4, <2>4, <3>1, <3>2, Zenon DEF Claim, Writing, Finishing
    <3> QED BY <1>5, <2>2, <2>5, <2>6, <2>7, <3>2, <3>3, Assemble, Zenon DEF Knows
  <2> QED BY <1>9, <2>8, <2>9, Zenon
<1> QED BY <1>3, <1>6, <1>7, <1>8, <1>9, Zenon DEF RestorePrevious, Completes, Faults

\* _validate_restored accepts what _restore_previous leaves.
LEMMA ValidateRestoredKeeps ==
  ASSUME IInv, NEW p \in Procs, ValidateRestored(p)
  PROVE  Kept(p)
<1>1. /\ pc[p] = "restored" /\ UNCHANGED <<disk, build, hadPrev, commits>>
      /\ aim' = [aim EXCEPT ![p] = "rollback_cleanup"]
      /\ Checked(p, DestinationIsPrevious, "write")
  BY Zenon DEF ValidateRestored, At, BeginWrite
<1>2. Typed /\ Claim(p) /\ phase = "rollback_restore" /\ Untouched
  BY <1>1, Zenon DEF IInv, Knows, Claim
<1>3. Goto(p, "write")
  BY <1>1, <1>2, Zenon DEF Checked, Untouched
<1>4. LocalMoved(p) /\ aim'[p] = "rollback_cleanup"
  BY <1>1, <1>2, Zenon DEF Typed, LocalTyped, LocalMoved, Phases
<1>5. Moved(p) /\ pc'[p] = "write" /\ goal'[p] = goal[p] /\ Flow(p)' /\ Truth(p)'
  BY <1>1, <1>3, <1>4, RecoveryMoves, Zenon DEF Restoring
<1>6. UNCHANGED <<phase, had, jowner, tmp, stage, previous, dest>>
  BY <1>1, Zenon DEF disk
<1>7. Untouched'
  BY <1>2, <1>6, Zenon DEF Untouched, DestinationIsPrevious, Valid
<1>8. WriteClaim(p)'
  BY <1>2, <1>4, <1>6, <1>7, Zenon DEF WriteClaim
<1>9. Claim(p)'
  BY <1>2, <1>5, <1>6, <1>8, Zenon DEF Claim, Writing, Finishing
<1> QED BY <1>1, <1>4, <1>5, <1>9, Silent, Zenon DEF Knows

\* The cleanup finds the destination as it was before the transaction.
LEMMA RollbackCleanupKeeps ==
  ASSUME IInv, NEW p \in Procs, RollbackCleanup(p)
  PROVE  Kept(p)
<1>1. /\ pc[p] = "cleanup" /\ UNCHANGED <<disk, build, hadPrev, aim, commits>>
      /\ Checked(p, DestinationIsPrevious, "rm_stage")
  BY Zenon DEF RollbackCleanup, At
<1>2. Typed /\ Claim(p) /\ phase = "rollback_cleanup" /\ Untouched
  BY <1>1, Zenon DEF IInv, Knows, Claim, Layout
<1>3. Goto(p, "rm_stage")
  BY <1>1, <1>2, Zenon DEF Checked, Untouched
<1>4. LocalMoved(p) /\ UNCHANGED phase
  BY <1>1, <1>2, SameLocals, Zenon DEF disk
<1>5. Moved(p) /\ pc'[p] = "rm_stage" /\ goal'[p] = goal[p] /\ Flow(p)' /\ Truth(p)'
  BY <1>1, <1>3, RecoveryMoves, Zenon DEF Restoring
<1>6. Claim(p)'
  BY <1>2, <1>4, <1>5, Zenon DEF Claim, Writing, Finishing
<1> QED BY <1>1, <1>4, <1>5, <1>6, Silent, Zenon DEF Knows

\* _remove_artifact leaves an incomplete tree or none.
LEMMA RemovalCases ==
  ASSUME Typed, NEW p \in Procs, RemoveStage(p), pc[p] = "rm_stage"
  PROVE  \/ stage' = stage /\ Raise(p)
         \/ stage' = Absent /\ (Goto(p, "rm_tmp") \/ Raise(p))
         \/ stage' \in Path /\ (Goto(p, "rm_stage") \/ Raise(p))
<1>1. stage # Absent => [stage EXCEPT !.whole = FALSE] \in Path
  BY Zenon DEF Typed, DiskTyped, Path, Artifact
<1> QED BY <1>1, Zenon DEF RemoveStage, RemoveArtifact, Completes, Faults

\* The new artifact goes once the previous one is back.
LEMMA RemoveStageKeeps ==
  ASSUME IInv, NEW p \in Procs, RemoveStage(p)
  PROVE  Kept(p)
<1>1. /\ pc[p] = "rm_stage"
      /\ UNCHANGED <<journal, tmp, previous, dest, build, hadPrev, aim, commits>>
  BY Zenon DEF RemoveStage, At
<1>2. Typed /\ Claim(p) /\ phase = "rollback_cleanup" /\ stage \in Path /\ Absent \in Path
  BY <1>1, Zenon DEF IInv, Knows, Claim, Typed, DiskTyped, Path
<1>3. UNCHANGED phase /\ LocalMoved(p) /\ lock[p] = "ex"
  BY <1>1, <1>2, SameLocals, Holder, Zenon DEF journal, Unlocked, Shared
<1>4. stage' \in Path
  BY <1>1, <1>2, RemovalCases, Zenon
<1>5. DiskTyped' /\ Layout' /\ Replaced /\ NoEarlyLoss
  BY <1>1, <1>2, <1>4, StageBuilt, Zenon
<1>6. CASE Raise(p)
  BY <1>1, <1>3, <1>5, <1>6, FaultAfter, Zenon DEF Unlocked, Shared
<1>7. CASE ~Raise(p)
  <2>1. PICK l \in {"rm_stage", "rm_tmp"} : Goto(p, l) /\ (l = "rm_tmp" => stage' = Absent)
    BY <1>1, <1>2, <1>7, RemovalCases, Zenon
  <2>2. Moved(p) /\ pc'[p] = l /\ goal'[p] = goal[p] /\ Flow(p)' /\ Truth(p)'
    BY <1>1, <2>1, RecoveryMoves, Zenon DEF Restoring
  <2>3. Claim(p)'
    BY <1>2, <1>3, <2>1, <2>2, Zenon DEF Claim, Writing, Finishing
  <2> QED BY <1>3, <1>5, <2>2, <2>3, Assemble, Zenon DEF Knows
<1> QED BY <1>6, <1>7, Zenon

\* The journal goes last, when there is nothing left that it describes.
LEMMA JournalRemoved ==
  ASSUME IInv, stage = Absent, previous = Absent, phase \in {"rollback_cleanup", "committed"},
         phase' = "none", had' = FALSE, UNCHANGED <<jowner, tmp, trees>>
  PROVE  DiskTyped' /\ Layout' /\ Replaced /\ NoEarlyLoss
<1>1. UNCHANGED <<jowner, tmp, stage, previous, dest>>
  BY Zenon DEF trees
<1>2. dest # Absent => dest.whole
  BY Zenon DEF IInv, Layout, Untouched, DestinationIsPrevious, Valid
<1>3. DiskTyped'
  BY <1>1, Zenon DEF IInv, Typed, DiskTyped
<1>4. Layout'
  BY <1>1, <1>2, Zenon DEF Layout
<1>5. Replaced
  BY <1>1, Zenon DEF Replaced, Visible
<1>6. NoEarlyLoss
  BY <1>1, Zenon DEF NoEarlyLoss
<1> QED BY <1>3, <1>4, <1>5, <1>6, Zenon

-----------------------------------------------------------------------------
(* The steps of _finish_committed, and those it shares with the rollback.  *)

\* A process in _finish_committed keeps what it knows of its own commit.
LEMMA FinishingMoves ==
  ASSUME IInv, NEW p \in Procs, pc[p] \in Finishing, NEW l \in Finishing \cup {"recovered"},
         Goto(p, l), commits' = commits
  PROVE  Moved(p) /\ pc'[p] = l /\ goal'[p] = goal[p] /\ goal[p] # "rollback" /\ Flow(p)'
           /\ Truth(p)'
<1>1. /\ goal[p] \in {"acquire", "publish", "read", "recover"} /\ lock[p] = "ex" /\ Typed
      /\ Truth(p) /\ pc[p] # "idle"
  BY Holder, Zenon DEF IInv, Knows, Flow, Finishing, Unlocked, Shared
<1>2. goal[p] # "publish" => ~commits[p]
  BY <1>1, NotYet, Zenon DEF Finishing
<1>3. l \in Labels
  BY Zenon DEF Labels
<1>4. /\ Moved(p) /\ pc'[p] = l /\ lock'[p] = "ex" /\ goal'[p] = goal[p]
      /\ outcome'[p] = outcome[p]
  BY <1>1, <1>3, GotoMoves, Zenon
<1>5. Flow(p)'
  BY <1>1, <1>4, Zenon DEF Flow, Unlocked, Shared, Publishing, Restoring, Rereading, Writing,
     Finishing
<1>6. Truth(p)'
  BY <1>1, <1>2, <1>4, Zenon DEF Truth, Finishing
<1> QED BY <1>1, <1>4, <1>5, <1>6, Zenon

\* _finish_committed accepts every committed state.
LEMMA FinishCommittedKeeps ==
  ASSUME IInv, NEW p \in Procs, FinishCommitted(p)
  PROVE  Kept(p)
<1>1. pc[p] = "fin_check" /\ UNCHANGED <<disk, build, hadPrev, aim, commits>>
  BY Zenon DEF FinishCommitted, At
<1>2. Typed /\ phase = "committed" /\ Layout
  BY <1>1, Zenon DEF IInv, Knows, Claim, Finishing
<1>3. Goto(p, "fin_previous")
  BY <1>2, Zenon DEF FinishCommitted, Checked, Layout
<1>4. LocalMoved(p) /\ UNCHANGED phase
  BY <1>1, <1>2, SameLocals, Zenon DEF disk
<1>5. Moved(p) /\ pc'[p] = "fin_previous" /\ goal'[p] = goal[p] /\ goal[p] # "rollback"
        /\ Flow(p)' /\ Truth(p)'
  BY <1>1, <1>3, FinishingMoves, Zenon DEF Finishing
<1>6. Claim(p)'
  BY <1>2, <1>4, <1>5, Zenon DEF Claim, Writing, Finishing
<1> QED BY <1>1, <1>4, <1>5, <1>6, Silent, Zenon DEF Knows

\* The replaced artifact goes once the new one is committed.
LEMMA RemovePreviousKeeps ==
  ASSUME IInv, NEW p \in Procs, RemovePrevious(p)
  PROVE  Kept(p)
<1>1. /\ pc[p] = "fin_previous"
      /\ UNCHANGED <<journal, tmp, stage, dest, build, hadPrev, aim, commits>>
  BY Zenon DEF RemovePrevious, At
<1>2. Typed /\ phase = "committed" /\ Layout /\ previous \in Path
  BY <1>1, Zenon DEF IInv, Knows, Claim, Finishing, Typed, DiskTyped
<1>3. previous # Absent => [previous EXCEPT !.whole = FALSE] \in Path
  BY <1>2, Zenon DEF Path, Artifact
<1>4. /\ previous' \in Path /\ (previous' # Absent => previous # Absent)
      /\ Raise(p) \/ Goto(p, "fin_previous") \/ (Goto(p, "fin_tmp") /\ previous' = Absent)
  BY <1>2, <1>3, Zenon DEF RemovePrevious, RemoveArtifact, Completes, Faults, Path
<1>5. UNCHANGED <<phase, had, jowner, tmp, stage, dest>>
  BY <1>1, Zenon DEF journal
<1>6. LocalMoved(p) /\ lock[p] = "ex"
  BY <1>1, <1>2, SameLocals, Holder, Zenon DEF Unlocked, Shared
<1>7. DiskTyped'
  BY <1>2, <1>4, <1>5, Zenon DEF Typed, DiskTyped
<1>8. Layout'
  BY <1>2, <1>4, <1>5, Zenon DEF Layout, Valid
<1>9. Replaced
  BY <1>2, <1>5, Zenon DEF Replaced, Visible
<1>10. NoEarlyLoss
  BY <1>2, <1>5, Zenon DEF NoEarlyLoss
<1>11. CASE Raise(p)
  BY <1>1, <1>5, <1>6, <1>7, <1>8, <1>9, <1>10, <1>11, FaultAfter, Zenon DEF Unlocked, Shared
<1>12. CASE ~Raise(p)
  <2>1. PICK l \in {"fin_previous", "fin_tmp"} : Goto(p, l) /\ (l = "fin_tmp" => previous' = Absent)
    BY <1>4, <1>12, Zenon
  <2>2. Moved(p) /\ pc'[p] = l /\ goal'[p] = goal[p] /\ goal[p] # "rollback" /\ Flow(p)'
          /\ Truth(p)'
    BY <1>1, <2>1, FinishingMoves, Zenon DEF Finishing
  <2>3. Claim(p)'
    BY <1>2, <1>5, <2>1, <2>2, Zenon DEF Claim, Writing, Finishing
  <2> QED BY <1>6, <1>7, <1>8, <1>9, <1>10, <2>2, <2>3, Assemble, Zenon DEF Knows
<1> QED BY <1>11, <1>12, Zenon

\* The journal's temporary file goes before the journal.
LEMMA RemoveTemporaryKeeps ==
  ASSUME IInv, NEW p \in Procs, NEW from, NEW to,
         \/ from = "rm_tmp" /\ to = "rm_journal"
         \/ from = "fin_tmp" /\ to = "fin_journal",
         RemoveTemporary(p, from, to)
  PROVE  Kept(p)
<1>1. pc[p] = from /\ UNCHANGED <<journal, trees, build, hadPrev, aim, commits>>
  BY Zenon DEF RemoveTemporary, At
<1>2. Typed /\ Claim(p)
  BY Zenon DEF IInv, Knows
<1>3. UNCHANGED <<phase, stage, previous>>
  BY <1>1, Zenon DEF journal, trees
<1>4. LocalMoved(p) /\ lock[p] = "ex"
  BY <1>1, <1>2, SameLocals, Holder, Zenon DEF Unlocked, Shared
<1>5. tmp' \in BOOLEAN /\ (Goto(p, to) \/ Raise(p))
  BY <1>2, Zenon DEF RemoveTemporary, Completes, Faults, Typed, DiskTyped
<1>6. CASE Raise(p)
  BY <1>1, <1>4, <1>5, <1>6, FaultKeeps, Zenon DEF Unlocked, Shared
<1>7. CASE Goto(p, to) /\ from = "rm_tmp"
  <2>1. Moved(p) /\ pc'[p] = "rm_journal" /\ goal'[p] = goal[p] /\ Flow(p)' /\ Truth(p)'
    BY <1>1, <1>7, RecoveryMoves, Zenon DEF Restoring
  <2>2. Claim(p)'
    BY <1>1, <1>2, <1>3, <1>7, <2>1, Zenon DEF Claim, Writing, Finishing
  <2> QED BY <1>1, <1>4, <1>5, <2>1, <2>2, Quiet, Zenon DEF Knows
<1>8. CASE Goto(p, to) /\ from = "fin_tmp"
  <2>1. Moved(p) /\ pc'[p] = "fin_journal" /\ goal'[p] = goal[p] /\ goal[p] # "rollback"
          /\ Flow(p)' /\ Truth(p)'
    BY <1>1, <1>8, FinishingMoves, Zenon DEF Finishing
  <2>2. Claim(p)'
    BY <1>1, <1>2, <1>3, <1>8, <2>1, Zenon DEF Claim, Writing, Finishing
  <2> QED BY <1>1, <1>4, <1>5, <2>1, <2>2, Quiet, Zenon DEF Knows
<1> QED BY <1>5, <1>6, <1>7, <1>8, Zenon

\* The journal goes, after a rollback or after a commit; the call may still raise.
LEMMA RemoveJournalKeeps ==
  ASSUME IInv, NEW p \in Procs, NEW from \in {"rm_journal", "fin_journal"}, RemoveJournal(p, from)
  PROVE  Kept(p)
<1>1. pc[p] = from /\ UNCHANGED <<jowner, tmp, trees, build, hadPrev, aim, commits>>
  BY Zenon DEF RemoveJournal, At
<1>2. Typed /\ Claim(p) /\ Flow(p)
  BY Zenon DEF IInv, Knows
<1>3. LocalMoved(p) /\ lock[p] = "ex" /\ pc[p] \notin Unlocked \cup Shared
  BY <1>1, <1>2, SameLocals, Holder, Zenon DEF Unlocked, Shared
<1>4. CASE UNCHANGED <<phase, had>> /\ Raise(p)
  <2>1. UNCHANGED <<journal, trees, commits>> /\ tmp' \in BOOLEAN
    BY <1>1, <1>2, <1>4, Zenon DEF journal, Typed, DiskTyped
  <2> QED BY <1>1, <1>3, <1>4, <2>1, FaultKeeps, Zenon DEF Unlocked, Shared
<1>5. CASE phase' = "none" /\ had' = FALSE /\ (Goto(p, "recovered") \/ Raise(p))
  <2>1. /\ stage = Absent /\ previous = Absent
        /\ phase = IF from = "rm_journal" THEN "rollback_cleanup" ELSE "committed"
    BY <1>1, <1>2, Zenon DEF IInv, Layout, Untouched, DestinationIsPrevious, Claim, Finishing
  <2>2. DiskTyped' /\ Layout' /\ Replaced /\ NoEarlyLoss
    BY <1>1, <1>5, <2>1, JournalRemoved, Zenon
  <2>3. CASE Raise(p)
    <3>1. CASE from = "rm_journal"
      <4>1. goal[p] # "publish" /\ ~InFinish(p) /\ ~InTry(p)
        BY <1>1, <1>2, <3>1, Zenon DEF Flow, Restoring, InFinish, InTry
      <4>2. ~commits'[p]
        BY <1>1, <3>1, <4>1, NotYet, Zenon
      <4> QED BY <1>3, <2>3, <4>1, <4>2, RaiseKnows, RaiseMoves, <1>2, <2>2, Assemble, Zenon
    <3>2. CASE from = "fin_journal"
      <4>1. InFinish(p)
        BY <1>1, <3>2, Zenon DEF InFinish
      <4>2. Knows(p)'
        BY <1>1, <1>3, <1>5, <2>3, <4>1, RaiseKnows, Zenon
      <4>3. Moved(p)
        BY <1>2, <2>3, RaiseMoves, Zenon
      <4> QED BY <1>3, <2>2, <4>2, <4>3, Assemble, Zenon
    <3> QED BY <3>1, <3>2, Zenon
  <2>4. CASE Goto(p, "recovered")
    <3>1. Moved(p) /\ pc'[p] = "recovered" /\ goal'[p] = goal[p] /\ Flow(p)' /\ Truth(p)'
      <4>1. CASE from = "rm_journal"
        BY <1>1, <2>4, <4>1, RecoveryMoves, Zenon DEF Restoring
      <4>2. CASE from = "fin_journal"
        BY <1>1, <2>4, <4>2, FinishingMoves, Zenon DEF Finishing
      <4> QED BY <4>1, <4>2, Zenon
    <3>2. Claim(p)'
      BY <1>5, <3>1, Zenon DEF Claim, Writing, Finishing
    <3> QED BY <1>3, <2>2, <3>1, <3>2, Assemble, Zenon DEF Knows
  <2> QED BY <1>5, <2>3, <2>4, Zenon
<1> QED BY <1>4, <1>5, Zenon DEF RemoveJournal, Completes, Faults

\* A cleanup that failed is reported for what it is.
LEMMA CleanupFailedKeeps ==
  ASSUME IInv, NEW p \in Procs, CleanupFailed(p)
  PROVE  Kept(p)
<1>1. pc[p] = "fin_error" /\ UNCHANGED <<disk, build, hadPrev, aim, commits>>
  BY Zenon DEF CleanupFailed, At
<1>2. Typed /\ Truth(p) /\ LocalMoved(p) /\ UNCHANGED phase
  BY <1>1, SameLocals, Zenon DEF IInv, Knows, disk
<1>3. CASE phase = "none"
  <2>1. Goto(p, "recovered")
    BY <1>3, Zenon DEF CleanupFailed
  <2>2. Moved(p) /\ pc'[p] = "recovered" /\ goal'[p] = goal[p] /\ goal[p] # "rollback"
          /\ Flow(p)' /\ Truth(p)'
    BY <1>1, <2>1, FinishingMoves, Zenon DEF Finishing
  <2>3. Claim(p)'
    BY <1>2, <1>3, <2>2, Zenon DEF Claim, Writing, Finishing
  <2> QED BY <1>1, <1>2, <2>2, <2>3, Silent, Zenon DEF Knows
<1>4. CASE phase # "none" /\ goal[p] = "publish"
  <2>1. Finish(p, "pending") /\ commits[p]
    BY <1>1, <1>2, <1>4, Zenon DEF CleanupFailed, Truth, Finishing
  <2> QED BY <1>1, <1>2, <2>1, EndKnows, Silent, Zenon
<1>5. CASE phase # "none" /\ goal[p] # "publish"
  <2>1. Finish(p, "raised") /\ ~commits[p]
    BY <1>1, <1>5, NotYet, Zenon DEF CleanupFailed
  <2> QED BY <1>1, <1>2, <2>1, EndKnows, Silent, Zenon
<1> QED BY <1>3, <1>4, <1>5, Zenon

\* What the command does once there is no transaction left to recover.
LEMMA RecoveredKeeps ==
  ASSUME IInv, NEW p \in Procs, Recovered(p)
  PROVE  Kept(p)
<1>1. pc[p] = "recovered" /\ UNCHANGED <<disk, build, hadPrev, aim, commits>>
  BY Zenon DEF Recovered, At
<1>2. /\ Typed /\ Truth(p) /\ LocalMoved(p) /\ UNCHANGED phase /\ phase = "none" /\ lock[p] = "ex"
      /\ goal[p] \in {"acquire", "publish", "rollback", "read", "recover"}
  BY <1>1, SameLocals, Holder, Zenon DEF IInv, Knows, disk, Claim, Flow, Typed, ControlTyped,
     Unlocked, Shared
<1>3. outcome[p] = "none" /\ (goal[p] = "publish" <=> commits[p])
  BY <1>1, <1>2, Zenon DEF Truth, Finishing, Typed, LocalTyped
<1>4. CASE goal[p] = "acquire"
  <2>1. /\ goal' = [goal EXCEPT ![p] = "publish"] /\ pc' = [pc EXCEPT ![p] = "begin"]
        /\ UNCHANGED <<lock, outcome>>
    BY <1>4, Zenon DEF Recovered
  <2>2. "begin" \in Labels
    BY Zenon DEF Labels, Publishing
  <2>3. ControlTyped'
    BY <1>2, <2>1, <2>2, Zenon DEF Typed, ControlTyped
  <2>4. Moved(p)
    BY <1>2, <2>1, <2>3 DEF Typed, ControlTyped, Moved, LocksCompatible
  <2>5. /\ pc'[p] = "begin" /\ lock'[p] = "ex" /\ goal'[p] = "publish" /\ outcome'[p] = "none"
        /\ ~commits'[p]
    BY <1>1, <1>2, <1>3, <1>4, <2>1, Zenon DEF Typed, ControlTyped
  <2>6. Flow(p)'
    BY <2>5, Zenon DEF Flow, Unlocked, Shared, Publishing, Restoring, Rereading, Writing, Finishing
  <2>7. Claim(p)'
    BY <1>2, <2>5, Zenon DEF Claim, Writing, Finishing
  <2>8. Truth(p)'
    BY <2>5, Zenon DEF Truth, Finishing
  <2> QED BY <1>1, <1>2, <2>4, <2>6, <2>7, <2>8, Silent, Zenon DEF Knows
<1>5. CASE goal[p] = "read"
  <2>1. /\ lock' = [lock EXCEPT ![p] = "none"] /\ pc' = [pc EXCEPT ![p] = "lock_sh"]
        /\ UNCHANGED <<goal, outcome>>
    BY <1>5, Zenon DEF Recovered
  <2>2. "lock_sh" \in Labels
    BY Zenon DEF Labels, Unlocked
  <2>3. ControlTyped'
    BY <1>2, <2>1, <2>2, Zenon DEF Typed, ControlTyped
  <2>4. Moved(p)
    BY <1>2, <2>1, <2>3 DEF Typed, ControlTyped, Moved, LocksCompatible
  <2>5. /\ pc'[p] = "lock_sh" /\ lock'[p] = "none" /\ goal'[p] = "read" /\ outcome'[p] = "none"
        /\ ~commits'[p]
    BY <1>1, <1>2, <1>3, <1>5, <2>1, Zenon DEF Typed, ControlTyped
  <2>6. Flow(p)'
    BY <2>5, Zenon DEF Flow, Unlocked, Shared, Publishing, Restoring, Rereading, Writing, Finishing
  <2>7. Claim(p)'
    BY <2>5, Zenon DEF Claim, Writing, Finishing
  <2>8. Truth(p)'
    BY <2>5, Zenon DEF Truth, Finishing
  <2> QED BY <1>1, <1>2, <2>4, <2>6, <2>7, <2>8, Silent, Zenon DEF Knows
<1>6. CASE goal[p] \in {"publish", "rollback", "recover"}
  <2>1. PICK result \in {"committed", "raised", "recovered"} :
          /\ Finish(p, result)
          /\ result = "committed" => commits[p]
          /\ result = "raised" => ~commits[p]
    BY <1>3, <1>6, Zenon DEF Recovered
  <2> QED BY <1>1, <1>2, <2>1, EndKnows, Silent, Zenon
<1> QED BY <1>2, <1>4, <1>5, <1>6, Zenon

-----------------------------------------------------------------------------
(* The invariant and the theorems.                                         *)

\* Every step of every process, put together.
LEMMA ProcessKeeps ==
  ASSUME IInv, NEW p \in Procs,
         Command(p) \/ Proceed(p) \/ RejectPublish(p) \/ Cancel(p) \/ Crash(p)
  PROVE  Kept(p)
<1>1. CASE Command(p)
  BY <1>1, StartKeeps, Zenon DEF Command, StartPublish, StartRead, StartRecover
<1>2. CASE Reader(p)
  BY <1>2, LockSharedKeeps, CheckPublishedKeeps, ReadArtifactKeeps, Zenon DEF Reader
<1>3. CASE Publisher(p)
  BY <1>3, BeginPublishKeeps, StageStepKeeps, CheckStageKeeps, SavePreviousKeeps,
     InstallStageKeeps, VerifyInstalledKeeps, ReadJournalKeeps, AuthoritativeKeeps, Zenon DEF Publisher
<1>4. CASE Recovery(p)
  <2>1. CASE LockExclusive(p) \/ RecoverPublication(p) \/ RecoverLocked(p) \/ WriteTemporary(p)
             \/ PutJournal(p)
    BY <2>1, LockExclusiveKeeps, RecoverPublicationKeeps, RecoverLockedKeeps, WriteTemporaryKeeps,
       PutJournalKeeps, Zenon
  <2>2. CASE ReadJournal(p, "reread", "reread_done") \/ ReadJournal(p, "recover", "dispatch")
    BY <2>2, ReadJournalKeeps, Zenon
  <2>3. CASE RestorePrevious(p) \/ ValidateRestored(p) \/ RollbackCleanup(p) \/ RemoveStage(p)
    BY <2>3, RestorePreviousKeeps, ValidateRestoredKeeps, RollbackCleanupKeeps, RemoveStageKeeps,
       Zenon
  <2>4. CASE \/ RemoveTemporary(p, "rm_tmp", "rm_journal")
             \/ RemoveTemporary(p, "fin_tmp", "fin_journal")
    BY <2>4, RemoveTemporaryKeeps, Zenon
  <2>5. CASE RemoveJournal(p, "rm_journal") \/ RemoveJournal(p, "fin_journal")
    BY <2>5, RemoveJournalKeeps, Zenon
  <2>6. CASE FinishCommitted(p) \/ RemovePrevious(p) \/ CleanupFailed(p) \/ Recovered(p)
    BY <2>6, FinishCommittedKeeps, RemovePreviousKeeps, CleanupFailedKeeps, RecoveredKeeps, Zenon
  <2> QED BY <1>4, <2>1, <2>2, <2>3, <2>4, <2>5, <2>6, Zenon DEF Recovery
<1>5. CASE RejectPublish(p) \/ Cancel(p) \/ Crash(p)
  BY <1>5, RejectPublishKeeps, CancelKeeps, CrashKeeps, Zenon
<1> QED BY <1>1, <1>2, <1>3, <1>4, <1>5, Zenon DEF Proceed

\* Nothing published, nobody at work.
LEMMA Initial ==
  ASSUME Init
  PROVE  IInv
<1>1. Typed
  <2>1. DiskTyped
    BY Zenon DEF Init, DiskTyped, Path
  <2>2. ControlTyped
    BY Zenon DEF Init, ControlTyped, Labels, Unlocked
  <2>3. LocalTyped
    BY Zenon DEF Init, LocalTyped, Phases
  <2> QED BY <2>1, <2>2, <2>3, Zenon DEF Typed
<1>2. Layout
  BY Zenon DEF Init, Layout
<1>3. Exclusion
  BY Zenon DEF Init, Exclusion
<1>4. ASSUME NEW p \in Procs
      PROVE  Knows(p)
  <2>1. pc[p] = "idle" /\ lock[p] = "none" /\ goal[p] = "none" /\ outcome[p] = "none" /\ ~commits[p]
    BY Zenon DEF Init
  <2>2. Flow(p)
    BY <2>1, Zenon DEF Flow, Unlocked, Shared, Publishing, Restoring, Rereading, Writing, Finishing
  <2>3. Claim(p)
    BY <2>1, Zenon DEF Claim, Writing, Finishing
  <2>4. Truth(p)
    BY <2>1, Zenon DEF Truth, Finishing
  <2> QED BY <2>2, <2>3, <2>4, Zenon DEF Knows
<1> QED BY <1>1, <1>2, <1>3, <1>4, Zenon DEF IInv

\* Nothing happens.
LEMMA Stutters ==
  ASSUME IInv, UNCHANGED vars
  PROVE  IInv' /\ Replaced /\ NoEarlyLoss
<1>1. UNCHANGED <<phase, had, jowner, tmp, stage, previous, dest>>
  BY Zenon DEF vars, disk
<1>2. UNCHANGED <<lock, pc, goal, build, hadPrev, aim, outcome, commits>>
  BY Zenon DEF vars, locals, results
<1>3. UNCHANGED <<journal, trees>>
  BY <1>1, Zenon DEF journal, trees
<1>4. Layout' /\ Replaced /\ NoEarlyLoss
  BY <1>3, SameDisk, Zenon DEF IInv
<1>5. Typed'
  <2>1. DiskTyped'
    BY <1>1, Zenon DEF IInv, Typed, DiskTyped
  <2>2. ControlTyped'
    BY <1>2, Zenon DEF IInv, Typed, ControlTyped
  <2>3. LocalTyped'
    BY <1>2, Zenon DEF IInv, Typed, LocalTyped
  <2> QED BY <2>1, <2>2, <2>3, Zenon DEF Typed
<1>6. Exclusion'
  BY <1>2, Zenon DEF IInv, Exclusion
<1>7. ASSUME NEW p \in Procs
      PROVE  Knows(p)'
  <2>1. Flow(p) /\ Claim(p) /\ Truth(p)
    BY Zenon DEF IInv, Knows
  <2>2. Flow(p)'
    BY <1>2, <2>1, Zenon DEF Flow
  <2>3. Claim(p)'
    BY <1>1, <1>2, <2>1, Zenon DEF Claim, WriteClaim, Own, Owner, Untouched,
       DestinationIsPrevious, Valid
  <2>4. Truth(p)'
    BY <1>1, <1>2, <2>1, Zenon DEF Truth
  <2> QED BY <2>2, <2>3, <2>4, Zenon DEF Knows
<1> QED BY <1>4, <1>5, <1>6, <1>7, Zenon DEF IInv

\* Every step keeps the invariant, replaces the visible artifact only as
\* PublishedArtifact says, and destroys nothing too early.
LEMMA Inductive ==
  ASSUME IInv, [Next]_vars
  PROVE  IInv' /\ Replaced /\ NoEarlyLoss
<1>1. CASE UNCHANGED vars
  BY <1>1, Stutters, Zenon
<1>2. ASSUME NEW p \in Procs, Kept(p)
      PROVE  IInv' /\ Replaced /\ NoEarlyLoss
  <2>1. ASSUME NEW q \in Procs
        PROVE  Knows(q)'
    BY <1>2, OthersKeep, Zenon DEF Kept
  <2>2. Exclusion'
    BY <1>2, ExclusionKept, Zenon DEF Kept
  <2> QED BY <1>2, <2>1, <2>2, Zenon DEF Kept, IInv
<1> QED BY <1>1, <1>2, ProcessKeeps, Zenon DEF Next, Done

\* The protocol's state is consistent at every moment, whatever the
\* interleaving of processes, failing calls and crashes.
THEOREM Consistent == Spec => []IInv
<1>1. Init => IInv
  BY Initial, Zenon
<1>2. IInv /\ [Next]_vars => IInv'
  BY Inductive, Zenon
<1> QED BY <1>1, <1>2, PTL DEF Spec

\* No state of the disk that an interrupted publication, rollback or cleanup of
\* _publication.py leaves behind is refused by the next recovery, and the journal
\* is the last thing that a recovery removes.
THEOREM Accepted == Spec => []NeverRefused
<1>1. IInv => NeverRefused
  BY Zenon DEF IInv, Knows, Truth, Claim, Layout, NeverRefused, At
<1> QED BY <1>1, Consistent, PTL

\* _publish_artifact returns only if its artifact was committed and raises only
\* if it was not.
THEOREM Truthful == Spec => []TruthfulOutcome
<1>1. IInv => TruthfulOutcome
  BY Zenon DEF IInv, Knows, Truth, TruthfulOutcome
<1> QED BY <1>1, Consistent, PTL

\* _read_published reads the committed artifact: the shared lock keeps every
\* transaction out between its check and its read.
THEOREM Reads == Spec => []ReadsCommitted
<1>1. IInv => ReadsCommitted
  BY Zenon DEF IInv, Knows, Claim, ReadsCommitted, At, Visible
<1> QED BY <1>1, Consistent, PTL

\* A previous artifact is destroyed only after the commit of the new one, a new
\* one only after the previous one is back.
THEOREM NothingLost == Spec => NothingLostEarly
<1>1. IInv /\ [Next]_vars => NoEarlyLoss
  BY Inductive, Zenon
<1> QED BY <1>1, Consistent, PTL DEF Spec, NothingLostEarly, NoEarlyLoss

\* The protocol implements the atomic replacement of module PublishedArtifact.
THEOREM Atomic == Spec => AtomicPublication
<1>1. Init => Abstract!Init
  BY Zenon DEF Init, Abstract!Init, Visible
<1>2. IInv /\ [Next]_vars => [Abstract!Next]_Visible
  BY Inductive, Zenon DEF Replaced
<1> QED BY <1>1, <1>2, Consistent, PTL DEF Spec, AtomicPublication, Abstract!Spec

-----------------------------------------------------------------------------
(* Commands that hold the locks of several destinations (module            *)
(* PublicationLockSet).                                                    *)

CONSTANTS Dests, Requests, Published, MaxIssued

VARIABLES value, journals, jowners, managed, locks, at, req, owner, job, expect, todo, mend,
          seen, commands, failures, stops

LockSet == INSTANCE PublicationLockSet WITH
  journal <- journals, jowner <- jowners, lock <- locks, pc <- at, issued <- commands,
  faults <- failures, crashes <- stops


Publishers == Owners \cup {LockSet!AnyOwner}
SetVisible == [owner : Publishers, version : Nat] \cup {Absent}

SetTyped ==
  /\ value \in [Dests -> SetVisible]
  /\ journals \in [Dests -> {"clean", "dirty", "committed"}]
  /\ jowners \in [Dests -> Publishers]
  /\ locks \in [Procs -> [Dests -> {"none", "sh", "ex"}]]
  /\ at \in [Procs -> {"idle", "discover", "lock", "validate", "mend", "mending",
                       "transaction", "finish"}]
  /\ req \in [Procs -> Requests \cup {LockSet!NoCommand.req}]
  /\ owner \in [Procs -> Publishers]
  /\ job \in [Procs -> Nat]
  /\ expect \in [Procs -> [Dests -> Publishers \cup {Absent}]]
  /\ todo \in [Procs -> SUBSET Dests]
  /\ mend \in [Procs -> Dests \cup {LockSet!NoCommand.mend}]
  /\ seen \in [Procs -> [Dests -> SetVisible]]
  /\ commands \in Nat

\* An exclusive lock excludes every other lock on its destination.
Exclusive ==
  \A p, q \in Procs : \A d \in Dests :
    p # q /\ locks[p][d] = "ex" => locks[q][d] = "none"

\* The locks a process holds at each point of the command.
Holds(p, d) == locks[p][d] = IF d = LockSet!Output(p) THEN "ex" ELSE "sh"

Running(p) == at[p] \in {"validate", "transaction", "finish"}

Held(p) ==
  /\ at[p] # "idle" => req[p] \in Requests
  /\ LockSet!At(p, "lock") => \A d \in LockSet!Entries(p) \ todo[p] : Holds(p, d)
  /\ Running(p) => \A d \in LockSet!Entries(p) : Holds(p, d)
  /\ at[p] \in {"mend", "mending"} => mend[p] \in Dests
  /\ LockSet!At(p, "mending") => locks[p][mend[p]] = "ex"

\* What it has established about the destinations it holds: the inputs
\* validated so far, and its own transaction.
Usable(p, d) ==
  /\ value[d] # Absent
  /\ value[d] = seen[p][d]
  /\ value[d].owner = expect[p][d]
  /\ journals[d] # "dirty"

Established(p) ==
  /\ Running(p) => \A d \in LockSet!Inputs(p) \ todo[p] : Usable(p, d)
  /\ at[p] \in {"transaction", "finish"} => todo[p] = {}
  /\ LockSet!At(p, "transaction") => journals[LockSet!Output(p)] = "dirty" /\ jowners[LockSet!Output(p)] = owner[p]
  /\ LockSet!At(p, "finish") =>
       /\ journals[LockSet!Output(p)] = "committed"
       /\ value[LockSet!Output(p)] = [owner |-> owner[p], version |-> job[p]]

SetIInv == SetTyped /\ Exclusive /\ \A p \in Procs : Held(p) /\ Established(p)

\* A step of p leaves the locals and the locks of the others alone ...
SetOthersLocal(p) ==
  \A q \in Procs \ {p} :
    /\ at'[q] = at[q] /\ req'[q] = req[q] /\ owner'[q] = owner[q] /\ job'[q] = job[q]
    /\ expect'[q] = expect[q] /\ todo'[q] = todo[q] /\ mend'[q] = mend[q]
    /\ seen'[q] = seen[q] /\ locks'[q] = locks[q]

\* ... and writes only destinations that p has locked exclusively.
WritesLocked(p) ==
  \A d \in Dests :
    \/ locks[p][d] = "ex"
    \/ value'[d] = value[d] /\ journals'[d] = journals[d] /\ jowners'[d] = jowners[d]

\* A lock that p takes is compatible with those the others hold.
SetLocksCompatible(p) ==
  \A d \in Dests :
    \/ locks'[p][d] \in {locks[p][d], "none"}
    \/ locks'[p][d] = "sh" /\ LockSet!SharedFree(d)
    \/ locks'[p][d] = "ex" /\ LockSet!AllFree(d)

SetStepOf(p) == SetOthersLocal(p) /\ WritesLocked(p) /\ SetLocksCompatible(p)

-----------------------------------------------------------------------------

\* A non-empty set of natural numbers has a least element.
LEMMA LeastExists ==
  ASSUME NEW F \in SUBSET Nat, F # {}
  PROVE  \E m \in F : \A i \in F : m <= i
<1> DEFINE R == {s \in Nat \X Nat : s[1] < s[2]}
<1>1. IsWellFoundedOn(R, Nat)
  BY NatLessThanWellFounded, Zenon DEF OpToRel
<1>2. \A i, m \in Nat : <<i, m>> \notin R => m <= i
  OBVIOUS
<1> HIDE DEF R
<1>3. PICK m \in F : \A i \in F : <<i, m>> \notin R
  BY <1>1, WFMin, Zenon
<1> QED
  BY <1>2, <1>3, Zenon

\* The entry that _publication_lock_set takes next is one that is still to do.
LEMMA NextEntryPending ==
  ASSUME LockSet!ConstantsAssumption, NEW p \in Procs, todo[p] \in SUBSET Dests, todo[p] # {}
  PROVE  LockSet!NextEntry(p) \in todo[p]
<1>1. todo[p] \in SUBSET Nat
  BY Zenon DEF LockSet!ConstantsAssumption
<1>2. \E m \in todo[p] : \A i \in todo[p] : m <= i
  BY <1>1, LeastExists, Zenon
<1> QED BY <1>2, Zenon DEF LockSet!NextEntry, LockSet!Min

\* The entries of a request are destinations and its output is not an input.
LEMMA RequestShape ==
  ASSUME LockSet!ConstantsAssumption, NEW p \in Procs, req[p] \in Requests
  PROVE  /\ LockSet!Inputs(p) \subseteq Dests /\ LockSet!Output(p) \in Dests /\ LockSet!Output(p) \notin LockSet!Inputs(p)
         /\ LockSet!Entries(p) \subseteq Dests
BY Zenon DEF LockSet!ConstantsAssumption, LockSet!Inputs, LockSet!Output, LockSet!Entries

\* What the others have established survives any such step.
LEMMA SetOthersKeep ==
  ASSUME LockSet!ConstantsAssumption, SetIInv, NEW p \in Procs, SetStepOf(p), NEW q \in Procs, q # p
  PROVE  Held(q)' /\ Established(q)'
<1>1. /\ at'[q] = at[q] /\ req'[q] = req[q] /\ owner'[q] = owner[q] /\ job'[q] = job[q]
      /\ expect'[q] = expect[q] /\ todo'[q] = todo[q] /\ mend'[q] = mend[q]
      /\ seen'[q] = seen[q] /\ locks'[q] = locks[q]
  BY Zenon DEF SetStepOf, SetOthersLocal
<1>2. Held(q) /\ Established(q)
  BY Zenon DEF SetIInv
<1>3. Held(q)'
  BY <1>1, <1>2 DEF Held, Running, Holds, LockSet!At, LockSet!Entries, LockSet!Inputs, LockSet!Output
<1>4. ASSUME Running(q), NEW d \in LockSet!Entries(q)
      PROVE  value'[d] = value[d] /\ journals'[d] = journals[d] /\ jowners'[d] = jowners[d]
  <2>1. d \in Dests /\ Holds(q, d)
    BY <1>2, <1>4, RequestShape, Zenon DEF Held, Running
  <2>2. locks[q][d] # "none"
    BY <2>1, Zenon DEF Holds
  <2>3. locks[p][d] # "ex"
    BY <2>1, <2>2, Zenon DEF SetIInv, Exclusive
  <2> QED BY <2>1, <2>3, Zenon DEF SetStepOf, WritesLocked
<1>5. Established(q)'
  BY <1>1, <1>2, <1>4 DEF Established, Running, Usable, LockSet!At, LockSet!Entries, LockSet!Inputs, LockSet!Output
<1> QED BY <1>3, <1>5, Zenon

\* Locks stay exclusive through any such step.
LEMMA ExclusiveKept ==
  ASSUME LockSet!ConstantsAssumption, SetIInv, NEW p \in Procs, SetStepOf(p)
  PROVE  Exclusive'
<1> SUFFICES ASSUME NEW q \in Procs, NEW r \in Procs, NEW d \in Dests, q # r,
                    locks'[q][d] = "ex"
             PROVE  locks'[r][d] = "none"
  BY Zenon DEF Exclusive
<1>1. CASE q = p
  BY <1>1 DEF SetIInv, Exclusive, SetStepOf, SetOthersLocal, SetLocksCompatible, LockSet!AllFree
<1>2. CASE r = p
  BY <1>2 DEF SetIInv, Exclusive, SetStepOf, SetOthersLocal, SetLocksCompatible, LockSet!AllFree, LockSet!SharedFree
<1>3. CASE q # p /\ r # p
  <2>1. locks'[q] = locks[q] /\ locks'[r] = locks[r]
    BY <1>3, Zenon DEF SetStepOf, SetOthersLocal
  <2>2. Exclusive
    BY Zenon DEF SetIInv
  <2>3. locks[q][d] = "ex" => locks[r][d] = "none"
    BY <2>2, Zenon DEF Exclusive
  <2> QED BY <2>1, <2>3
<1> QED BY <1>1, <1>2, <1>3, Zenon

-----------------------------------------------------------------------------

\* A command that ends keeps nothing but the types of its locals.
LEMMA EndKeeps ==
  ASSUME LockSet!ConstantsAssumption, SetIInv, NEW p \in Procs, LockSet!End(p)
  PROVE  /\ SetOthersLocal(p) /\ SetLocksCompatible(p)
         /\ Held(p)' /\ Established(p)'
         /\ locks' \in [Procs -> [Dests -> {"none", "sh", "ex"}]]
         /\ at' \in [Procs -> {"idle", "discover", "lock", "validate", "mend", "mending",
                              "transaction", "finish"}]
         /\ req' \in [Procs -> Requests \cup {LockSet!NoCommand.req}]
         /\ owner' \in [Procs -> Publishers]
         /\ job' \in [Procs -> Nat]
         /\ expect' \in [Procs -> [Dests -> Publishers \cup {Absent}]]
         /\ todo' \in [Procs -> SUBSET Dests]
         /\ mend' \in [Procs -> Dests \cup {LockSet!NoCommand.mend}]
         /\ seen' \in [Procs -> [Dests -> SetVisible]]
<1>1. /\ LockSet!NoCommand.owner \in Publishers /\ LockSet!NoCommand.job = 0
      /\ LockSet!NoCommand.expect \in [Dests -> Publishers \cup {Absent}]
      /\ LockSet!NoCommand.seen \in [Dests -> SetVisible]
  BY Zenon DEF LockSet!NoCommand, Publishers, SetVisible
<1>2. SetOthersLocal(p)
  BY Zenon DEF SetOthersLocal, LockSet!End, LockSet!Goto, SetIInv, SetTyped
<1>3. at'[p] = "idle" /\ locks'[p] = LockSet!Free
  BY Zenon DEF LockSet!End, LockSet!Goto, SetIInv, SetTyped
<1>4. SetLocksCompatible(p)
  BY <1>3, Zenon DEF SetLocksCompatible, LockSet!Free
<1>5. Held(p)' /\ Established(p)'
  BY <1>3, Zenon DEF Held, Established, Running, LockSet!At
<1>6. LockSet!Free \in [Dests -> {"none", "sh", "ex"}]
  BY Zenon DEF LockSet!Free
<1> QED BY <1>1, <1>2, <1>4, <1>5, <1>6 DEF LockSet!End, LockSet!Goto, SetIInv, SetTyped

\* What each action of p does to p's own part of the invariant, and that it is
\* a step as the lemmas above require.
SetKept(p) == SetTyped' /\ SetStepOf(p) /\ Held(p)' /\ Established(p)'

\* A new command starts with no lock and no claim.
LEMMA IssueKeeps ==
  ASSUME LockSet!ConstantsAssumption, SetIInv, NEW p \in Procs, NEW r \in Requests, NEW o \in Owners, LockSet!Issue(p, r, o)
  PROVE  SetKept(p)
<1> USE DEF LockSet!Issue, LockSet!Goto, LockSet!At, LockSet!shared
<1>0. r.inputs \in SUBSET Dests /\ o \in Publishers
  BY Zenon DEF LockSet!ConstantsAssumption, Publishers
<1>1. SetTyped'
  BY <1>0 DEF SetIInv, SetTyped
<1>2. SetStepOf(p)
  BY Zenon DEF SetIInv, SetTyped, SetStepOf, SetOthersLocal, WritesLocked, SetLocksCompatible
<1>3. at'[p] = "discover" /\ req'[p] = r
  BY Zenon DEF SetIInv, SetTyped
<1>4. Held(p)' /\ Established(p)'
  BY <1>3, Zenon DEF Held, Established, Running
<1> QED BY <1>1, <1>2, <1>4, Zenon DEF SetKept

\* Discovery (_discover_source_unit_owner) records an owner or ends the command.
LEMMA DiscoverOwnerKeeps ==
  ASSUME LockSet!ConstantsAssumption, SetIInv, NEW p \in Procs, NEW d \in Dests, LockSet!DiscoverOwner(p, d)
  PROVE  SetKept(p)
<1>1. UNCHANGED <<value, journals, jowners, commands>>
  BY Zenon DEF LockSet!DiscoverOwner, LockSet!shared
<1>2. CASE LockSet!End(p)
  BY <1>1, <1>2, EndKeeps, Zenon DEF SetKept, SetIInv, SetTyped, SetStepOf, WritesLocked
<1>3. CASE ~ LockSet!End(p)
  <2> DEFINE e == IF journals[d] = "dirty" THEN jowners[d] ELSE value[d].owner
  <2>1. /\ journals[d] = "dirty" \/ value[d] # Absent
        /\ expect' = [expect EXCEPT ![p][d] = e]
        /\ todo' = [todo EXCEPT ![p] = @ \ {d}]
        /\ UNCHANGED <<at, locks, req, owner, job, mend, seen>>
    BY <1>3, Zenon DEF LockSet!DiscoverOwner
  <2>2. e \in Publishers
    BY <2>1, Zenon DEF SetIInv, SetTyped, SetVisible
  <2>3. at[p] = "discover"
    BY Zenon DEF LockSet!DiscoverOwner, LockSet!At
  <2> HIDE DEF e
  <2>4. SetTyped'
    BY <1>1, <2>1, <2>2, Zenon DEF SetIInv, SetTyped
  <2>5. SetStepOf(p)
    BY <1>1, <2>1, Zenon DEF SetIInv, SetTyped, SetStepOf, SetOthersLocal, WritesLocked, SetLocksCompatible
  <2>6. Held(p)' /\ Established(p)'
    BY <2>1, <2>3, Zenon DEF SetIInv, Held, Established, Running, LockSet!At
  <2> QED BY <2>4, <2>5, <2>6, Zenon DEF SetKept
<1> QED BY <1>2, <1>3, Zenon

\* The first loop of _publication_lock_set leaves every entry to be locked.
LEMMA BootstrapKeeps ==
  ASSUME LockSet!ConstantsAssumption, SetIInv, NEW p \in Procs, LockSet!Bootstrap(p)
  PROVE  SetKept(p)
<1> USE DEF LockSet!Bootstrap, LockSet!Goto, LockSet!At
<1>1. req[p] \in Requests
  BY Zenon DEF SetIInv, Held
<1>2. LockSet!Entries(p) \in SUBSET Dests
  BY <1>1, RequestShape, Zenon
<1>3. SetTyped'
  BY <1>2, Zenon DEF SetIInv, SetTyped
<1>4. SetStepOf(p)
  BY Zenon DEF SetIInv, SetTyped, SetStepOf, SetOthersLocal, WritesLocked, SetLocksCompatible
<1>5. at'[p] = "lock" /\ todo'[p] = LockSet!Entries(p) /\ req'[p] = req[p]
  BY Zenon DEF SetIInv, SetTyped
<1>6. Held(p)' /\ Established(p)'
  BY <1>1, <1>5, Zenon DEF Held, Established, Running, LockSet!Entries, LockSet!Inputs, LockSet!Output
<1> QED BY <1>3, <1>4, <1>6, Zenon DEF SetKept

\* The second loop takes one compatible lock, on an entry still to do.
LEMMA LockEntryKeeps ==
  ASSUME LockSet!ConstantsAssumption, SetIInv, NEW p \in Procs, LockSet!LockEntry(p)
  PROVE  SetKept(p)
<1> DEFINE d == LockSet!NextEntry(p)
           l == IF d = LockSet!Output(p) THEN "ex" ELSE "sh"
<1>1. /\ at[p] = "lock" /\ (IF d = LockSet!Output(p) THEN LockSet!AllFree(d) ELSE LockSet!SharedFree(d))
      /\ locks' = [locks EXCEPT ![p][d] = l]
      /\ todo' = [todo EXCEPT ![p] = @ \ {d}]
      /\ UNCHANGED <<value, journals, jowners, at, req, owner, job, expect, mend, seen, commands>>
  BY Zenon DEF LockSet!LockEntry, LockSet!At, LockSet!shared
<1>2. d \in todo[p] /\ d \in Dests /\ l \in {"sh", "ex"}
  BY NextEntryPending, Zenon DEF LockSet!LockEntry, SetIInv, SetTyped
<1>3. req[p] \in Requests
  BY <1>1, Zenon DEF SetIInv, Held
<1>4. /\ locks'[p] = [locks[p] EXCEPT ![d] = l]
      /\ locks'[p][d] = l
      /\ \A e \in Dests \ {d} : locks'[p][e] = locks[p][e]
      /\ todo'[p] = todo[p] \ {d}
  BY <1>1, <1>2, Zenon DEF SetIInv, SetTyped
<1>5. SetLocksCompatible(p)
  BY <1>1, <1>4, Zenon DEF SetLocksCompatible
<1>6. \A e \in LockSet!Entries(p) \ todo'[p] : Holds(p, e)'
  <2>1. \A e \in LockSet!Entries(p) \ todo[p] : Holds(p, e)
    BY <1>1, Zenon DEF SetIInv, Held, LockSet!At
  <2> QED BY <1>1, <1>3, <1>4, <2>1, RequestShape, Zenon DEF Holds, LockSet!Output
<1> HIDE DEF d, l
<1>7. SetTyped'
  BY <1>1, <1>2, Zenon DEF SetIInv, SetTyped
<1>8. SetOthersLocal(p) /\ WritesLocked(p)
  BY <1>1, Zenon DEF SetIInv, SetTyped, SetOthersLocal, WritesLocked
<1>9. Held(p)' /\ Established(p)'
  BY <1>1, <1>3, <1>6, Zenon DEF Held, Established, Running, LockSet!At, LockSet!Entries, LockSet!Inputs, LockSet!Output
<1> QED BY <1>5, <1>7, <1>8, <1>9, Zenon DEF SetKept, SetStepOf

\* After the second loop every entry is held as its role demands.
LEMMA AllLockedKeeps ==
  ASSUME LockSet!ConstantsAssumption, SetIInv, NEW p \in Procs, LockSet!AllLocked(p)
  PROVE  SetKept(p)
<1> USE DEF LockSet!AllLocked, LockSet!Goto, LockSet!At, LockSet!shared
<1>1. req[p] \in Requests
  BY Zenon DEF SetIInv, Held
<1>2. LockSet!Entries(p) \in SUBSET Dests
  BY <1>1, RequestShape, Zenon
<1>3. SetTyped'
  BY <1>2, Zenon DEF SetIInv, SetTyped
<1>4. SetStepOf(p)
  BY Zenon DEF SetIInv, SetTyped, SetStepOf, SetOthersLocal, WritesLocked, SetLocksCompatible
<1>5. /\ at'[p] = "validate" /\ todo'[p] = LockSet!Entries(p) /\ req'[p] = req[p]
      /\ locks' = locks /\ \A d \in LockSet!Entries(p) : Holds(p, d)
  BY Zenon DEF SetIInv, SetTyped, Held
<1>6. Held(p)' /\ Established(p)'
  BY <1>1, <1>5, Zenon DEF Held, Established, Running, Holds, LockSet!Entries, LockSet!Inputs, LockSet!Output
<1> QED BY <1>3, <1>4, <1>6, Zenon DEF SetKept

\* A process that runs holds its output exclusively and its inputs apart from it.
LEMMA OutputHeld ==
  ASSUME LockSet!ConstantsAssumption, SetIInv, NEW p \in Procs, Running(p)
  PROVE  /\ req[p] \in Requests /\ LockSet!Output(p) \in Dests /\ locks[p][LockSet!Output(p)] = "ex"
         /\ LockSet!Inputs(p) \subseteq Dests \ {LockSet!Output(p)}
<1>1. req[p] \in Requests /\ \A d \in LockSet!Entries(p) : Holds(p, d)
  BY Zenon DEF SetIInv, Held, Running
<1> QED BY <1>1, RequestShape, Zenon DEF Holds, LockSet!Entries

\* _recover_locked of the output writes under the command's exclusive lock.
LEMMA ValidateOutputKeeps ==
  ASSUME LockSet!ConstantsAssumption, SetIInv, NEW p \in Procs, LockSet!ValidateOutput(p)
  PROVE  SetKept(p)
<1>1. at[p] = "validate" /\ UNCHANGED <<value, jowners, commands>>
  BY Zenon DEF LockSet!ValidateOutput, LockSet!At
<1>2. /\ req[p] \in Requests /\ LockSet!Output(p) \in Dests /\ locks[p][LockSet!Output(p)] = "ex"
      /\ LockSet!Inputs(p) \subseteq Dests \ {LockSet!Output(p)}
  BY <1>1, OutputHeld, Zenon DEF Running
<1>3. CASE LockSet!End(p) /\ UNCHANGED journals
  BY <1>1, <1>3, EndKeeps, Zenon DEF SetKept, SetIInv, SetTyped, SetStepOf, WritesLocked
<1>4. CASE /\ journals' = [journals EXCEPT ![LockSet!Output(p)] = "clean"]
           /\ todo' = [todo EXCEPT ![p] = @ \ {LockSet!Output(p)}]
           /\ UNCHANGED <<at, locks, req, owner, job, expect, mend, seen>>
  <2>1. SetTyped'
    BY <1>1, <1>4, Zenon DEF SetIInv, SetTyped
  <2>2. SetStepOf(p)
    BY <1>1, <1>2, <1>4, Zenon DEF SetIInv, SetTyped, SetStepOf, SetOthersLocal, WritesLocked, SetLocksCompatible
  <2>3. /\ todo'[p] = todo[p] \ {LockSet!Output(p)}
        /\ \A d \in LockSet!Inputs(p) : journals'[d] = journals[d]
    BY <1>2, <1>4, Zenon DEF SetIInv, SetTyped
  <2>4. Held(p)'
    BY <1>1, <1>4, Zenon DEF SetIInv, Held, Running, Holds, LockSet!At, LockSet!Entries, LockSet!Inputs, LockSet!Output
  <2>5. Established(p)'
    BY <1>1, <1>2, <1>4, <2>3, SMTT(30) DEF SetIInv, Established, Running, Usable, LockSet!At, LockSet!Inputs
  <2> QED BY <2>1, <2>2, <2>4, <2>5 DEF SetKept
<1> QED BY <1>3, <1>4, Zenon DEF LockSet!ValidateOutput

\* The third loop establishes one more input, or gives every lock up.
LEMMA ValidateInputKeeps ==
  ASSUME LockSet!ConstantsAssumption, SetIInv, NEW p \in Procs, LockSet!ValidateInput(p)
  PROVE  SetKept(p)
<1> DEFINE d == LockSet!NextEntry(p)
<1>1. at[p] = "validate" /\ UNCHANGED <<value, journals, jowners, commands>>
  BY Zenon DEF LockSet!ValidateInput, LockSet!At, LockSet!shared
<1>2. d \in todo[p] /\ d \in Dests
  BY NextEntryPending, Zenon DEF LockSet!ValidateInput, SetIInv, SetTyped
<1>3. /\ req[p] \in Requests /\ LockSet!Inputs(p) \subseteq Dests
  BY <1>1, OutputHeld, Zenon DEF Running
<1>4. CASE LockSet!End(p)
  BY <1>1, <1>4, EndKeeps, Zenon DEF SetKept, SetIInv, SetTyped, SetStepOf, WritesLocked
<1>5. CASE /\ mend' = [mend EXCEPT ![p] = d]
           /\ locks' = [locks EXCEPT ![p] = LockSet!Free]
           /\ todo' = [todo EXCEPT ![p] = {}]
           /\ LockSet!Goto(p, "mend")
           /\ UNCHANGED <<req, owner, job, expect, seen>>
  <2> HIDE DEF d
  <2>1. SetTyped'
    BY <1>1, <1>2, <1>5, Zenon DEF SetIInv, SetTyped, LockSet!Goto, LockSet!Free
  <2>2. /\ at'[p] = "mend" /\ mend'[p] = d /\ locks'[p] = LockSet!Free
    BY <1>5, Zenon DEF SetIInv, SetTyped, LockSet!Goto
  <2>3. SetOthersLocal(p) /\ WritesLocked(p)
    BY <1>1, <1>5, Zenon DEF SetIInv, SetTyped, LockSet!Goto, SetOthersLocal, WritesLocked
  <2>4. SetLocksCompatible(p)
    BY <2>2, Zenon DEF SetLocksCompatible, LockSet!Free
  <2>5. Held(p)' /\ Established(p)'
    BY <1>2, <1>3, <1>5, <2>2, Zenon DEF Held, Established, Running, LockSet!At
  <2> QED BY <2>1, <2>3, <2>4, <2>5, Zenon DEF SetKept, SetStepOf
<1>6. CASE /\ journals[d] # "dirty" /\ value[d] # Absent /\ value[d].owner = expect[p][d]
           /\ seen' = [seen EXCEPT ![p][d] = value[d]]
           /\ todo' = [todo EXCEPT ![p] = @ \ {d}]
           /\ UNCHANGED <<at, locks, req, owner, job, expect, mend>>
  <2> HIDE DEF d
  <2>1. SetTyped'
    BY <1>1, <1>2, <1>6, Zenon DEF SetIInv, SetTyped
  <2>2. SetStepOf(p)
    BY <1>1, <1>6, Zenon DEF SetIInv, SetTyped, SetStepOf, SetOthersLocal, WritesLocked, SetLocksCompatible
  <2>3. /\ todo'[p] = todo[p] \ {d} /\ seen'[p][d] = value[d]
        /\ \A e \in Dests \ {d} : seen'[p][e] = seen[p][e]
    BY <1>2, <1>6, Zenon DEF SetIInv, SetTyped
  <2>4. Held(p)'
    BY <1>1, <1>6, Zenon DEF SetIInv, Held, Running, Holds, LockSet!At, LockSet!Entries, LockSet!Inputs, LockSet!Output
  <2>5. \A e \in LockSet!Inputs(p) \ todo'[p] : Usable(p, e)'
    <3> SUFFICES ASSUME NEW e \in LockSet!Inputs(p) \ todo'[p] PROVE Usable(p, e)'
      BY Zenon
    <3>1. value' = value /\ journals' = journals /\ expect' = expect /\ e \in Dests
      BY <1>1, <1>3, <1>6, Zenon
    <3>2. CASE e = d
      BY <1>6, <2>3, <3>1, <3>2, Zenon DEF Usable
    <3>3. CASE e # d
      <4>1. Usable(p, e)
        BY <1>1, <2>3, <3>3, Zenon DEF SetIInv, Established, Running
      <4> QED BY <2>3, <3>1, <3>3, <4>1, Zenon DEF Usable
    <3> QED BY <3>2, <3>3, Zenon
  <2>6. Established(p)'
    BY <1>1, <1>6, <2>5, Zenon DEF Established, LockSet!At, LockSet!Inputs
  <2> QED BY <2>1, <2>2, <2>4, <2>6, Zenon DEF SetKept
<1> QED BY <1>4, <1>5, <1>6, Zenon DEF LockSet!ValidateInput

\* The recovery of an input waits for every other lock on it.
LEMMA LockMendKeeps ==
  ASSUME LockSet!ConstantsAssumption, SetIInv, NEW p \in Procs, LockSet!LockMend(p)
  PROVE  SetKept(p)
<1>1. /\ at[p] = "mend" /\ LockSet!AllFree(mend[p])
      /\ locks' = [locks EXCEPT ![p][mend[p]] = "ex"]
      /\ at' = [at EXCEPT ![p] = "mending"]
      /\ UNCHANGED <<value, journals, jowners, req, owner, job, expect, todo, mend, seen, commands>>
  BY Zenon DEF LockSet!LockMend, LockSet!At, LockSet!Goto, LockSet!shared
<1>2. mend[p] \in Dests /\ req[p] \in Requests
  BY <1>1, Zenon DEF SetIInv, Held
<1>3. /\ at'[p] = "mending" /\ locks'[p][mend[p]] = "ex"
      /\ \A e \in Dests \ {mend[p]} : locks'[p][e] = locks[p][e]
  BY <1>1, <1>2, Zenon DEF SetIInv, SetTyped
<1>4. SetTyped'
  BY <1>1, <1>2, Zenon DEF SetIInv, SetTyped
<1>5. SetOthersLocal(p) /\ WritesLocked(p)
  BY <1>1, Zenon DEF SetIInv, SetTyped, SetOthersLocal, WritesLocked
<1>6. SetLocksCompatible(p)
  BY <1>1, <1>3, Zenon DEF SetLocksCompatible
<1>7. Held(p)' /\ Established(p)'
  BY <1>1, <1>2, <1>3, Zenon DEF Held, Established, Running, LockSet!At
<1> QED BY <1>4, <1>5, <1>6, <1>7, Zenon DEF SetKept, SetStepOf

\* _recover_publication writes only that input and claims nothing afterwards.
LEMMA RecoverInputKeeps ==
  ASSUME LockSet!ConstantsAssumption, SetIInv, NEW p \in Procs, LockSet!RecoverInput(p)
  PROVE  SetKept(p)
<1>1. at[p] = "mending" /\ UNCHANGED <<value, jowners, commands>>
  BY Zenon DEF LockSet!RecoverInput, LockSet!At
<1>2. /\ req[p] \in Requests /\ mend[p] \in Dests /\ locks[p][mend[p]] = "ex"
  BY <1>1, Zenon DEF SetIInv, Held, LockSet!At
<1>3. LockSet!Entries(p) \in SUBSET Dests
  BY <1>2, RequestShape, Zenon
<1>4. CASE LockSet!End(p) /\ UNCHANGED journals
  BY <1>1, <1>4, EndKeeps DEF SetKept, SetIInv, SetTyped, SetStepOf, WritesLocked
<1>5. CASE /\ journals' = [journals EXCEPT ![mend[p]] = "clean"]
           /\ locks' = [locks EXCEPT ![p] = LockSet!Free]
           /\ todo' = [todo EXCEPT ![p] = LockSet!Entries(p)]
           /\ LockSet!Goto(p, "lock")
           /\ UNCHANGED <<req, owner, job, expect, mend, seen>>
  <2>1. SetTyped'
    BY <1>1, <1>3, <1>5, Zenon DEF SetIInv, SetTyped, LockSet!Goto, LockSet!Free
  <2>2. at'[p] = "lock" /\ todo'[p] = LockSet!Entries(p) /\ locks'[p] = LockSet!Free
    BY <1>5, Zenon DEF SetIInv, SetTyped, LockSet!Goto
  <2>3. SetOthersLocal(p) /\ WritesLocked(p)
    BY <1>1, <1>2, <1>5, Zenon DEF SetIInv, SetTyped, LockSet!Goto, SetOthersLocal, WritesLocked
  <2>4. SetLocksCompatible(p)
    BY <2>2, Zenon DEF SetLocksCompatible, LockSet!Free
  <2>5. Held(p)' /\ Established(p)'
    BY <1>2, <1>5, <2>2, Zenon DEF Held, Established, Running, LockSet!At, LockSet!Entries, LockSet!Inputs, LockSet!Output
  <2> QED BY <2>1, <2>3, <2>4, <2>5, Zenon DEF SetKept, SetStepOf
<1> QED BY <1>4, <1>5, Zenon DEF LockSet!RecoverInput

\* The transaction starts with every input established and its own journal.
LEMMA BeginTransactionKeeps ==
  ASSUME LockSet!ConstantsAssumption, SetIInv, NEW p \in Procs, LockSet!BeginTransaction(p)
  PROVE  SetKept(p)
<1>1. /\ at[p] = "validate" /\ todo[p] = {}
      /\ journals' = [journals EXCEPT ![LockSet!Output(p)] = "dirty"]
      /\ jowners' = [jowners EXCEPT ![LockSet!Output(p)] = owner[p]]
      /\ at' = [at EXCEPT ![p] = "transaction"]
      /\ UNCHANGED <<value, locks, req, owner, job, expect, todo, mend, seen, commands>>
  BY Zenon DEF LockSet!BeginTransaction, LockSet!InBody, LockSet!At, LockSet!Goto
<1>2. /\ req[p] \in Requests /\ LockSet!Output(p) \in Dests /\ locks[p][LockSet!Output(p)] = "ex"
      /\ LockSet!Inputs(p) \subseteq Dests \ {LockSet!Output(p)}
  BY <1>1, OutputHeld, Zenon DEF Running
<1>3. SetTyped'
  BY <1>1, Zenon DEF SetIInv, SetTyped
<1>4. SetStepOf(p)
  BY <1>1, <1>2, Zenon DEF SetIInv, SetTyped, SetStepOf, SetOthersLocal, WritesLocked, SetLocksCompatible
<1>5. /\ at'[p] = "transaction" /\ journals'[LockSet!Output(p)] = "dirty"
      /\ jowners'[LockSet!Output(p)] = owner[p]
      /\ \A d \in LockSet!Inputs(p) : journals'[d] = journals[d]
  BY <1>1, <1>2, Zenon DEF SetIInv, SetTyped
<1>6. Held(p)'
  BY <1>1, <1>5, SMTT(30) DEF SetIInv, Held, Running, Holds, LockSet!At, LockSet!Entries, LockSet!Inputs, LockSet!Output
<1>7. Established(p)'
  BY <1>1, <1>5, SMTT(30) DEF SetIInv, Established, Running, Usable, LockSet!At, LockSet!Inputs, LockSet!Output
<1> QED BY <1>3, <1>4, <1>6, <1>7, Zenon DEF SetKept

\* The commit writes the output, which is none of the inputs.
LEMMA CommitKeeps ==
  ASSUME LockSet!ConstantsAssumption, SetIInv, NEW p \in Procs, LockSet!Commit(p)
  PROVE  SetKept(p)
<1> DEFINE published == [owner |-> owner[p], version |-> job[p]]
<1>1. /\ at[p] = "transaction"
      /\ journals' = [journals EXCEPT ![LockSet!Output(p)] = "committed"]
      /\ value' = [value EXCEPT ![LockSet!Output(p)] = published]
      /\ at' = [at EXCEPT ![p] = "finish"]
      /\ UNCHANGED <<jowners, locks, req, owner, job, expect, todo, mend, seen, commands>>
  BY Zenon DEF LockSet!Commit, LockSet!At, LockSet!Goto
<1>2. /\ req[p] \in Requests /\ LockSet!Output(p) \in Dests /\ locks[p][LockSet!Output(p)] = "ex"
      /\ LockSet!Inputs(p) \subseteq Dests \ {LockSet!Output(p)}
  BY <1>1, OutputHeld, Zenon DEF Running
<1>3. published \in SetVisible
  BY Zenon DEF SetIInv, SetTyped, SetVisible
<1>4. SetTyped'
  <2> HIDE DEF published
  <2> QED BY <1>1, <1>3, Zenon DEF SetIInv, SetTyped
<1>5. SetStepOf(p)
  BY <1>1, <1>2 DEF SetIInv, SetTyped, SetStepOf, SetOthersLocal, WritesLocked, SetLocksCompatible
<1>6. /\ at'[p] = "finish" /\ journals'[LockSet!Output(p)] = "committed"
      /\ value'[LockSet!Output(p)] = published
      /\ \A d \in LockSet!Inputs(p) : journals'[d] = journals[d] /\ value'[d] = value[d]
  BY <1>1, <1>2, Zenon DEF SetIInv, SetTyped
<1>7. Held(p)'
  BY <1>1, <1>6, SMTT(30) DEF SetIInv, Held, Running, Holds, LockSet!At, LockSet!Entries, LockSet!Inputs, LockSet!Output
<1>8. Established(p)'
  BY <1>1, <1>6, SMTT(30) DEF SetIInv, Established, Running, Usable, LockSet!At, LockSet!Inputs, LockSet!Output
<1> QED BY <1>4, <1>5, <1>7, <1>8, Zenon DEF SetKept

\* The steps that end a command: with or without cleaning its own journal.
LEMMA EndingKeeps ==
  ASSUME LockSet!ConstantsAssumption, SetIInv, NEW p \in Procs, LockSet!RejectPublish(p) \/ LockSet!Rollback(p) \/ LockSet!FinishCommitted(p) \/ LockSet!Crash(p)
  PROVE  SetKept(p)
<1>1. LockSet!End(p) /\ UNCHANGED <<value, jowners, commands>>
  BY Zenon DEF LockSet!RejectPublish, LockSet!Rollback, LockSet!FinishCommitted, LockSet!Crash, LockSet!shared
<1>2. CASE UNCHANGED journals
  BY <1>1, <1>2, EndKeeps, Zenon DEF SetKept, SetIInv, SetTyped, SetStepOf, WritesLocked
<1>3. CASE Running(p) /\ journals' = [journals EXCEPT ![LockSet!Output(p)] = "clean"]
  <2>1. LockSet!Output(p) \in Dests /\ locks[p][LockSet!Output(p)] = "ex"
    BY <1>3, OutputHeld, Zenon
  <2>2. WritesLocked(p)
    BY <1>1, <1>3, <2>1 DEF SetIInv, SetTyped, WritesLocked
  <2>3. SetTyped'
    BY <1>1, <1>3, EndKeeps, Zenon DEF SetIInv, SetTyped
  <2> QED BY <1>1, <2>2, <2>3, EndKeeps, Zenon DEF SetKept, SetStepOf
<1> QED BY <1>2, <1>3, Zenon DEF LockSet!RejectPublish, LockSet!Rollback, LockSet!FinishCommitted, LockSet!Crash, LockSet!shared, Running, LockSet!At

-----------------------------------------------------------------------------

\* Before any command nothing is locked and nothing is claimed.
LEMMA InitEstablishes == LockSet!Init => SetIInv
<1> SUFFICES ASSUME LockSet!Init PROVE SetIInv
  BY Zenon
<1>1. /\ LockSet!NoCommand.owner \in Publishers /\ LockSet!NoCommand.job = 0 /\ LockSet!AnyOwner \in Publishers
      /\ LockSet!NoCommand.expect \in [Dests -> Publishers \cup {Absent}]
      /\ LockSet!NoCommand.seen \in [Dests -> SetVisible]
  BY Zenon DEF LockSet!NoCommand, Publishers, SetVisible
<1>2. value \in [Dests -> SetVisible]
  BY <1>1, Zenon DEF LockSet!Init, SetVisible
<1>3. SetTyped
  BY <1>1, <1>2, SMTT(30) DEF LockSet!Init, SetTyped, LockSet!Free
<1>4. Exclusive
  BY Zenon DEF LockSet!Init, Exclusive, LockSet!Free
<1>5. \A p \in Procs : Held(p) /\ Established(p)
  BY Zenon DEF LockSet!Init, Held, Established, Running, LockSet!At
<1> QED BY <1>3, <1>4, <1>5, Zenon DEF SetIInv

\* Every step of the commands preserves the invariant.
LEMMA StepPreserves == LockSet!ConstantsAssumption => (SetIInv /\ [LockSet!Next]_(LockSet!vars) => SetIInv')
<1> SUFFICES ASSUME LockSet!ConstantsAssumption, SetIInv, [LockSet!Next]_(LockSet!vars) PROVE SetIInv'
  BY Zenon
<1>1. ASSUME NEW p \in Procs, SetKept(p) PROVE SetIInv'
  <2>1. Exclusive'
    BY <1>1, ExclusiveKept, Zenon DEF SetKept
  <2>2. \A q \in Procs : Held(q)' /\ Established(q)'
    BY <1>1, SetOthersKeep, Zenon DEF SetKept
  <2> QED BY <1>1, <2>1, <2>2, Zenon DEF SetKept, SetIInv
<1>2. ASSUME NEW p \in Procs, LockSet!Proceed(p) PROVE SetKept(p)
  BY <1>2, DiscoverOwnerKeeps, BootstrapKeeps, LockEntryKeeps, AllLockedKeeps,
     ValidateOutputKeeps, ValidateInputKeeps, LockMendKeeps, RecoverInputKeeps,
     BeginTransactionKeeps, CommitKeeps, EndingKeeps, Zenon DEF LockSet!Proceed
<1>3. CASE UNCHANGED LockSet!vars
  <2>1. /\ UNCHANGED <<value, journals, jowners, locks, at, req, owner, job, expect, todo, mend>>
        /\ UNCHANGED <<seen, commands>>
    BY <1>3, Zenon DEF LockSet!vars, LockSet!shared, LockSet!local
  <2>2. SetTyped'
    BY <2>1, Zenon DEF SetIInv, SetTyped
  <2>3. Exclusive'
    BY <2>1, Zenon DEF SetIInv, Exclusive
  <2>4. ASSUME NEW p \in Procs PROVE Held(p)' /\ Established(p)'
    <3>1. Held(p) /\ Established(p)
      BY Zenon DEF SetIInv
    <3>2. Held(p)'
      BY <2>1, <3>1, Zenon DEF Held, Running, Holds, LockSet!At, LockSet!Entries, LockSet!Inputs, LockSet!Output
    <3>3. Established(p)'
      BY <2>1, <3>1, Zenon DEF Established, Running, Usable, LockSet!At, LockSet!Inputs, LockSet!Output
    <3> QED BY <3>2, <3>3, Zenon
  <2> QED BY <2>2, <2>3, <2>4, Zenon DEF SetIInv
<1>4. CASE LockSet!Next
  BY <1>1, <1>2, <1>3, <1>4, IssueKeeps, EndingKeeps, Zenon DEF LockSet!Next, LockSet!Done
<1> QED BY <1>3, <1>4, Zenon

\* The invariant holds throughout.
LEMMA SetInvariant == LockSet!ConstantsAssumption => (LockSet!Spec => []SetIInv)
<1> SUFFICES ASSUME LockSet!ConstantsAssumption PROVE LockSet!Spec => []SetIInv
  BY Zenon
<1>1. SetIInv /\ [LockSet!Next]_(LockSet!vars) => SetIInv'
  BY StepPreserves, Zenon
<1> QED BY <1>1, InitEstablishes, PTL DEF LockSet!Spec

\* Whatever the requests and however commands, failures and crashes interleave,
\* the body of a command (compile, link, emit under _publication_lock_set)
\* works on the inputs it validated, and none of them is being published.
THEOREM Snapshot == LockSet!ConstantsAssumption => (LockSet!Spec => []LockSet!SnapshotHolds)
<1> SUFFICES ASSUME LockSet!ConstantsAssumption PROVE LockSet!Spec => []LockSet!SnapshotHolds
  BY Zenon
<1>1. ASSUME SetIInv PROVE LockSet!SnapshotHolds
  <2> SUFFICES ASSUME NEW p \in Procs, LockSet!InLockSet(p), NEW d \in LockSet!Inputs(p)
               PROVE  Usable(p, d)
    BY Zenon DEF LockSet!SnapshotHolds, Usable
  <2>1. Running(p) /\ todo[p] = {}
    BY <1>1, Zenon DEF SetIInv, Established, LockSet!InLockSet, LockSet!InBody, Running, LockSet!At
  <2> QED BY <1>1, <2>1, Zenon DEF SetIInv, Established
<1> QED BY <1>1, SetInvariant, PTL

\* The journal and the destination of a live transaction belong to the process
\* inside it: _recover_publication and _recover_locked of the others only ever
\* touch what their own exclusive lock protects.
THEOREM Undisturbed == LockSet!ConstantsAssumption => (LockSet!Spec => []LockSet!TransactionUndisturbed)
<1> SUFFICES ASSUME LockSet!ConstantsAssumption PROVE LockSet!Spec => []LockSet!TransactionUndisturbed
  BY Zenon
<1>1. ASSUME SetIInv PROVE LockSet!TransactionUndisturbed
  BY <1>1, Zenon DEF SetIInv, Established, LockSet!TransactionUndisturbed
<1> QED BY <1>1, SetInvariant, PTL

=============================================================================
