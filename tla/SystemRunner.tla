---------------------------- MODULE SystemRunner ----------------------------
(***************************************************************************)
(* gfsim::SystemRunner::Run (runtime/system_runner.cpp): configures, resets *)
(* and steps one model until it stops, writes a record of every committed  *)
(* observation group to the event stream and a result record at its end.   *)
(*                                                                         *)
(* The executor is that of module SimExecutor, reduced to what the runner  *)
(* sees of it: the outcome of a step, the cycle count, the events of the   *)
(* last cycle and the gauges with their last update.  The refusals of a    *)
(* group that is incomplete or unknown are left out: metadataMatches and   *)
(* Precommit exclude them.  Run is called once: fail() clears ready_ only  *)
(* for a later call.                                                       *)
(***************************************************************************)
EXTENDS Naturals, Sequences, FiniteSets

CONSTANTS Groups,      \* observation groups, numbered in descriptor order
          Gauges,      \* those of a gauge
          MaxLimit     \* bound: the largest limit and schedule

ASSUME RunnerAssumption ==
  /\ IsFiniteSet(Groups) /\ Groups \subseteq Nat /\ Gauges \subseteq Groups
  /\ MaxLimit \in Nat \ {0}

\* What a process is started with: max_ticks or the default domain limit,
\* which the constructor requires to be positive; callbacks.drive and
\* callbacks.expectedEpochs, 0 for none, which needs a driver; --events; and
\* whether the system has root modules.
Configs ==
  { c \in [limit : 1 .. MaxLimit, driven : BOOLEAN, expected : 0 .. MaxLimit,
           sink : BOOLEAN, roots : BOOLEAN] : c.expected # 0 => c.driven }

VARIABLES
  config,
  pc,
  cycles,      \* executor.cycles()
  events,      \* observations.Events()
  lastUpdate,  \* of observations.Gauges()
  last,        \* step.state
  records,     \* serialised records of this cycle that are not yet written
  status,      \* finalStatus
  code,        \* resultCode, or the code that Run returned
  incomplete,  \* incompleteSchedule
  stream,      \* what is in the event stream
  committed    \* history: the groups that the model has committed

slots == <<events, lastUpdate>>
outcome == <<status, code, incomplete>>
vars == <<config, pc, cycles, slots, last, records, outcome, stream, committed>>

Record(epoch, g) == [kind |-> "event", epoch |-> epoch, what |-> g]
Result == [kind |-> "result", epoch |-> cycles, what |-> status]
Partial(r) == [r EXCEPT !.kind = "partial"]

\* The records of the groups in S, in the order of their descriptors.
RecordsOf(S, epoch) ==
  LET nth(i) == CHOOSE g \in S : Cardinality({h \in S : h < g}) = i - 1
  IN [i \in 1 .. Cardinality(S) |-> Record(epoch, nth(i))]

Init ==
  /\ config \in Configs
  /\ pc = "start"
  /\ cycles = 0 /\ events = {} /\ lastUpdate = [g \in Gauges |-> 0]
  /\ last = "RUNNING" /\ records = <<>>
  /\ status = "" /\ code = 0 /\ incomplete = FALSE
  /\ stream = <<>> /\ committed = <<>>

Goto(label) == pc' = label

\* Run returns.
Return(c) == Goto("done") /\ code' = c

\* Options, metadata, Build, ConfigureJson or Reset is refused.
Refuse ==
  /\ pc = "start"
  /\ Return(2)
  /\ UNCHANGED <<config, cycles, slots, last, records, status, incomplete, stream, committed>>

Start ==
  /\ pc = "start"
  /\ Goto("drive")
  /\ UNCHANGED <<config, cycles, slots, last, records, outcome, stream, committed>>

\* A callback throws, or an allocation fails.
Throw ==
  /\ pc \in {"start", "drive", "sample", "report"}
  /\ Return(1)
  /\ UNCHANGED <<config, cycles, slots, last, records, status, incomplete, stream, committed>>

\* The driver has nothing left.
DriveEnds ==
  /\ pc = "drive" /\ config.driven
  /\ status' = "TERMINATED"
  /\ Goto("finish")
  /\ UNCHANGED <<config, cycles, slots, last, records, code, incomplete, stream, committed>>

ScheduleOver == config.expected # 0 /\ cycles >= config.expected

\* The driver goes on, or there is none.
Drive ==
  /\ pc = "drive"
  /\ ~ScheduleOver
  /\ Goto("step")
  /\ UNCHANGED <<config, cycles, slots, last, records, outcome, stream, committed>>

\* The driver goes on past its schedule.
DriveTooFar ==
  /\ pc = "drive"
  /\ ScheduleOver
  /\ status' = "FAILED" /\ code' = 1 /\ incomplete' = TRUE
  /\ Goto("finish")
  /\ UNCHANGED <<config, cycles, slots, last, records, stream, committed>>

StepFails ==
  /\ pc = "step" /\ config.roots
  /\ status' = "FAILED" /\ code' = 1
  /\ Goto("finish")
  /\ UNCHANGED <<config, cycles, slots, last, records, incomplete, stream, committed>>

\* A system without roots has nothing to do.  SimSystem::Step asks HasWork of
\* every root in each step, and the roots that the compiler emits always have work.
StepQuiescent ==
  /\ pc = "step" /\ ~config.roots
  /\ last' = "QUIESCENT"
  /\ Goto("sample")
  /\ UNCHANGED <<config, cycles, slots, records, outcome, stream, committed>>

LimitReached(n) == n >= config.limit

\* The step commits the observations of the groups in S.
Step(S) ==
  /\ pc = "step" /\ config.roots
  /\ cycles' = cycles + 1
  /\ last' = IF LimitReached(cycles') THEN "TERMINATED" ELSE "RUNNING"
  /\ events' = S \ Gauges
  /\ lastUpdate' = [g \in Gauges |-> IF g \in S THEN cycles' ELSE lastUpdate[g]]
  /\ committed' = committed \o RecordsOf(S, cycles')
  /\ Goto("sample")
  /\ UNCHANGED <<config, records, outcome, stream>>

\* Mutant: a gauge that this cycle has not written is reported again.
Updated_Ever == {g \in Gauges : lastUpdate[g] # 0}

Updated == {g \in Gauges : lastUpdate[g] = cycles}

\* Every record of the cycle is serialised before one is written.
Collect ==
  /\ pc = "sample"
  /\ records' = IF last = "QUIESCENT" THEN <<>> ELSE RecordsOf(events \cup Updated, cycles)
  /\ Goto("write")
  /\ UNCHANGED <<config, cycles, slots, last, outcome, stream, committed>>

\* writeRecord: without a sink it succeeds and writes nothing.
Put(r) == stream' = IF config.sink THEN Append(stream, r) ELSE stream

\* fwrite is short or fflush fails: the record is there, in part or not at all.
PutFails(r) == config.sink /\ stream' \in {stream, Append(stream, Partial(r)), Append(stream, r)}

WriteRecord ==
  /\ pc = "write" /\ records # <<>>
  /\ Put(Head(records))
  /\ records' = Tail(records)
  /\ UNCHANGED <<config, pc, cycles, slots, last, outcome, committed>>

WriteFails ==
  /\ pc = "write" /\ records # <<>>
  /\ PutFails(Head(records))
  /\ Return(1)
  /\ UNCHANGED <<config, cycles, slots, last, records, status, incomplete, committed>>

\* Mutant: only a limit ends the loop.
CycleDone_Quiescent ==
  /\ pc = "write" /\ records = <<>>
  /\ IF last # "TERMINATED"
     THEN Goto("drive") /\ UNCHANGED status
     ELSE Goto("finish") /\ status' = last
  /\ UNCHANGED <<config, cycles, slots, last, records, code, incomplete, stream, committed>>

CycleDone ==
  /\ pc = "write" /\ records = <<>>
  /\ IF last = "RUNNING"
     THEN Goto("drive") /\ UNCHANGED status
     ELSE Goto("finish") /\ status' = last
  /\ UNCHANGED <<config, cycles, slots, last, records, code, incomplete, stream, committed>>

\* Mutant: a run that stops early passes.
CheckSchedule_Skipped ==
  /\ pc = "finish"
  /\ Goto("report")
  /\ UNCHANGED <<config, cycles, slots, last, records, outcome, stream, committed>>

CheckSchedule ==
  /\ pc = "finish"
  /\ IF code = 0 /\ config.expected # 0 /\ cycles # config.expected
     THEN status' = "FAILED" /\ code' = 1 /\ incomplete' = TRUE
     ELSE UNCHANGED outcome
  /\ Goto("report")
  /\ UNCHANGED <<config, cycles, slots, last, records, stream, committed>>

\* Statistics and the last error are read and the result record is written.
WriteResult ==
  /\ pc = "report"
  /\ Put(Result)
  /\ Return(code)
  /\ UNCHANGED <<config, cycles, slots, last, records, status, incomplete, committed>>

\* Statistics cannot be had, or the record cannot be written.
ReportFails ==
  /\ pc = "report"
  /\ stream' = stream \/ PutFails(Result)
  /\ Return(1)
  /\ UNCHANGED <<config, cycles, slots, last, records, status, incomplete, committed>>

Progress ==
  \/ Start \/ DriveEnds \/ Drive \/ DriveTooFar
  \/ StepFails \/ StepQuiescent
  \/ \E S \in SUBSET Groups : Step(S)
  \/ Collect \/ WriteRecord \/ CycleDone
  \/ CheckSchedule \/ WriteResult

Done == pc = "done" /\ UNCHANGED vars

Next == Progress \/ Refuse \/ Throw \/ WriteFails \/ ReportFails \/ Done

\* The runner is one thread that runs until it returns.
Spec == Init /\ [][Next]_vars /\ WF_vars(Progress)

-----------------------------------------------------------------------------
(* Properties.                                                             *)

\* The records of observations: all but a last one of another kind.
Written ==
  IF stream # <<>> /\ stream[Len(stream)].kind # "event"
  THEN SubSeq(stream, 1, Len(stream) - 1)
  ELSE stream

\* What Run writes to the event stream: never a record that the model has not
\* committed, never out of order and never twice.  A result or a partial record
\* is the last one, and a result follows the records of every committed cycle.
StreamFaithful ==
  /\ \E n \in 0 .. Len(committed) : Written = SubSeq(committed, 1, n)
  /\ \A i \in DOMAIN stream :
       /\ stream[i].kind # "event" => i = Len(stream) /\ pc = "done"
       /\ stream[i].kind = "result" => Written = committed

\* Exit code 0 of Run means that the model stopped by itself and not beyond its
\* limit, that a finite schedule was driven to its last epoch, and that the
\* stream, if there is one, is complete and ends with that result.
SuccessMeansComplete ==
  pc = "done" /\ code = 0 =>
    /\ status \in {"TERMINATED", "QUIESCENT"}
    /\ cycles <= config.limit
    /\ config.expected # 0 => cycles = config.expected
    /\ config.sink => stream # <<>> /\ stream[Len(stream)] = Result /\ Written = committed

\* Every run ends: the constructor admits no configuration without a limit, and
\* a system without work stops.
RunEnds == <>(pc = "done")

=============================================================================
