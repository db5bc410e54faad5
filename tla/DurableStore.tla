---------------------------- MODULE DurableStore ----------------------------
(***************************************************************************)
(* The durable files of src/src/coordinator.cpp and the process that       *)
(* writes them: DurableStore, Coordinator::commit and Coordinator::setup,  *)
(* with a process that may die between any two steps and be started again. *)
(*                                                                         *)
(* The engine's state is a number: every change of it makes a state that   *)
(* never was before.  A process death loses the process's memory and may   *)
(* leave a half-written file, but what was handed to the system stays:     *)
(* the code flushes its streams and never calls fsync, so the loss of the  *)
(* whole machine is outside what it can promise.                           *)
(***************************************************************************)
EXTENDS Integers, Sequences, FiniteSets, SequencesExt

CONSTANTS
  MaxRecords,               \* kJournalMaxBytes, counted in records
  MaxBoot, MaxChange,       \* bounds of the model: process starts, engine changes
  MaxJournal                \* bound of the model: records in the journal file

ASSUME StoreAssumption ==
  /\ MaxRecords \in Nat \ {0}
  /\ MaxBoot \in Nat /\ MaxChange \in Nat /\ MaxJournal \in Nat

VARIABLES
  step,         \* where the process is in commit; "down" when there is none
  stopping,     \* the snapshot being written is the last one, see run_staged
  epoch,        \* the engine's epoch_
  state,        \* the engine's plans and policies
  next,         \* next_sequence_
  openAttempt,  \* open_attempt_epoch_
  temp,         \* the file recovery.snapshot.tmp
  snapshot,     \* the file recovery.snapshot
  journal,      \* the file recovery.journal
  acked,        \* history: the last state a commit reported success for
  boot,         \* history: the number of the running process
  changes       \* history: the number of engine changes ever made

process == <<step, stopping, epoch, state, next, openAttempt>>
files == <<temp, snapshot, journal>>
history == <<acked, boot, changes>>
vars == <<process, files, history>>

Steps == {"down", "running", "appended", "flushed", "writing", "written", "renamed"}

\* A snapshot file.  "by" is the process that wrote it, for the properties only.
SnapshotFiles ==
  [kind : {"none", "broken", "whole"}, epoch : Nat, state : Nat, sequence : Nat, by : Nat]
NoFile == [kind |-> "none", epoch |-> 0, state |-> 0, sequence |-> 0, by |-> 0]
Broken == [NoFile EXCEPT !.kind = "broken"]

\* A journal record carries no payload; "state", the state it was written for, is
\* there for the properties only.  A torn record is the tail a dead process left.
JournalRecords ==
  [torn : BOOLEAN, kind : {"STAGE", "ROLLBACK", "INTENT", "COMMIT"}, sequence : Nat,
   epoch : Nat, state : Nat]
Torn == [torn |-> TRUE, kind |-> "STAGE", sequence |-> 0, epoch |-> 0, state |-> 0]

Init ==
  /\ step = "down" /\ stopping = FALSE
  /\ epoch = 0 /\ state = 0 /\ next = 1 /\ openAttempt = 0
  /\ temp = NoFile /\ snapshot = NoFile /\ journal = <<>>
  /\ acked = 0 /\ boot = 0 /\ changes = 0

-----------------------------------------------------------------------------
(* load and setup.                                                         *)

\* replay_journal reads whole records of increasing sequence and stops at the
\* first that is not; a torn record swallows what follows it.
Readable(j) ==
  {n \in 0..Len(j) :
     \A k \in 1..n : ~j[k].torn /\ (k > 1 => j[k].sequence > j[k - 1].sequence)}

\* The records replay_journal gets to.  A journal that is too large is not read at all.
Replayed(j) == IF Len(j) > MaxRecords THEN <<>> ELSE SubSeq(j, 1, Max(Readable(j)))

\* Of these it returns the ones that are not older than the snapshot's epoch.
Fresh(r, live) == r.epoch >= live

\* A mutant of ResumedSequence: the snapshot's sequence is forgotten.
ResumedSequenceFromOne(records, live, last) == 1

\* load: next_sequence_ follows the snapshot, and jumps behind a record beyond it.
ResumedSequence(records, live, last) ==
  LET Past(seq, r) ==
        IF Fresh(r, live) /\ r.sequence > seq THEN r.sequence + 1 ELSE seq
  IN FoldLeft(Past, last + 1, records)

\* load: the epoch of the last INTENT that no COMMIT follows.
UnfinishedAttempt(records, live) ==
  LET Seen(open, r) ==
        IF Fresh(r, live) /\ r.kind \in {"INTENT", "COMMIT"}
        THEN (IF r.kind = "INTENT" THEN r.epoch ELSE 0)
        ELSE open
  IN FoldLeft(Seen, 0, records)

\* A mutant of RestoredEpoch: the snapshot's epoch is taken over.
RestoredEpochUnchanged == snapshot.epoch

RestoredEpoch == snapshot.epoch + 1

\* setup imports the snapshot under the next epoch.  Nothing is written.
StartRestored ==
  LET records == Replayed(journal) IN
  /\ step = "down" /\ boot < MaxBoot
  /\ snapshot.kind = "whole"
  /\ step' = "running" /\ stopping' = FALSE
  /\ epoch' = RestoredEpoch
  /\ state' = snapshot.state
  /\ next' = ResumedSequence(records, snapshot.epoch, snapshot.sequence)
  /\ openAttempt' = UnfinishedAttempt(records, snapshot.epoch)
  /\ boot' = boot + 1
  /\ UNCHANGED <<files, acked, changes>>

\* setup without a snapshot: the journal is not looked at.  A snapshot that cannot
\* be read comes here too: load returns false and clears report.valid, and setup
\* gives up only when it is still set.
StartFresh ==
  /\ step = "down" /\ boot < MaxBoot
  /\ snapshot.kind # "whole"
  /\ step' = "running" /\ stopping' = FALSE
  /\ epoch' = 1 /\ state' = 0
  /\ next' = 1 /\ openAttempt' = 0
  /\ boot' = boot + 1
  /\ UNCHANGED <<files, acked, changes>>

-----------------------------------------------------------------------------
(* The running process: engine calls, commit and the snapshot.             *)

\* A call of the engine that changes its state.  It comes before anything is
\* written about it.
Work ==
  /\ step = "running" /\ changes < MaxChange
  /\ changes' = changes + 1 /\ state' = changes + 1
  /\ UNCHANGED <<step, stopping, epoch, next, openAttempt, files, acked, boot>>

Record(kind) ==
  [torn |-> FALSE, kind |-> kind, sequence |-> next, epoch |-> epoch, state |-> state]

\* commit: append takes next_sequence_ and leaves it as it is.
AppendRecord ==
  \E kind \in {"STAGE", "ROLLBACK"} :
    /\ step = "running" /\ Len(journal) < MaxJournal
    /\ journal' = Append(journal, Record(kind))
    /\ step' = "appended"
    /\ UNCHANGED <<stopping, epoch, state, next, openAttempt, temp, snapshot, history>>

\* The process dies in append.
TearRecord ==
  /\ step = "running" /\ Len(journal) < MaxJournal
  /\ journal' = Append(journal, Torn)
  /\ step' = "down"
  /\ UNCHANGED <<stopping, epoch, state, next, openAttempt, temp, snapshot, history>>

\* A mutant of Flush: a commit that fails leaves the process in no step at all.
FlushLingering ==
  /\ step = "appended"
  /\ step' = IF Len(journal) > MaxRecords THEN "failed" ELSE "flushed"
  /\ UNCHANGED <<stopping, epoch, state, next, openAttempt, files, history>>

\* flush: a journal that has grown too large fails the commit, which ends the run.
Flush ==
  /\ step = "appended"
  /\ step' = IF Len(journal) > MaxRecords THEN "down" ELSE "flushed"
  /\ UNCHANGED <<stopping, epoch, state, next, openAttempt, files, history>>

\* run_staged stops after a given rung: a snapshot without a journal record, under
\* the sequence the next record would have.
StopHere ==
  /\ step = "running"
  /\ step' = "flushed" /\ stopping' = TRUE
  /\ UNCHANGED <<epoch, state, next, openAttempt, files, history>>

\* A mutant of OpenTemp: the snapshot is written in place.
OpenInPlace ==
  /\ step = "flushed"
  /\ step' = "writing"
  /\ temp' = Broken /\ snapshot' = Broken
  /\ UNCHANGED <<stopping, epoch, state, next, openAttempt, journal, history>>

\* write_snapshot truncates the temporary file ...
OpenTemp ==
  /\ step = "flushed"
  /\ step' = "writing"
  /\ temp' = Broken
  /\ UNCHANGED <<stopping, epoch, state, next, openAttempt, snapshot, journal, history>>

\* ... writes it ...
FinishTemp ==
  /\ step = "writing"
  /\ step' = "written"
  /\ temp' = [kind |-> "whole", epoch |-> epoch, state |-> state, sequence |-> next, by |-> boot]
  /\ UNCHANGED <<stopping, epoch, state, next, openAttempt, snapshot, journal, history>>

\* ... and puts it in the place of the snapshot.
Replace ==
  /\ step = "written"
  /\ step' = "renamed"
  /\ snapshot' = temp /\ temp' = NoFile
  /\ openAttempt' = 0
  /\ UNCHANGED <<stopping, epoch, state, next, journal, history>>

\* A mutant of Return: success is reported before the snapshot is in place.
ReturnEarly ==
  /\ step = "written"
  /\ step' = "running"
  /\ acked' = state
  /\ UNCHANGED <<stopping, epoch, state, next, openAttempt, files, boot, changes>>

\* write_snapshot reports success; after the last snapshot the process ends.
Return ==
  /\ step = "renamed"
  /\ step' = IF stopping THEN "down" ELSE "running"
  /\ acked' = state
  /\ UNCHANGED <<stopping, epoch, state, next, openAttempt, files, boot, changes>>

\* The process ends or dies, anywhere.
Crash ==
  /\ step # "down"
  /\ step' = "down"
  /\ UNCHANGED <<stopping, epoch, state, next, openAttempt, files, history>>

Next ==
  \/ StartRestored \/ StartFresh
  \/ Work
  \/ AppendRecord \/ TearRecord \/ Flush
  \/ StopHere
  \/ OpenTemp \/ FinishTemp \/ Replace \/ Return
  \/ Crash

Spec == Init /\ [][Next]_vars

\* The medium damages the snapshot while no process is running.
DamageSnapshot ==
  /\ step = "down"
  /\ snapshot.kind = "whole"
  /\ snapshot' = Broken
  /\ UNCHANGED <<process, temp, journal, history>>

SpecWithDamage == Init /\ [][Next \/ DamageSnapshot]_vars

-----------------------------------------------------------------------------
(* Properties.                                                             *)

\* Every variable has its type; the process is always in a step that goes on.
TypeOK ==
  /\ step \in Steps /\ stopping \in BOOLEAN
  /\ epoch \in Nat /\ state \in Nat /\ next \in Nat \ {0} /\ openAttempt \in Nat
  /\ temp \in SnapshotFiles /\ snapshot \in SnapshotFiles
  /\ journal \in Seq(JournalRecords)
  /\ acked \in Nat /\ boot \in Nat /\ changes \in Nat

\* The store is an atomic register: wherever the process dies, the next one starts
\* from the last state that was put in place, and no state is acknowledged before.
Stable == INSTANCE StableState
  WITH up <- step # "down", memory <- state, stable <- snapshot.state, acked <- acked
StableSpec == Stable!Spec

\* An acknowledged state is never lost: the snapshot on disk is whole and holds it
\* or a later one, in the middle of a commit and after any crash.
AcknowledgedSurvives ==
  acked > 0 => snapshot.kind = "whole" /\ acked <= snapshot.state

Whole(j) == {k \in DOMAIN j : ~j[k].torn}

\* Along the journal neither sequences nor epochs go down, and records of different
\* epochs never share a sequence, whatever was torn or left without its snapshot
\* by the processes before.
JournalInOrder ==
  \A j, k \in Whole(journal) : j < k =>
    /\ journal[j].epoch <= journal[k].epoch
    /\ journal[j].sequence <= journal[k].sequence
    /\ journal[j].epoch # journal[k].epoch => journal[j].sequence < journal[k].sequence

\* An epoch that a snapshot bears belongs to one process: although an epoch may be
\* used again when a process dies before its first snapshot, two processes never
\* both commit under it, so restored state is always older than the live epoch.
OneCommitterPerEpoch ==
  [][snapshot.kind = "whole" /\ snapshot'.epoch = snapshot.epoch
       => snapshot'.by = snapshot.by]_vars

-----------------------------------------------------------------------------
(* Statements the documentation or the code makes, that the code does not  *)
(* keep.                                                                   *)

\* Sequence numbers never repeat and never regress.
SequencesNeverRepeat ==
  \A j, k \in Whole(journal) : j < k => journal[j].sequence < journal[k].sequence

\* A crash between a record and its snapshot leaves an unfinished attempt that the
\* restart reports.
UnfinishedReported ==
  [][/\ step = "down" /\ step' # "down"
     /\ journal # <<>> /\ ~journal[Len(journal)].torn
     /\ journal[Len(journal)].state > snapshot.state
     => openAttempt' # 0]_vars

\* A corrupt snapshot is never silently repaired: the coordinator refuses to run.
DamageRefused ==
  [][step = "down" /\ snapshot.kind = "broken" => step' = "down"]_vars
=============================================================================
