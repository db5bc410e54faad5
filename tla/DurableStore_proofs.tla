------------------------ MODULE DurableStore_proofs ------------------------
(***************************************************************************)
(* Proofs about DurableStore: it implements the atomic register of         *)
(* StableState, loses nothing it acknowledged, lets one process at most    *)
(* commit under an epoch, and keeps its journal in order.                  *)
(***************************************************************************)
EXTENDS DurableStore, WellFoundedInduction, TLAPS

\* What the proofs about the register need to know of the types: the values of the
\* journal, of the sequences and of the open attempt do not matter to them.
Typed ==
  /\ step \in Steps
  /\ epoch \in Nat /\ state \in Nat /\ acked \in Nat /\ changes \in Nat
  /\ snapshot.kind \in {"none", "whole"}
  /\ snapshot.state \in Nat /\ snapshot.epoch \in Nat
  /\ snapshot.kind = "none" => snapshot.state = 0 /\ snapshot.epoch = 0

\* The order of the steps of a commit: the temporary file holds the state in memory
\* before it is renamed, and the snapshot does when success is reported.
InOrder ==
  /\ acked <= snapshot.state
  /\ snapshot.state <= changes /\ state <= changes
  /\ step # "down" => snapshot.state <= state
  /\ step = "written" => temp.kind = "whole" /\ temp.state = state
  /\ step = "renamed" => snapshot.kind = "whole" /\ snapshot.state = state

\* A process runs under an epoch that no snapshot bears but its own.
Fenced ==
  /\ step # "down" => epoch > 0 /\ snapshot.epoch <= epoch
  /\ step # "down" /\ snapshot.epoch = epoch => snapshot.by = boot
  /\ step = "written" => temp.epoch = epoch /\ temp.by = boot

StoreInv == Typed /\ InOrder /\ Fenced

\* The initial state.
LEMMA StoreInit == Init => StoreInv
BY DEF Init, StoreInv, Typed, InOrder, Fenced, NoFile, Steps

\* Every step keeps the invariant.
LEMMA StoreStep == StoreInv /\ [Next]_vars => StoreInv'
<1> SUFFICES ASSUME StoreInv, [Next]_vars PROVE StoreInv'
  OBVIOUS
<1> USE DEF StoreInv, Typed, InOrder, Fenced, Steps
<1>1. CASE StartRestored
  BY <1>1 DEF StartRestored, RestoredEpoch, files
<1>2. CASE StartFresh
  BY <1>2 DEF StartFresh, files
<1>3. CASE Work
  BY <1>3 DEF Work, files
<1>4. CASE AppendRecord \/ TearRecord
  BY <1>4 DEF AppendRecord, TearRecord, history
<1>5. CASE Flush \/ StopHere \/ Crash
  BY <1>5 DEF Flush, StopHere, Crash, files, history
<1>6. CASE OpenTemp
  BY <1>6 DEF OpenTemp, history
<1>7. CASE FinishTemp
  BY <1>7 DEF FinishTemp, history
<1>8. CASE Replace
  BY <1>8 DEF Replace, history
<1>9. CASE Return
  BY <1>9 DEF Return, files
<1>10. CASE UNCHANGED vars
  BY <1>10 DEF vars, process, files, history
<1> QED
  BY <1>1, <1>2, <1>3, <1>4, <1>5, <1>6, <1>7, <1>8, <1>9, <1>10 DEF Next

\* The invariant holds in every reachable state.
LEMMA StoreInvariant == Spec => []StoreInv
BY StoreInit, StoreStep, PTL DEF Spec

\* An acknowledged state is never lost, wherever a process dies.
THEOREM AcknowledgedCorrect == Spec => []AcknowledgedSurvives
<1>1. StoreInv => AcknowledgedSurvives
  BY DEF StoreInv, Typed, InOrder, AcknowledgedSurvives
<1> QED
  BY <1>1, StoreInvariant, PTL

\* At most one process commits under an epoch, although epochs are used again.
THEOREM OneCommitterCorrect == Spec => OneCommitterPerEpoch
<1> DEFINE A == snapshot.kind = "whole" /\ snapshot'.epoch = snapshot.epoch
                  => snapshot'.by = snapshot.by
<1>1. StoreInv /\ [Next]_vars => [A]_vars
  <2> SUFFICES ASSUME StoreInv, Next PROVE A
    BY DEF vars
  <2>1. CASE Replace
    BY <2>1 DEF Replace, StoreInv, Fenced
  <2>2. CASE ~Replace
    <3>1. snapshot' = snapshot
      BY <2>2 DEF Next, StartRestored, StartFresh, Work, AppendRecord, TearRecord, Flush,
                  StopHere, OpenTemp, FinishTemp, Return, Crash, files
    <3> QED
      BY <3>1
  <2> QED
    BY <2>1, <2>2
<1> QED
  BY <1>1, StoreInvariant, PTL DEF Spec, OneCommitterPerEpoch

\* The files and the process implement the atomic register: the rename is the one
\* step that makes a state stable, and every other step of a commit is invisible.
THEOREM StoreImplementsStableState == Spec => StableSpec
<1>1. Init => Stable!Init
  BY DEF Init, Stable!Init, NoFile
<1>2. StoreInv /\ [Next]_vars => [Stable!Next]_Stable!vars
  <2> SUFFICES ASSUME StoreInv, [Next]_vars PROVE [Stable!Next]_Stable!vars
    OBVIOUS
  <2> USE DEF StoreInv, Typed, InOrder, Stable!vars, Stable!Next
  <2>1. CASE StartRestored \/ StartFresh
    BY <2>1 DEF StartRestored, StartFresh, files, Stable!Start
  <2>2. CASE Work
    BY <2>2 DEF Work, files, Stable!Work
  <2>3. CASE AppendRecord \/ OpenTemp \/ FinishTemp \/ StopHere
    BY <2>3 DEF AppendRecord, OpenTemp, FinishTemp, StopHere, files, history
  <2>4. CASE TearRecord \/ Crash
    BY <2>4 DEF TearRecord, Crash, files, history, Stable!Stop
  <2>5. CASE Flush
    BY <2>5 DEF Flush, files, history, Stable!Stop
  <2>6. CASE Replace
    BY <2>6 DEF Replace, history, Stable!Commit
  <2>7. CASE Return
    BY <2>7 DEF Return, files, Stable!Acknowledge
  <2>8. CASE UNCHANGED vars
    BY <2>8 DEF vars, process, files, history
  <2> QED
    BY <2>1, <2>2, <2>3, <2>4, <2>5, <2>6, <2>7, <2>8 DEF Next
<1> QED
  BY <1>1, <1>2, StoreInvariant, PTL DEF Spec, StableSpec, Stable!Spec

-----------------------------------------------------------------------------
(* What load makes of the journal.                                         *)

\* A set of naturals has a least element.
LEMMA LeastNatural ==
  ASSUME NEW S, S \subseteq Nat, S # {}
  PROVE  \E x \in S : \A y \in S : x <= y
<1> DEFINE R == OpToRel(<, Nat)
<1>1. ASSUME NEW x \in Nat, NEW y \in Nat, y < x PROVE <<y, x>> \in R
  BY <1>1, Zenon DEF OpToRel
<1>2. \E x \in S : \A y \in S : ~(<<y, x>> \in R)
  <2>1. IsWellFoundedOn(R, Nat)
    BY NatLessThanWellFounded
  <2> HIDE DEF R
  <2> QED
    BY <2>1, WFMin
<1> HIDE DEF R
<1>3. PICK x \in S : \A y \in S : ~(<<y, x>> \in R)
  BY <1>2
<1>4. ASSUME NEW y \in S PROVE x <= y
  <2>1. x \in Nat /\ y \in Nat /\ ~(y < x)
    BY <1>1, <1>3
  <2> QED
    BY <2>1
<1> QED
  BY <1>4

\* A bounded set of naturals has a greatest element, and Max is it.
LEMMA Greatest ==
  ASSUME NEW n \in Nat, NEW S, S \subseteq 0..n, S # {}
  PROVE  Max(S) \in S /\ \A x \in S : x <= Max(S)
<1> DEFINE Below == {n - x : x \in S}
<1>1. Below \subseteq Nat /\ Below # {}
  <2>1. ASSUME NEW x \in S PROVE n - x \in Nat
    <3>1. x \in 0..n
      OBVIOUS
    <3> QED
      BY <3>1
  <2> QED
    BY <2>1
<1>2. PICK b \in Below : \A c \in Below : b <= c
  BY <1>1, LeastNatural
<1>3. PICK m \in S : b = n - m
  BY <1>2
<1>4. \A x \in S : m >= x
  <2> SUFFICES ASSUME NEW x \in S PROVE m >= x
    OBVIOUS
  <2>1. n - m <= n - x
    BY <1>2, <1>3
  <2>2. m \in Int /\ x \in Int
    OBVIOUS
  <2> QED
    BY <2>1, <2>2
<1>5. Max(S) \in S /\ \A x \in S : Max(S) >= x
  BY <1>4 DEF Max
<1>6. \A x \in S : x \in Int
  OBVIOUS
<1> QED
  BY <1>5, <1>6

\* A fold that starts at a value no element moves ends at it.
LEMMA Unmoved ==
  ASSUME NEW n \in Nat, NEW base, NEW f, f[{}] = base,
         \A s \in SUBSET (1..n) : s # {} /\ f[s \ {Max(s)}] = base => f[s] = base
  PROVE  f[1..n] = base
<1> DEFINE Moved == {k \in 0..n : f[1..k] # base}
<1>1. SUFFICES ASSUME Moved # {} PROVE FALSE
  BY <1>1
<1>2. PICK k \in Moved : \A j \in Moved : k <= j
  <2>1. Moved \subseteq Nat
    OBVIOUS
  <2> HIDE DEF Moved
  <2> QED
    BY <1>1, <2>1, LeastNatural
<1>3. k \in 1..n
  <2>1. k \in 0..n /\ f[1..k] # base
    BY <1>2
  <2>2. ASSUME k = 0 PROVE FALSE
    <3>1. 1..0 = {}
      OBVIOUS
    <3> QED
      BY <2>1, <2>2, <3>1
  <2> QED
    BY <2>1, <2>2
<1>4. k - 1 \in 0..n /\ 1..k # {} /\ 1..k \in SUBSET (1..n) /\ 1..k \subseteq 0..n
  BY <1>3
<1>5. Max(1..k) = k
  <2>1. Max(1..k) \in 1..k /\ \A x \in 1..k : x <= Max(1..k)
    BY <1>4, Greatest, ZenonT(40)
  <2>2. k \in 1..k
    BY <1>3
  <2>3. k <= Max(1..k) /\ Max(1..k) \in Int /\ Max(1..k) <= k
    BY <1>3, <2>1, <2>2
  <2> QED
    BY <1>3, <2>3
<1>6. (1..k) \ {k} = 1..(k - 1)
  BY <1>3
<1>7. f[1..(k - 1)] = base
  <2>1. k - 1 \notin Moved
    <3>1. ~(k <= k - 1)
      BY <1>3
    <3> HIDE DEF Moved
    <3> QED
      BY <1>2, <3>1
  <2> QED
    BY <1>4, <2>1
<1> QED
  BY <1>2, <1>4, <1>5, <1>6, <1>7

\* The sequence resumes behind the snapshot's when no record that counts is beyond it.
LEMMA SequenceUnmoved ==
  ASSUME NEW n \in Nat, NEW records, DOMAIN records = 1..n, NEW live, NEW last,
         \A k \in 1..n : ~(Fresh(records[k], live) /\ records[k].sequence > last + 1)
  PROVE  ResumedSequence(records, live, last) = last + 1
<1> DEFINE base == last + 1
           Past(seq, r) == IF Fresh(r, live) /\ r.sequence > seq THEN r.sequence + 1 ELSE seq
           Folds(f) == f = [s \in SUBSET (1..n) |->
                              IF s = {} THEN base
                              ELSE Past(f[s \ {Max(s)}], records[Max(s)])]
           constant == [s \in SUBSET (1..n) |-> base]
           fold == CHOOSE f : Folds(f)
<1>1. ResumedSequence(records, live, last) = fold[1..n]
  BY DEF ResumedSequence, FoldLeft, MapThenFoldSet
<1>2. \A s \in SUBSET (1..n) : s # {} => Max(s) \in 1..n
  <2> SUFFICES ASSUME NEW s \in SUBSET (1..n), s # {} PROVE Max(s) \in 1..n
    OBVIOUS
  <2>1. s \subseteq 0..n
    OBVIOUS
  <2> QED
    BY <2>1, Greatest, ZenonT(40)
<1>3. Folds(constant)
  BY <1>2, ZenonT(40)
<1>4. Folds(fold)
  BY <1>3, ZenonT(40)
<1>5. fold[{}] = base
  BY <1>4
<1>6. \A s \in SUBSET (1..n) : s # {} /\ fold[s \ {Max(s)}] = base => fold[s] = base
  BY <1>2, <1>4, ZenonT(40)
<1> HIDE DEF fold, base
<1>7. fold[1..n] = base
  BY <1>5, <1>6, Unmoved
<1> QED
  BY <1>1, <1>7 DEF base

\* No attempt is reported as open when no record that counts is an intent or its end.
LEMMA AttemptUnmoved ==
  ASSUME NEW n \in Nat, NEW records, DOMAIN records = 1..n, NEW live,
         \A k \in 1..n : records[k].kind \notin {"INTENT", "COMMIT"}
  PROVE  UnfinishedAttempt(records, live) = 0
<1> DEFINE Seen(open, r) ==
             IF Fresh(r, live) /\ r.kind \in {"INTENT", "COMMIT"}
             THEN (IF r.kind = "INTENT" THEN r.epoch ELSE 0)
             ELSE open
           Folds(f) == f = [s \in SUBSET (1..n) |->
                              IF s = {} THEN 0
                              ELSE Seen(f[s \ {Max(s)}], records[Max(s)])]
           constant == [s \in SUBSET (1..n) |-> 0]
           fold == CHOOSE f : Folds(f)
<1>1. UnfinishedAttempt(records, live) = fold[1..n]
  BY DEF UnfinishedAttempt, FoldLeft, MapThenFoldSet
<1>2. \A s \in SUBSET (1..n) : s # {} => Max(s) \in 1..n
  <2> SUFFICES ASSUME NEW s \in SUBSET (1..n), s # {} PROVE Max(s) \in 1..n
    OBVIOUS
  <2>1. s \subseteq 0..n
    OBVIOUS
  <2> QED
    BY <2>1, Greatest
<1>3. Folds(constant)
  BY <1>2
<1>4. Folds(fold)
  BY <1>3
<1>5. fold[{}] = 0
  BY <1>4
<1>6. \A s \in SUBSET (1..n) : s # {} /\ fold[s \ {Max(s)}] = 0 => fold[s] = 0
  BY <1>2, <1>4
<1> HIDE DEF fold
<1>7. fold[1..n] = 0
  BY <1>5, <1>6, Unmoved
<1> QED
  BY <1>1, <1>7

\* What is read of a journal is a prefix of it, of whole records.
LEMMA ReplayedFacts ==
  ASSUME NEW j \in Seq(JournalRecords)
  PROVE  /\ Len(Replayed(j)) \in Nat /\ DOMAIN Replayed(j) = 1..Len(Replayed(j))
         /\ \A k \in 1..Len(Replayed(j)) : k \in Whole(j) /\ Replayed(j)[k] = j[k]
<1>1. CASE Len(j) > MaxRecords
  BY <1>1 DEF Replayed
<1>2. CASE ~(Len(j) > MaxRecords)
  <2> DEFINE n == Max(Readable(j))
  <2>1. Readable(j) \subseteq 0..Len(j) /\ 0 \in Readable(j)
    BY DEF Readable
  <2>2. n \in Readable(j)
    BY <2>1, Greatest
  <2>3. n \in 0..Len(j) /\ \A k \in 1..n : ~j[k].torn
    BY <2>2 DEF Readable
  <2> HIDE DEF n
  <2>4. Replayed(j) = SubSeq(j, 1, n)
    BY <1>2 DEF Replayed, n
  <2>5. Len(SubSeq(j, 1, n)) = n /\ \A k \in 1..n : SubSeq(j, 1, n)[k] = j[k]
    BY <2>3
  <2> QED
    BY <2>3, <2>4, <2>5 DEF Whole
<1> QED
  BY <1>1, <1>2

-----------------------------------------------------------------------------
(* The numbers in the files.                                               *)

\* The types of what the theorems above do not use.  The coordinator writes no
\* record that opens an attempt.
Filed ==
  /\ stopping \in BOOLEAN /\ boot \in Nat
  /\ next \in Nat \ {0} /\ openAttempt = 0
  /\ temp \in SnapshotFiles /\ snapshot \in SnapshotFiles
  /\ journal \in Seq(JournalRecords)
  /\ \A k \in DOMAIN journal : journal[k].kind \notin {"INTENT", "COMMIT"}

\* A whole record is of an epoch and a sequence that the snapshot covers, or of the
\* ones that follow it.
Covered(r) ==
  /\ r.epoch <= snapshot.epoch + 1 /\ r.sequence <= snapshot.sequence + 1
  /\ r.epoch <= snapshot.epoch => r.sequence <= snapshot.sequence
  /\ r.epoch < snapshot.epoch => r.sequence < snapshot.sequence

FilesNumbered ==
  /\ snapshot.kind = "none" => snapshot.sequence = 0
  /\ \A k \in Whole(journal) : Covered(journal[k])

\* A process has the snapshot's epoch and sequence when it wrote it, and the next of
\* both until then.
ProcessNumbered ==
  /\ step # "down" =>
       \/ /\ epoch = snapshot.epoch /\ next = snapshot.sequence
          /\ \A k \in Whole(journal) : journal[k].epoch <= snapshot.epoch
       \/ epoch = snapshot.epoch + 1 /\ next = snapshot.sequence + 1
  /\ step = "written" => temp.sequence = next

JournalInv == StoreInv /\ Filed /\ FilesNumbered /\ ProcessNumbered /\ JournalInOrder

LEMMA FileTypes ==
  /\ NoFile \in SnapshotFiles /\ Broken \in SnapshotFiles
  /\ \A f \in SnapshotFiles : f.epoch \in Nat /\ f.sequence \in Nat /\ f.state \in Nat
  /\ \A r \in JournalRecords : r.epoch \in Nat /\ r.sequence \in Nat
  /\ Torn \in JournalRecords
BY DEF NoFile, Broken, SnapshotFiles, JournalRecords, Torn

LEMMA JournalInit == Init => JournalInv
<1> SUFFICES ASSUME Init PROVE JournalInv
  OBVIOUS
<1>1. StoreInv
  BY StoreInit
<1>2. journal = <<>> /\ DOMAIN journal = {} /\ journal \in Seq(JournalRecords)
  BY DEF Init
<1>3. Whole(journal) = {}
  BY <1>2 DEF Whole
<1>4. Filed
  <2>1. \A k \in DOMAIN journal : journal[k].kind \notin {"INTENT", "COMMIT"}
    BY <1>2
  <2>2. stopping \in BOOLEAN
    BY DEF Init
  <2>3. boot \in Nat /\ next \in Nat \ {0} /\ openAttempt = 0
        /\ temp \in SnapshotFiles /\ snapshot \in SnapshotFiles
    BY FileTypes DEF Init
  <2> QED
    BY <1>2, <2>1, <2>2, <2>3 DEF Filed
<1>5. FilesNumbered /\ ProcessNumbered /\ JournalInOrder
  BY <1>3 DEF Init, FilesNumbered, ProcessNumbered, JournalInOrder, NoFile
<1> QED
  BY <1>1, <1>4, <1>5 DEF JournalInv

LEMMA StartedNumbers ==
  ASSUME JournalInv, StartRestored
  PROVE  next' = snapshot.sequence + 1 /\ openAttempt' = 0
<1> DEFINE records == Replayed(journal)
           n == Len(records)
<1>1. journal \in Seq(JournalRecords) /\ snapshot \in SnapshotFiles
  BY DEF JournalInv, Filed
<1>2. n \in Nat /\ DOMAIN records = 1..n
      /\ \A k \in 1..n : k \in Whole(journal) /\ records[k] = journal[k]
  BY <1>1, ReplayedFacts
<1>3. next' = ResumedSequence(records, snapshot.epoch, snapshot.sequence)
      /\ openAttempt' = UnfinishedAttempt(records, snapshot.epoch)
  BY DEF StartRestored
<1> HIDE DEF records, n
<1>4. ASSUME NEW k \in 1..n
      PROVE  /\ ~(records[k].sequence > snapshot.sequence + 1)
             /\ records[k].kind \notin {"INTENT", "COMMIT"}
  <2>1. k \in Whole(journal) /\ records[k] = journal[k] /\ k \in DOMAIN journal
    BY <1>2 DEF Whole
  <2>2. journal[k].sequence <= snapshot.sequence + 1
    BY <2>1 DEF JournalInv, FilesNumbered, Covered
  <2>3. journal[k].sequence \in Nat /\ snapshot.sequence \in Nat
    <3>1. journal[k] \in JournalRecords
      BY <1>1, <2>1
    <3> QED
      BY <1>1, <3>1, FileTypes
  <2>4. journal[k].kind \notin {"INTENT", "COMMIT"}
    BY <2>1 DEF JournalInv, Filed
  <2> QED
    BY <2>1, <2>2, <2>3, <2>4
<1>5. ResumedSequence(records, snapshot.epoch, snapshot.sequence) = snapshot.sequence + 1
  BY <1>2, <1>4, SequenceUnmoved
<1>6. UnfinishedAttempt(records, snapshot.epoch) = 0
  BY <1>2, <1>4, AttemptUnmoved
<1> QED
  BY <1>3, <1>5, <1>6

\* A step that leaves the files alone keeps what is said of them.
LEMMA FilesKept ==
  ASSUME JournalInv, UNCHANGED <<snapshot, journal>>
  PROVE  FilesNumbered' /\ JournalInOrder' /\ Whole(journal)' = Whole(journal)
BY DEF JournalInv, FilesNumbered, JournalInOrder, Whole, Covered

\* Adding a record that the running process may write, or a torn one.
LEMMA RecordAdded ==
  ASSUME NEW j \in Seq(JournalRecords), NEW r \in JournalRecords
  PROVE  LET new == Append(j, r) IN
         /\ new \in Seq(JournalRecords) /\ Len(new) = Len(j) + 1
         /\ DOMAIN new = DOMAIN j \cup {Len(j) + 1} /\ new[Len(j) + 1] = r
         /\ \A k \in DOMAIN j : new[k] = j[k] /\ k < Len(j) + 1 /\ k \in Int
         /\ r.torn => Whole(new) = Whole(j)
         /\ Whole(new) \subseteq Whole(j) \cup {Len(j) + 1}
<1> DEFINE new == Append(j, r)
<1>1. /\ new \in Seq(JournalRecords) /\ Len(new) = Len(j) + 1
      /\ DOMAIN new = DOMAIN j \cup {Len(j) + 1} /\ new[Len(j) + 1] = r
      /\ \A k \in DOMAIN j : new[k] = j[k] /\ k < Len(j) + 1 /\ k \in Int
  OBVIOUS
<1> HIDE DEF new
<1>2. Len(j) + 1 \notin DOMAIN j
  OBVIOUS
<1> QED
  BY <1>1, <1>2 DEF Whole, new

LEMMA JournalStep == JournalInv /\ [Next]_vars => JournalInv'
<1> SUFFICES ASSUME JournalInv, [Next]_vars PROVE JournalInv'
  OBVIOUS
<1>1. StoreInv'
  BY StoreStep DEF JournalInv
<1>2. /\ StoreInv /\ Filed /\ FilesNumbered /\ ProcessNumbered /\ JournalInOrder
  BY DEF JournalInv
<1>3. /\ snapshot \in SnapshotFiles /\ temp \in SnapshotFiles /\ epoch \in Nat /\ state \in Nat
      /\ next \in Nat \ {0} /\ boot \in Nat /\ journal \in Seq(JournalRecords)
      /\ snapshot.epoch \in Nat /\ snapshot.sequence \in Nat
  BY <1>2, FileTypes DEF Filed, StoreInv, Typed
<1> DEFINE Rest == Filed' /\ FilesNumbered' /\ ProcessNumbered' /\ JournalInOrder'
<1>4. CASE StartRestored
  <2>1. UNCHANGED <<temp, snapshot, journal>> /\ step' = "running" /\ stopping' = FALSE
        /\ epoch' = snapshot.epoch + 1 /\ boot' = boot + 1
    BY <1>4 DEF StartRestored, RestoredEpoch, files
  <2>2. next' = snapshot.sequence + 1 /\ openAttempt' = 0
    BY <1>4, StartedNumbers
  <2>3. FilesNumbered' /\ JournalInOrder'
    BY <2>1, FilesKept
  <2>4. ProcessNumbered'
    BY <2>1, <2>2 DEF ProcessNumbered
  <2>5. Filed'
    <3>1. next' \in Nat \ {0} /\ boot' \in Nat
      BY <1>3, <2>1, <2>2
    <3> QED
      BY <1>2, <2>1, <2>2, <3>1 DEF Filed
  <2> QED
    BY <1>1, <2>3, <2>4, <2>5 DEF JournalInv
<1>5. CASE StartFresh
  <2>1. UNCHANGED <<temp, snapshot, journal>> /\ step' = "running" /\ stopping' = FALSE
        /\ epoch' = 1 /\ boot' = boot + 1 /\ next' = 1 /\ openAttempt' = 0
        /\ snapshot.kind # "whole"
    BY <1>5 DEF StartFresh, files
  <2>2. snapshot.epoch = 0 /\ snapshot.sequence = 0
    BY <1>2, <2>1 DEF StoreInv, Typed, FilesNumbered
  <2>3. FilesNumbered' /\ JournalInOrder'
    BY <2>1, FilesKept
  <2>4. ProcessNumbered'
    BY <2>1, <2>2 DEF ProcessNumbered
  <2>5. Filed'
    <3>1. next' \in Nat \ {0} /\ boot' \in Nat
      BY <1>3, <2>1
    <3> QED
      BY <1>2, <2>1, <3>1 DEF Filed
  <2> QED
    BY <1>1, <2>3, <2>4, <2>5 DEF JournalInv
<1>6. ASSUME UNCHANGED <<temp, snapshot, journal, epoch, next, openAttempt, boot>>,
             stopping' \in BOOLEAN, step = "down" => step' = "down",
             step' = "written" => step = "written"
      PROVE  JournalInv'
  <2>1. FilesNumbered' /\ JournalInOrder' /\ Whole(journal)' = Whole(journal)
    BY <1>6, FilesKept
  <2>2. ProcessNumbered'
    BY <1>2, <1>6, <2>1 DEF ProcessNumbered
  <2>3. Filed'
    BY <1>2, <1>6 DEF Filed
  <2> QED
    BY <1>1, <2>1, <2>2, <2>3 DEF JournalInv
<1>7. CASE Work \/ Flush \/ StopHere \/ Return \/ Crash \/ UNCHANGED vars
  <2>1. stopping \in BOOLEAN
    BY <1>2 DEF Filed
  <2> QED
    BY <1>6, <1>7, <2>1 DEF Work, Flush, StopHere, Return, Crash, vars, process, files, history
<1>8. CASE TearRecord
  <2>1. journal' = Append(journal, Torn) /\ step' = "down"
        /\ UNCHANGED <<stopping, next, openAttempt, temp, snapshot, boot>>
    BY <1>8 DEF TearRecord, history
  <2>2. Torn \in JournalRecords /\ Torn.torn /\ Torn.kind = "STAGE"
    BY FileTypes DEF Torn
  <2>3. /\ journal' \in Seq(JournalRecords) /\ Whole(journal') = Whole(journal)
        /\ DOMAIN journal' = DOMAIN journal \cup {Len(journal) + 1}
        /\ journal'[Len(journal) + 1] = Torn
        /\ \A k \in DOMAIN journal : journal'[k] = journal[k]
    BY <1>3, <2>1, <2>2, RecordAdded
  <2>4. Filed'
    BY <1>2, <1>3, <2>1, <2>2, <2>3 DEF Filed
  <2>5. Whole(journal)' = Whole(journal) /\ \A k \in Whole(journal) : journal'[k] = journal[k]
    BY <2>3 DEF Whole
  <2>6. FilesNumbered' /\ JournalInOrder' /\ ProcessNumbered'
    <3>1. FilesNumbered'
      BY <1>2, <2>1, <2>5, Zenon DEF FilesNumbered, Covered
    <3>2. JournalInOrder'
      BY <1>2, <2>5, Zenon DEF JournalInOrder
    <3>3. ProcessNumbered'
      BY <2>1, Zenon DEF ProcessNumbered
    <3> QED
      BY <3>1, <3>2, <3>3
  <2> QED
    BY <1>1, <2>4, <2>6 DEF JournalInv
<1>9. ASSUME NEW kind \in {"STAGE", "ROLLBACK"}, step = "running",
             journal' = Append(journal, Record(kind)), step' = "appended",
             UNCHANGED <<stopping, epoch, next, openAttempt, temp, snapshot, boot>>
      PROVE  JournalInv'
  <2> DEFINE r == Record(kind)
             n == Len(journal) + 1
  <2>1. /\ r \in JournalRecords /\ r.epoch = epoch /\ r.sequence = next
        /\ r.kind \notin {"INTENT", "COMMIT"}
    BY <1>3 DEF Record, JournalRecords
  <2>2. /\ journal' \in Seq(JournalRecords)
        /\ DOMAIN journal' = DOMAIN journal \cup {n} /\ journal'[n] = r
        /\ \A k \in DOMAIN journal : journal'[k] = journal[k] /\ k < n /\ k \in Int
        /\ Whole(journal') \subseteq Whole(journal) \cup {n}
    BY <1>3, <1>9, <2>1, RecordAdded
  <2>3. n \in Int /\ Whole(journal) \subseteq DOMAIN journal
    BY <1>3 DEF Whole
  <2> HIDE DEF r, n
  <2>4. Filed'
    BY <1>2, <1>3, <1>9, <2>1, <2>2 DEF Filed
  <2>5. \A k \in Whole(journal) : journal[k].epoch \in Nat /\ journal[k].sequence \in Nat
    <3> SUFFICES ASSUME NEW k \in Whole(journal)
                 PROVE  journal[k].epoch \in Nat /\ journal[k].sequence \in Nat
      OBVIOUS
    <3>1. journal[k] \in JournalRecords
      BY <1>3, <2>3
    <3> QED
      BY <3>1, FileTypes
  <2>6. \A k \in Whole(journal) :
          /\ journal[k].epoch <= r.epoch /\ journal[k].sequence <= r.sequence
          /\ journal[k].epoch # r.epoch => journal[k].sequence < r.sequence
    <3> SUFFICES ASSUME NEW k \in Whole(journal)
                 PROVE  /\ journal[k].epoch <= epoch /\ journal[k].sequence <= next
                        /\ journal[k].epoch # epoch => journal[k].sequence < next
      BY <2>1
    <3>1. Covered(journal[k])
      BY <1>2 DEF FilesNumbered
    <3>2. \/ /\ epoch = snapshot.epoch /\ next = snapshot.sequence
             /\ journal[k].epoch <= snapshot.epoch
          \/ epoch = snapshot.epoch + 1 /\ next = snapshot.sequence + 1
      BY <1>2, <1>9 DEF ProcessNumbered
    <3> QED
      BY <1>3, <2>5, <3>1, <3>2, SMTT(30) DEF Covered
  <2>7. \A k \in Whole(journal') :
          \/ k \in Whole(journal) /\ journal'[k] = journal[k] /\ k < n
          \/ k = n /\ journal'[k] = r
    BY <2>2, <2>3
  <2>8. JournalInOrder'
    <3> SUFFICES ASSUME NEW j \in Whole(journal'), NEW k \in Whole(journal'), j < k
                 PROVE  /\ journal'[j].epoch <= journal'[k].epoch
                        /\ journal'[j].sequence <= journal'[k].sequence
                        /\ journal'[j].epoch # journal'[k].epoch
                             => journal'[j].sequence < journal'[k].sequence
      BY DEF JournalInOrder, Whole
    <3>1. CASE k \in Whole(journal) /\ journal'[k] = journal[k] /\ k < n
      <4>1. j \in Whole(journal) /\ journal'[j] = journal[j]
        <5>1. j # n
          BY <2>2, <2>3, <3>1
        <5> QED
          BY <2>7, <5>1
      <4> QED
        BY <1>2, <3>1, <4>1 DEF JournalInOrder
    <3>2. CASE k = n /\ journal'[k] = r
      <4>1. j \in Whole(journal) /\ journal'[j] = journal[j]
        <5>1. j # n
          BY <2>3, <3>2
        <5> QED
          BY <2>7, <5>1
      <4> QED
        BY <2>6, <3>2, <4>1
    <3> QED
      BY <2>7, <3>1, <3>2
  <2>9. Covered(r) /\ (epoch = snapshot.epoch => r.epoch <= snapshot.epoch)
    BY <1>2, <1>3, <1>9, <2>1 DEF ProcessNumbered, Covered
  <2>10. FilesNumbered'
    <3> SUFFICES ASSUME NEW k \in Whole(journal') PROVE Covered(journal[k])'
      BY <1>2, <1>9 DEF FilesNumbered, Whole
    <3>1. Covered(journal'[k])
      BY <1>2, <2>7, <2>9 DEF FilesNumbered
    <3> QED
      BY <1>9, <3>1 DEF Covered
  <2>11. ProcessNumbered'
    <3>1. \/ /\ epoch = snapshot.epoch /\ next = snapshot.sequence
             /\ \A k \in Whole(journal') : journal'[k].epoch <= snapshot.epoch
          \/ epoch = snapshot.epoch + 1 /\ next = snapshot.sequence + 1
      BY <1>2, <1>9, <2>7, <2>9 DEF ProcessNumbered
    <3> QED
      BY <1>9, <3>1 DEF ProcessNumbered, Whole
  <2> QED
    BY <1>1, <2>4, <2>8, <2>10, <2>11 DEF JournalInv
<1>10. CASE AppendRecord
  BY <1>9, <1>10 DEF AppendRecord, history
<1>11. CASE OpenTemp \/ FinishTemp
  <2>1. /\ UNCHANGED <<snapshot, journal, stopping, epoch, next, openAttempt, boot>>
        /\ step # "down" /\ temp' \in SnapshotFiles
        /\ step' = "written" => temp'.sequence = next
    <3>1. CASE OpenTemp
      BY <3>1, FileTypes DEF OpenTemp, history
    <3>2. CASE FinishTemp
      <4>1. temp' = [kind |-> "whole", epoch |-> epoch, state |-> state, sequence |-> next,
                     by |-> boot]
        BY <3>2 DEF FinishTemp
      <4>2. temp' \in SnapshotFiles /\ temp'.sequence = next
        BY <1>3, <4>1 DEF SnapshotFiles
      <4> QED
        BY <3>2, <4>2 DEF FinishTemp, history
    <3> QED
      BY <1>11, <3>1, <3>2
  <2>2. FilesNumbered' /\ JournalInOrder' /\ Whole(journal)' = Whole(journal)
    BY <2>1, FilesKept
  <2>3. ProcessNumbered'
    BY <1>2, <2>1, <2>2 DEF ProcessNumbered
  <2>4. Filed'
    BY <1>2, <2>1 DEF Filed
  <2> QED
    BY <1>1, <2>2, <2>3, <2>4 DEF JournalInv
<1>12. CASE Replace
  <2>1. /\ step = "written" /\ step' = "renamed" /\ snapshot' = temp /\ temp' = NoFile
        /\ openAttempt' = 0 /\ UNCHANGED <<stopping, epoch, next, journal, boot>>
    BY <1>12 DEF Replace, history
  <2>2. temp.kind = "whole" /\ temp.epoch = epoch /\ temp.sequence = next
    BY <1>2, <2>1 DEF StoreInv, InOrder, Fenced, ProcessNumbered
  <2>3. Filed'
    BY <1>2, <2>1, FileTypes DEF Filed
  <2>4. JournalInOrder' /\ Whole(journal)' = Whole(journal)
    BY <1>2, <2>1 DEF JournalInOrder, Whole
  <2>5. ASSUME NEW k \in Whole(journal)
        PROVE  /\ journal[k].epoch <= epoch /\ journal[k].sequence <= next
               /\ journal[k].epoch < epoch => journal[k].sequence < next
    <3>1. journal[k] \in JournalRecords
      BY <1>3 DEF Whole
    <3>2. journal[k].epoch \in Nat /\ journal[k].sequence \in Nat
      BY <3>1, FileTypes
    <3>3. Covered(journal[k])
      BY <1>2 DEF FilesNumbered
    <3>4. \/ /\ epoch = snapshot.epoch /\ next = snapshot.sequence
             /\ journal[k].epoch <= snapshot.epoch
          \/ epoch = snapshot.epoch + 1 /\ next = snapshot.sequence + 1
      BY <1>2, <2>1 DEF ProcessNumbered
    <3> QED
      BY <1>3, <3>2, <3>3, <3>4, SMTT(30) DEF Covered
  <2>6. \A k \in Whole(journal) : journal[k].epoch \in Nat /\ journal[k].sequence \in Nat
    <3> SUFFICES ASSUME NEW k \in Whole(journal)
                 PROVE  journal[k].epoch \in Nat /\ journal[k].sequence \in Nat
      OBVIOUS
    <3>1. journal[k] \in JournalRecords
      BY <1>3 DEF Whole
    <3> QED
      BY <3>1, FileTypes
  <2>7. FilesNumbered'
    <3>1. snapshot'.kind = "whole" /\ snapshot'.epoch = epoch /\ snapshot'.sequence = next
      BY <2>1, <2>2
    <3>2. \A k \in Whole(journal) : Covered(journal[k])'
      BY <1>3, <2>1, <2>5, <2>6, <3>1 DEF Covered
    <3> QED
      BY <2>1, <2>4, <3>1, <3>2 DEF FilesNumbered
  <2>8. ProcessNumbered'
    BY <2>1, <2>2, <2>4, <2>5 DEF ProcessNumbered
  <2> QED
    BY <1>1, <2>3, <2>4, <2>7, <2>8 DEF JournalInv
<1> QED
  BY <1>4, <1>5, <1>7, <1>8, <1>10, <1>11, <1>12 DEF Next

LEMMA JournalInvariant == Spec => []JournalInv
BY JournalInit, JournalStep, PTL DEF Spec

\* Every variable of the store has its type, the sequence that load resumes from a
\* journal of any length included; the process never lingers after a failed commit.
THEOREM StoreTypeCorrect == Spec => []TypeOK
<1>1. JournalInv => TypeOK
  BY DEF JournalInv, StoreInv, Typed, Filed, TypeOK
<1> QED
  BY <1>1, JournalInvariant, PTL

\* The journal stays in order, whatever was torn or left without its snapshot.
THEOREM JournalCorrect == Spec => []JournalInOrder
<1>1. JournalInv => JournalInOrder
  BY DEF JournalInv
<1> QED
  BY <1>1, JournalInvariant, PTL
=============================================================================
