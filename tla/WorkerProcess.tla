---------------------------- MODULE WorkerProcess ----------------------------
(***************************************************************************)
(* The worker processes of src/tools/crworker.cpp.  A worker connects      *)
(* once, says HELLO and then answers what the coordinator sends: a stage   *)
(* grant with a report, an evidence request with evidence.  A replay       *)
(* process says HELLO in the name of the worker whose report was recorded  *)
(* and then sends that report.  A process that ends never comes back: its  *)
(* successor is another process, of the same worker and a newer boot.      *)
(***************************************************************************)
EXTENDS Integers, Sequences, FiniteSets, Stream

CONSTANTS
  Processes,  \* the processes that may be started, each at most once
  WorkerOf,   \* --worker of each process
  BootOf,     \* --boot of each process
  RoleOf,     \* --role of each process; "replay" for a process run with --replay
  Source      \* the process whose record file a replay process reads

ASSUME ProcessAssumption ==
  /\ WorkerOf \in [Processes -> Nat] /\ BootOf \in [Processes -> Nat]
  /\ RoleOf \in [Processes -> {"applier", "observer", "replay"}]
  /\ Source \in [Processes -> Processes]
  /\ \A p \in Processes :
       RoleOf[p] = "replay" => WorkerOf[p] = WorkerOf[Source[p]] /\ BootOf[p] = BootOf[Source[p]]

VARIABLES
  link,      \* the connection of each process
  proc,      \* what each process is doing
  recorded,  \* the first report in the record file of each process
  applied    \* history: the attempts a process applied

Running == {"greeting", "serving", "replaying"}
ProcStates == Running \cup {"new", "ended", "killed"}

\* --record: the file is written only by a process that reports.
NotRecorded == [kind |-> "NONE"]

WorkerInit ==
  /\ link = [p \in Processes |-> NoLink]
  /\ proc = [p \in Processes |-> "new"]
  /\ recorded = [p \in Processes |-> NotRecorded]
  /\ applied = {}

Become(p, s) == proc' = [proc EXCEPT ![p] = s]

\* A process leaves and its end of the connection is closed.
Exit(p, s) ==
  /\ Become(p, s)
  /\ link' = [link EXCEPT ![p] = ClosedByWorker(@)]
  /\ UNCHANGED <<recorded, applied>>

\* A process connects and says HELLO.  A replay process reads the record file before.
Connect(p) ==
  /\ proc[p] = "new"
  /\ RoleOf[p] = "replay" => recorded[Source[p]] # NotRecorded
  /\ Become(p, "greeting")
  /\ link' = [link EXCEPT ![p] = SentUp(Opened, [kind |-> "HELLO"])]
  /\ UNCHANGED <<recorded, applied>>

Incoming(p) == Received(link[p].down, link[p].coordinator)

\* The link once a frame is read and an answer sent.
Answered(l, f) == SentUp(DownRead(l), f)

\* Any reply that is not an error is taken for a welcome.
Welcomed(p) ==
  /\ proc[p] = "greeting" /\ RoleOf[p] # "replay"
  /\ \E f \in Incoming(p) : f.kind \notin {"ERROR_MSG", "NONE"}
  /\ Become(p, "serving")
  /\ link' = [link EXCEPT ![p] = DownRead(@)]
  /\ UNCHANGED <<recorded, applied>>

Refused(p) ==
  /\ proc[p] = "greeting" /\ RoleOf[p] # "replay"
  /\ \E f \in Incoming(p) : f.kind = "ERROR_MSG"
  /\ Exit(p, "ended")

\* The recorded report is sent whether the HELLO was accepted or not.
Replay(p) ==
  /\ proc[p] = "greeting" /\ RoleOf[p] = "replay"
  /\ \E f \in Incoming(p) : f.kind # "NONE"
  /\ Become(p, "replaying")
  /\ link' = [link EXCEPT ![p] = Answered(@, recorded[Source[p]])]
  /\ UNCHANGED <<recorded, applied>>

ReplayAnswered(p) ==
  /\ proc[p] = "replaying"
  /\ \E f \in Incoming(p) : f.kind # "NONE"
  /\ Exit(p, "ended")

\* A mutant of ReportOf: what was granted first is reported again and again.
ReportOfFirstAttempt(g) ==
  [kind |-> "STAGE_REPORT", epoch |-> g.epoch, boot |-> g.boot,
   generation |-> g.generation, attempt |-> 1]

\* A report repeats what identifies the grant; its status is always 0 and its
\* levels are the ones granted.
ReportOf(g) ==
  [kind |-> "STAGE_REPORT", epoch |-> g.epoch, boot |-> g.boot,
   generation |-> g.generation, attempt |-> g.attempt]

\* A STAGE_GRANT: the levels are applied, recorded and reported.
Report(p) ==
  /\ proc[p] = "serving"
  /\ \E g \in Incoming(p) :
       /\ g.kind = "STAGE_GRANT"
       /\ link' = [link EXCEPT ![p] = Answered(@, ReportOf(g))]
       /\ recorded' = [recorded EXCEPT ![p] = IF @ = NotRecorded THEN ReportOf(g) ELSE @]
       /\ applied' = applied \cup {<<g.epoch, g.generation, g.attempt, p>>}
  /\ UNCHANGED proc

\* An EVIDENCE_REQUEST: under recurrence the congestion is back.
Publish(p) ==
  /\ proc[p] = "serving"
  /\ \E r \in Incoming(p) :
       /\ r.kind = "EVIDENCE_REQUEST"
       /\ link' = [link EXCEPT ![p] =
                     Answered(@, [kind |-> "EVIDENCE_PUBLISH", epoch |-> r.epoch,
                                  tick |-> r.tick, cleared |-> ~r.recurrence])]
  /\ UNCHANGED <<proc, recorded, applied>>

Leave(p) ==
  /\ proc[p] = "serving"
  /\ \E f \in Incoming(p) : f.kind = "GOODBYE"
  /\ Exit(p, "ended")

\* recv_frame fails, for whatever reason: the process ends.
LoseLink(p) ==
  /\ proc[p] \in Running
  /\ Failure \in Incoming(p)
  /\ Exit(p, "ended")

\* --die-before-report, or any other death.
Die(p) == "kill" \in Faults /\ proc[p] \in Running /\ Exit(p, "killed")

WorkerStep(p) ==
  \/ Welcomed(p)
  \/ Refused(p)
  \/ Replay(p)
  \/ ReplayAnswered(p)
  \/ Report(p)
  \/ Publish(p)
  \/ Leave(p)
=============================================================================
