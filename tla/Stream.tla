------------------------------- MODULE Stream -------------------------------
(***************************************************************************)
(* The framed TCP streams of src/src/protocol.cpp between the coordinator  *)
(* and one worker process.  A link has two ends and a queue of frames in   *)
(* each direction.  Frames are whole: the length, the magic and the        *)
(* checksum that delimit them on the wire never fail between two programs  *)
(* of this repository, and a frame is far smaller than a socket buffer, so *)
(* it is never sent in part.  What is kept of the byte stream is that it   *)
(* has no frame boundaries: one read may return two frames.                *)
(***************************************************************************)
EXTENDS Naturals, Sequences

CONSTANT Faults   \* the faults the environment may produce

ASSUME FaultAssumption == Faults \subseteq {"timeout", "kill", "crash", "store"}

Ends == {"none", "open", "closed"}

NoLink == [coordinator |-> "none", worker |-> "none", down |-> <<>>, up |-> <<>>]

\* connect_to: the kernel accepts, the coordinator may not have done so yet.
Opened == [coordinator |-> "open", worker |-> "open", down |-> <<>>, up |-> <<>>]

\* send_frame to the worker, and to the coordinator: what is sent to a closed end
\* is lost.
SentDown(l, f) == IF l.worker = "open" THEN [l EXCEPT !.down = Append(@, f)] ELSE l
SentUp(l, f) == IF l.coordinator = "open" THEN [l EXCEPT !.up = Append(@, f)] ELSE l

\* Whether send_frame to the worker reports success: the first bytes sent to a
\* closed end are accepted, later ones may be refused.
SendResults(l) == IF l.worker = "open" THEN {TRUE} ELSE BOOLEAN

\* close: what has arrived and was not read is discarded.
ClosedByCoordinator(l) == [l EXCEPT !.coordinator = "closed", !.up = <<>>]
ClosedByWorker(l) == [l EXCEPT !.worker = "closed", !.down = <<>>]

Failure == [kind |-> "NONE"]

\* One read asks for 4096 bytes as long as the length of the frame is not known:
\* when a second frame has arrived, it may be read along with the first, and
\* recv_frame then returns neither ("trailing bytes after frame").
Coalesced(queue) == Len(queue) >= 2

\* The other side closed the connection.  What it sent before may still be read,
\* or be lost to a reset.
Gone(far) == far = "closed"

\* SO_RCVTIMEO expires while nothing has arrived.
Silent(queue) == queue = <<>> /\ "timeout" \in Faults

\* recv_frame: the frame at the head of the queue, or a failure.
Received(queue, far) ==
  (IF queue # <<>> THEN {Head(queue)} ELSE {}) \cup
  (IF Coalesced(queue) \/ Gone(far) \/ Silent(queue) THEN {Failure} ELSE {})

\* What a successful recv_frame leaves in the queue, and of the link.
Rest(queue) == IF queue = <<>> THEN <<>> ELSE Tail(queue)
UpRead(l) == [l EXCEPT !.up = Rest(@)]
DownRead(l) == [l EXCEPT !.down = Rest(@)]
=============================================================================
