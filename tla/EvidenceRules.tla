---------------------------- MODULE EvidenceRules ----------------------------
(***************************************************************************)
(* evaluate_requirements_locked and collect_observed_locked of             *)
(* src/src/engine.cpp: which readings of a snapshot count, what the        *)
(* requirements of a rung make of them, and which applied levels they      *)
(* show.  Pure definitions over a sequence of readings.                    *)
(*                                                                         *)
(* A context names what a snapshot is evaluated for: its tick, the plan's  *)
(* generation and policy generation, and the engine's epoch.  A binding of *)
(* a reading that is 0 is unset.  Confidence is in hundredths, anything    *)
(* outside 0..100, a NaN included, is out of range; a provenance is its    *)
(* rank, 0 for UNKNOWN.                                                    *)
(***************************************************************************)
EXTENDS Integers, Sequences, FiniteSetsExt

CONSTANTS
  Resources,       \* RecoveryPlan::resources
  MaxEvidenceAge   \* RecoveryPolicy::max_evidence_age_ticks

ASSUME AgeAssumption == MaxEvidenceAge \in Nat \ {0}

\* Three of the kinds of EvidenceKind: the last one alone is treated differently.
EvidenceKinds == {"CONGESTION_CLEARED", "SERVICE_RATE", "APPLIED_RESTORATION"}

\* RestorationUnit: two of its values, and "none" for UNKNOWN.
Units == {"none", "bytes", "flows"}

\* Evidence.  A report to come may name when it was made by how long ago.
ReadingRecords ==
  [id : Nat, generation : Nat, kind : EvidenceKinds, resource : Resources \cup {"none"},
   planGen : Nat, policyGen : Nat, epoch : Nat, provenance : Nat, confidence : Int,
   at : Nat, duration : Nat, samples : Nat, value : Nat, unit : Units,
   stable : BOOLEAN, affirmative : BOOLEAN]

\* Two readings of one publication that disagree.
Conflict(a, b) ==
  /\ a.kind = b.kind /\ a.resource = b.resource
  /\ a.generation # 0 /\ a.generation = b.generation
  /\ <<a.value, a.unit, a.affirmative>> # <<b.value, b.unit, b.affirmative>>

\* The code sorts the readings and compares neighbours: readings of one kind,
\* resource and generation are next to each other, and if any two of them differ
\* then so do two neighbours.
Contradictory(es) == \E k \in DOMAIN es : \E j \in 1..(k - 1) : Conflict(es[j], es[k])

Names(binding, current) == binding = 0 \/ binding = current

\* A mutant of Timely: any reading that is not of the future will do.
TimelyAtAnyAge(e, c) == e.at <= c.tick

\* Not of the future, and not too old.
Timely(e, c) == e.at <= c.tick /\ c.tick - e.at <= MaxEvidenceAge

\* The generation of the rung and of the resource that a reading carries are not
\* compared with anything.
Usable(e, c) ==
  /\ e.kind \in EvidenceKinds
  /\ e.provenance > 0
  /\ e.confidence \in 0..100
  /\ Names(e.planGen, c.planGen)
  /\ Names(e.policyGen, c.policyGen)
  /\ Names(e.epoch, c.epoch)
  /\ Timely(e, c)
  /\ e.duration <= c.tick
  /\ e.samples > 0

\* The readings that count for a requirement.
Admitted(req, es, c) ==
  {k \in DOMAIN es :
     /\ es[k].kind = req.kind
     /\ req.boundResource => es[k].resource \in Resources
     /\ Usable(es[k], c)}

\* The reading observed last, the largest id among those of one tick, and the first
\* of those in the snapshot.
Latest(es, S) ==
  CHOOSE k \in S : \A m \in S \ {k} :
    \/ es[k].at > es[m].at
    \/ es[k].at = es[m].at /\ es[k].id > es[m].id
    \/ es[k].at = es[m].at /\ es[k].id = es[m].id /\ k < m

RequiredDuration(req) ==
  IF req.stable THEN Max({req.minDuration, req.window}) ELSE req.minDuration

\* Samples add up, duration, confidence and provenance are the best of any reading,
\* stability is that of all of them, and the value is the latest one's.
Meets(req, es, c) ==
  LET S == Admitted(req, es, c)  last == es[Latest(es, S)] IN
  /\ S # {}
  /\ MapThenSumSet(LAMBDA k : es[k].samples, S) >= req.minSamples
  /\ \E k \in S : es[k].duration >= RequiredDuration(req)
  /\ \E k \in S : es[k].confidence >= req.minConfidence
  /\ \E k \in S : es[k].provenance >= req.minProvenance
  /\ req.stable => \A k \in S : es[k].stable
  /\ req.affirmative => last.affirmative
  /\ req.hasMin => last.value >= req.minValue
  /\ req.hasMax => last.value <= req.maxValue

\* The readings of the level applied to a resource.  Confidence, duration, samples
\* and policy generation are not looked at here.
AppliedReadings(r, es, c) ==
  {k \in DOMAIN es :
     /\ es[k].kind = "APPLIED_RESTORATION" /\ es[k].resource = r
     /\ es[k].provenance > 0
     /\ Names(es[k].planGen, c.planGen)
     /\ Names(es[k].epoch, c.epoch)
     /\ Timely(es[k], c)}

\* The levels that are observed: the others stay unknown, a reading in another unit
\* than the resource's included.
CollectObserved(unit, es, c) ==
  LET Last(r) == es[Latest(es, AppliedReadings(r, es, c))]
      Seen == {r \in Resources : AppliedReadings(r, es, c) # {} /\ Last(r).unit = unit[r]}
  IN [r \in Seen |-> Last(r).value]
=============================================================================
