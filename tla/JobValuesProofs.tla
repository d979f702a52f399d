--------------------------- MODULE JobValuesProofs ---------------------------
(* What TLAPS proves about the conversions of JobValues, for any data.       *)
EXTENDS JobValues, TLAPS

\* A job a program reads and passes on unchanged is stored as it was, provided
\* the SDK's values can say all of it (job_spec_from_proto, job_spec_to_proto).
THEOREM JobRoundTrip ==
  ASSUME NEW p \in JobProtos, JobIsKnown(p)
  PROVE  JobFromProto(p) \in JobSpecs /\ JobToProto(JobFromProto(p)) = p
<1>1. DispositionOf(p.disposition) \in Dispositions
  BY DEF DispositionOf, Dispositions
<1>2. DispositionCode(DispositionOf(p.disposition)) = p.disposition
  BY DEF JobIsKnown, DispositionOf, DispositionCode
<1>3. p.network = Empty
  BY DEF JobIsKnown
<1>4. JobFromProto(p) \in JobSpecs
  BY <1>1 DEF JobFromProto, JobSpecs, JobProtos
<1>5. p = [existing |-> p.existing, new |-> p.new, cmd |-> p.cmd, script |-> p.script,
           disposition |-> p.disposition, network |-> p.network, rest |-> p.rest]
  BY DEF JobProtos
<1> QED BY <1>2, <1>3, <1>4, <1>5 DEF JobFromProto, JobToProto

\* What is left out or not known changes nothing else: the message of a job that
\* was read differs from the original in its disposition and network at most.
THEOREM JobKeepsTheRest ==
  ASSUME NEW p \in JobProtos
  PROVE  LET q == JobToProto(JobFromProto(p)) IN
         /\ q.existing = p.existing /\ q.new = p.new
         /\ q.cmd = p.cmd /\ q.script = p.script /\ q.rest = p.rest
         /\ p.disposition \in 1..2 => q.disposition = p.disposition
<1>1. p.disposition \in 1..2 => DispositionCode(DispositionOf(p.disposition)) = p.disposition
  BY DEF DispositionOf, DispositionCode
<1> QED BY <1>1 DEF JobFromProto, JobToProto

\* The same of a schedule's timing (schedule_spec_from_proto, schedule_spec_to_proto).
THEOREM TimingRoundTrip ==
  ASSUME NEW p \in TimingProtos, TimingIsKnown(p)
  PROVE  TimingFromProto(p) \in Timings /\ TimingToProto(TimingFromProto(p)) = p
<1>1. OverlapOf(p.overlap) \in Overlaps
  BY DEF OverlapOf, Overlaps
<1>2. OverlapCode(OverlapOf(p.overlap)) = p.overlap
  BY DEF TimingIsKnown, OverlapOf, OverlapCode
<1>3. TimingFromProto(p) \in Timings
  BY <1>1 DEF TimingFromProto, Timings, TimingProtos
<1>4. p = [cron |-> p.cron, interval |-> p.interval, runAt |-> p.runAt,
           overlap |-> p.overlap, paused |-> p.paused, rest |-> p.rest]
  BY DEF TimingProtos
<1> QED BY <1>2, <1>3, <1>4 DEF TimingFromProto, TimingToProto

\* What the checks of the conversions let through arrives with the same trigger
\* and the same target: a stored message of the SDK passes them again.
THEOREM ValidStaysValid ==
  /\ \A s \in JobSpecs : JobIsValid(s) <=> JobIsValid(JobToProto(s))
  /\ \A t \in Timings : TimingIsValid(t) <=> TimingIsValid(TimingToProto(t))
BY DEF JobIsValid, JobToProto, TimingIsValid, TimingToProto, Set
=============================================================================
