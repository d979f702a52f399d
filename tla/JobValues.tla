----------------------------- MODULE JobValues -----------------------------
(***************************************************************************)
(* The conversions of src/tyto/_jobs.py between the SDK's job values and   *)
(* the protocol's messages, and their checks.  None, an empty string and   *)
(* an empty tuple are all Empty (the code tests them by their truth); an   *)
(* optional message is Empty when it is not set.  An enumeration is a      *)
(* number in a message, and a newer service may send one the SDK does not  *)
(* know.                                                                   *)
(***************************************************************************)
EXTENDS Naturals

CONSTANTS Data,     \* contents of a field
          Empty     \* none

ASSUME JobDataAssumption == Empty \in Data

\* Unspecified (0), the codes of the longest enumeration, and an unknown one.
Codes == 0..7

Dispositions == {"delete", "keep"}
Overlaps     == {"skip", "buffer_one", "allow_all"}

\* _DISPOSITION_TO_PROTO, _SCHEDULE_OVERLAP_TO_PROTO
DispositionCode(d) == IF d = "keep" THEN 2 ELSE 1
OverlapCode(o) == IF o = "skip" THEN 1 ELSE IF o = "buffer_one" THEN 2 ELSE 3

\* (Mutant: every disposition read is the default.)
AlwaysDelete(n) == "delete"

\* The way back: an unknown number gives the default.
DispositionOf(n) == IF n = 2 THEN "keep" ELSE "delete"
OverlapOf(n) == IF n = 2 THEN "buffer_one" ELSE IF n = 3 THEN "allow_all" ELSE "skip"

-----------------------------------------------------------------------------
\* A JobSpec and its message; rest: the fields copied as they are.
JobSpecs  == [existing : Data, new : Data, cmd : Data, script : Data,
              disposition : Dispositions, rest : Data]
\* network: the policy of the sandbox to create, which a JobSandboxSpec has no
\* field for.
JobProtos == [existing : Data, new : Data, cmd : Data, script : Data,
              disposition : Codes, network : Data, rest : Data]

Set(x) == x # Empty

\* job_spec_to_proto raises on anything else.
JobIsValid(s) == (Set(s.existing) <=> ~Set(s.new)) /\ (Set(s.cmd) <=> ~Set(s.script))

JobToProto(s) ==
    [existing |-> s.existing, new |-> s.new, cmd |-> s.cmd, script |-> s.script,
     disposition |-> DispositionCode(s.disposition), network |-> Empty,
     rest |-> s.rest]

JobFromProto(p) ==
    [existing |-> p.existing, new |-> p.new, cmd |-> p.cmd, script |-> p.script,
     disposition |-> DispositionOf(p.disposition), rest |-> p.rest]

\* A ScheduleSpec and its message.
Timings      == [cron : Data, interval : Data, runAt : Data, overlap : Overlaps,
                 paused : BOOLEAN, rest : Data]
TimingProtos == [cron : Data, interval : Data, runAt : Data, overlap : Codes,
                 paused : BOOLEAN, rest : Data]

\* (Mutant: the triggers are not counted.)
TimingIsAny(t) == TRUE

\* schedule_spec_to_proto raises on anything else.
TimingIsValid(t) ==
    \/ Set(t.cron) /\ ~Set(t.interval) /\ ~Set(t.runAt)
    \/ ~Set(t.cron) /\ Set(t.interval) /\ ~Set(t.runAt)
    \/ ~Set(t.cron) /\ ~Set(t.interval) /\ Set(t.runAt)

TimingToProto(t) ==
    [cron |-> t.cron, interval |-> t.interval, runAt |-> t.runAt,
     overlap |-> OverlapCode(t.overlap), paused |-> t.paused, rest |-> t.rest]

TimingFromProto(p) ==
    [cron |-> p.cron, interval |-> p.interval, runAt |-> p.runAt,
     overlap |-> OverlapOf(p.overlap), paused |-> p.paused, rest |-> p.rest]

\* Messages the SDK's values can say all of: known enumerations, no network policy.
JobIsKnown(p)    == p.disposition \in 1..2 /\ p.network = Empty
TimingIsKnown(p) == p.overlap \in 1..3
=============================================================================
