---------------------------- MODULE JobSchedules ----------------------------
(***************************************************************************)
(* Job schedules and runs of src/tyto/_client.py: a program that lists     *)
(* schedules (Listing), reads, edits and replaces one, pauses, triggers    *)
(* and deletes one, and edits and reruns a run, while other clients change *)
(* the same schedules.  The conversions are those of JobValues.  A call's  *)
(* request is sent again when its answer is lost (MaxRetries times), and   *)
(* none of these calls carries a key: the service does again what it is    *)
(* asked again.  create_job_schedule and start_job are keyed (ControlPlane *)
(* models that); here they take effect once.  Iterators and calls share    *)
(* nothing but the collection, so a program does one or the other (mode).  *)
(***************************************************************************)
EXTENDS Listing, JobValues

CONSTANTS Schedules,    \* what other clients store: [timing, spec] messages that pass
                        \* the checks of the SDK
          Edited,       \* bound: schedules there are when the program edits
          MaxRuns,      \* bound: job runs
          MaxRetries    \* max_retries

ASSUME SchedulesAssumption ==
    /\ Schedules \subseteq [timing : TimingProtos, spec : JobProtos]
    /\ \A s \in Schedules : TimingIsValid(s.timing) /\ JobIsValid(s.spec)
    /\ Schedules # {} /\ Edited \subseteq Ids
    /\ MaxRuns \in Nat /\ MaxRetries \in Nat

VARIABLES
    mode,       \* what the program does: iterate or edit
    stored,     \* stored[i]: the schedule i, while i is present
    runs,       \* the stored specs of the job runs
    held,       \* the JobSchedule or JobRunDetail the program has read
    call        \* the call under way

listingVars == <<present, stayed, pager>>
vars == <<mode, listingVars, stored, runs, held, call>>

-----------------------------------------------------------------------------
Messages == [timing : TimingProtos, spec : JobProtos]
Values   == [timing : Timings, spec : JobSpecs]

AnySchedule == CHOOSE s \in Schedules : TRUE
ValueOf(m)  == [timing |-> TimingFromProto(m.timing), spec |-> JobFromProto(m.spec)]

\* of: what was read (a schedule or a run); raw: its messages; value: what the
\* program sees; touched: the schedule has been changed since.
NothingHeld == [of |-> "none", id |-> 1, raw |-> AnySchedule,
                value |-> ValueOf(AnySchedule), touched |-> FALSE]
Held == [of : {"none", "schedule", "run"}, id : Ids, raw : Messages, value : Values,
         touched : BOOLEAN]

\* request: the messages an update or a rerun sends; done: how many times the
\* service has done it; run: the run a rerun has started.
NoCall == [op |-> "none", step |-> "idle", id |-> 1, request |-> AnySchedule,
           paused |-> FALSE, attempts |-> 0, done |-> 0, run |-> 0]
ScheduleOps == {"update", "pause", "trigger", "delete"}
CallRecords == [op : {"none", "rerun"} \cup ScheduleOps,
                step : {"idle", "sent", "answered"}, id : Ids, request : Messages,
                paused : BOOLEAN, attempts : 0..MaxRetries, done : 0..(MaxRetries + 1),
                run : 0..MaxRuns]

Init ==
    /\ ListingInit
    /\ mode \in {"iterate", "edit"} /\ (mode = "edit" => present \subseteq Edited)
    /\ stored = [i \in Ids |-> AnySchedule]
    /\ runs = <<>> /\ held = NothingHeld /\ call = NoCall

-----------------------------------------------------------------------------
(* Other clients, the service's own doings, and the iterator.              *)

\* Another client changes schedule i, which the program may be holding.
Touch(i) == held' = [held EXCEPT !.touched = @ \/ (held.of = "schedule" /\ held.id = i)]

OtherCreates(i, s) ==
    /\ i \notin present /\ present' = present \cup {i}
    /\ IF mode = "edit" THEN i \in Edited ELSE s = AnySchedule
    /\ stored' = [stored EXCEPT ![i] = s]
    /\ Touch(i) /\ UNCHANGED <<stayed, pager, runs, call>>

OtherDeletes(i) ==
    /\ i \in present /\ present' = present \ {i} /\ stayed' = stayed \ {i}
    /\ stored' = [stored EXCEPT ![i] = AnySchedule]
    /\ Touch(i) /\ UNCHANGED <<pager, runs, call>>

OtherPauses(i) ==
    /\ i \in present
    /\ stored' = [stored EXCEPT ![i].timing.paused = ~@]
    /\ Touch(i) /\ UNCHANGED <<listingVars, runs, call>>

Fired(s) == Append(runs, s)

\* The schedule's own time comes.
Fire(i) ==
    /\ i \in present /\ ~stored[i].timing.paused /\ Len(runs) < MaxRuns
    /\ runs' = Fired(stored[i].spec)
    /\ UNCHANGED <<listingVars, stored, held, call>>

Iterate == Pager /\ UNCHANGED <<stored, runs, held, call>>

-----------------------------------------------------------------------------
(* The program's reads.                                                    *)

\* get_job_schedule, and an item of list_job_schedules.
GetSchedule(i) ==
    /\ call.step = "idle" /\ i \in present
    /\ held' = [NothingHeld EXCEPT !.of = "schedule", !.id = i, !.raw = stored[i],
                                   !.value = ValueOf(stored[i])]
    /\ UNCHANGED <<listingVars, stored, runs, call>>

\* get_job_run: the stored spec.
GetRun(r) ==
    /\ call.step = "idle"
    /\ LET raw == [AnySchedule EXCEPT !.spec = runs[r]] IN
        held' = [NothingHeld EXCEPT !.of = "run", !.raw = raw, !.value = ValueOf(raw)]
    /\ UNCHANGED <<listingVars, stored, runs, call>>

-----------------------------------------------------------------------------
(* The program's calls.                                                    *)

Request(op, i, timing, spec) ==
    call' = [NoCall EXCEPT !.op = op, !.step = "sent", !.id = i,
                           !.request = [timing |-> timing, spec |-> spec]]

\* update_job_schedule with the triggers of the timing that was read replaced,
\* and everything else passed on.
Update(cron, interval, runAt) ==
    LET t == [held.value.timing EXCEPT !.cron = cron, !.interval = interval,
                                       !.runAt = runAt]
    IN /\ call.step = "idle" /\ held.of = "schedule"
       /\ TimingIsValid(t) /\ JobIsValid(held.value.spec)
       /\ Request("update", held.id, TimingToProto(t), JobToProto(held.value.spec))
       /\ UNCHANGED <<listingVars, stored, runs, held>>

\* Edit and rerun: start_job with a field of the run's spec changed.
Rerun(rest) ==
    LET spec == [held.value.spec EXCEPT !.rest = rest]
    IN /\ call.step = "idle" /\ held.of = "run" /\ JobIsValid(spec)
       /\ Request("rerun", held.id, held.raw.timing, JobToProto(spec))
       /\ UNCHANGED <<listingVars, stored, runs, held>>

\* set_job_schedule_paused
Pause(i, paused) ==
    /\ call.step = "idle"
    /\ call' = [NoCall EXCEPT !.op = "pause", !.step = "sent", !.id = i, !.paused = paused]
    /\ UNCHANGED <<listingVars, stored, runs, held>>

\* trigger_job_schedule, delete_job_schedule
Ask(op, i) ==
    /\ call.step = "idle" /\ op \in {"trigger", "delete"}
    /\ call' = [NoCall EXCEPT !.op = op, !.step = "sent", !.id = i]
    /\ UNCHANGED <<listingVars, stored, runs, held>>

-----------------------------------------------------------------------------
(* The service, the retries and the answer.                                *)

Own(i) == held' = [held EXCEPT !.touched =
                    IF held.of = "schedule" /\ held.id = i /\ call.op = "update"
                    THEN @ ELSE TRUE]

\* What the service does with the request; a missing schedule is not found.
Do ==
    LET i == call.id IN
    \/ /\ call.op = "rerun"
       /\ Len(runs) < MaxRuns /\ call.done = 0
       /\ runs' = Fired(call.request.spec)
       /\ UNCHANGED <<listingVars, stored, held>>
    \/ /\ call.op = "update" /\ i \in present
       /\ stored' = [stored EXCEPT ![i] = call.request]
       /\ Own(i) /\ UNCHANGED <<listingVars, runs>>
    \/ /\ call.op = "pause" /\ i \in present
       /\ stored' = [stored EXCEPT ![i].timing.paused = call.paused]
       /\ Own(i) /\ UNCHANGED <<listingVars, runs>>
    \/ /\ call.op = "trigger" /\ i \in present /\ Len(runs) < MaxRuns
       /\ runs' = Fired(stored[i].spec)
       /\ UNCHANGED <<listingVars, stored, held>>
    \/ /\ call.op = "delete" /\ i \in present
       /\ present' = present \ {i} /\ stayed' = stayed \ {i}
       /\ stored' = [stored EXCEPT ![i] = AnySchedule]
       /\ Own(i) /\ UNCHANGED <<pager, runs>>

Return == call' = NoCall

\* The request is done and answered, or its answer is lost and the request is
\* sent again while there are retries; after that the call raises.
Serve ==
    /\ call.step = "sent"
    /\ Do
    /\ LET did == [call EXCEPT !.done = @ + 1,
                               !.run = IF call.op = "rerun" THEN Len(runs') ELSE 0]
       IN \/ call' = [did EXCEPT !.step = "answered"]
          \/ call.attempts < MaxRetries /\ call' = [did EXCEPT !.attempts = @ + 1]
          \/ call.attempts = MaxRetries /\ Return

\* The request does not arrive, or is refused for good.
Lose ==
    /\ call.step = "sent"
    /\ \/ call.attempts < MaxRetries /\ call' = [call EXCEPT !.attempts = @ + 1]
       \/ Return
    /\ UNCHANGED <<listingVars, stored, runs, held>>

\* A second start with the key of the first is answered with the same run.
Joined ==
    /\ call.step = "sent" /\ call.op = "rerun" /\ call.done > 0
    /\ call' = [call EXCEPT !.step = "answered"]
    /\ UNCHANGED <<listingVars, stored, runs, held>>

Finish ==
    /\ call.step = "answered" /\ Return
    /\ UNCHANGED <<listingVars, stored, runs, held>>

-----------------------------------------------------------------------------
Others ==
    \E i \in Ids : \/ \E s \in Schedules : OtherCreates(i, s)
                  \/ OtherDeletes(i)

Edit ==
    \/ \E i \in Edited :
        \/ OtherPauses(i) \/ Fire(i)
        \/ GetSchedule(i)
        \/ \E b \in BOOLEAN : Pause(i, b)
        \/ \E op \in {"trigger", "delete"} : Ask(op, i)
    \/ \E r \in DOMAIN runs : GetRun(r)
    \/ \E c, n, a \in Data : Update(c, n, a)
    \/ \E d \in Data : Rerun(d)
    \/ Serve \/ Lose \/ Joined \/ Finish

Next ==
    /\ \/ Others
       \/ mode = "iterate" /\ Iterate
       \/ mode = "edit" /\ Edit
    /\ UNCHANGED mode

Spec == Init /\ [][Next]_vars

-----------------------------------------------------------------------------
(* Properties                                                              *)

OneOf(r, fields) == \E f \in fields : \A g \in fields : r[g] # Empty <=> g = f
OneTrigger(t) == OneOf(t, {"cron", "interval", "runAt"})
OneTarget(s)  == OneOf(s, {"existing", "new"}) /\ OneOf(s, {"cmd", "script"})

\* The types; and no call, however a program edits what it has read, stores a
\* schedule with several triggers or none, or a job with two targets.
TypeOK ==
    /\ present \subseteq Ids /\ stayed \subseteq present
    /\ pager \in Pagers
    /\ stored \in [Ids -> Messages] /\ runs \in Seq(JobProtos)
    /\ held \in Held /\ call \in CallRecords
    /\ \A i \in Ids : OneTrigger(stored[i].timing) /\ OneTarget(stored[i].spec)

\* Edit and replace, edit and rerun: when the service has answered, what it
\* stores differs from what the program read in nothing but the edited fields,
\* provided the SDK's values can say all it read and no other client (and no other
\* call of the program) changed the schedule in between.
EditKeepsRest ==
    call.step = "answered" /\ JobIsKnown(held.raw.spec) =>
        /\ call.op = "update" /\ TimingIsKnown(held.raw.timing) /\ ~held.touched
           /\ held.of = "schedule" /\ held.id = call.id
           => LET now == stored[call.id] IN
              /\ now.spec = held.raw.spec
              /\ now.timing = [held.raw.timing EXCEPT !.cron = now.timing.cron,
                                  !.interval = now.timing.interval,
                                  !.runAt = now.timing.runAt]
        /\ call.op = "rerun"
           => LET new == runs[call.run] IN
              new = [held.raw.spec EXCEPT !.rest = new.rest]
=============================================================================
