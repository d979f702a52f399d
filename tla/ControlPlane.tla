---------------------------- MODULE ControlPlane ----------------------------
(***************************************************************************)
(* The unary control-plane calls of src/tyto/_client.py and _sandbox.py:  *)
(* each makes one RPC in the same loop: an attempt with what is left of    *)
(* the deadline, another one after UNAVAILABLE, an error otherwise.  Calls *)
(* are made by many threads of one Tyto client, whose organization and     *)
(* connection another thread may change or close between two attempts.    *)
(* The service (external) does a request when it arrives, which may be     *)
(* never, or after the client has given the attempt up; it does the        *)
(* requests of one organization with one idempotency key once.             *)
(***************************************************************************)
EXTENDS Naturals

CONSTANTS Calls,        \* calls the program makes
          Kinds,        \* the operations it uses, among those of Shape
          Orgs,         \* organizations of the API key
          MaxRetries    \* max_retries of the client

VARIABLES
    phase,      \* where each call is
    kind,       \* its operation
    intent,     \* the call whose work it is to do: itself, or one it repeats
    key,        \* its idempotency key, named after the call that drew it
    attempts,   \* retries made
    late,       \* its deadline has passed
    error,      \* what it raised
    errorKey,   \* the error carries the idempotency key
    network,    \* requests on their way to the service
    reply,      \* the service's answer to the attempt that is waiting
    org,        \* _organization_id of the client
    closed,     \* _closed of its ChannelPool
    known,      \* idempotency keys the service has seen, by organization
    effects     \* how often the work of a call was done, by organization

callVars    == <<phase, kind, intent, key, attempts, late, error, errorKey>>
clientVars  == <<org, closed>>
serviceVars == <<known, effects>>
vars == <<callVars, network, reply, clientVars, serviceVars>>

-----------------------------------------------------------------------------
(* What the operations differ in:                                          *)
(*   keyed        the request has an idempotency key                       *)
(*   retried      UNAVAILABLE is tried again                               *)
(*   checked      an answer without its main part is an error ...          *)
(*   malformedKey ... that carries the key                                 *)
(*   timeoutKey   so does the error of a deadline that passes between two  *)
(*                attempts (map_rpc_error leaves a TytoError as it is)     *)
(*   mappedKey    map_rpc_error is given the key for the other errors      *)

Keyless(isChecked) == [keyed |-> FALSE, retried |-> TRUE, checked |-> isChecked,
                       malformedKey |-> FALSE, timeoutKey |-> FALSE,
                       mappedKey |-> FALSE]
KeyedJob(isChecked) == [Keyless(isChecked) EXCEPT !.keyed = TRUE, !.mappedKey = TRUE]

create_sandbox == [KeyedJob(TRUE) EXCEPT !.malformedKey = TRUE, !.timeoutKey = TRUE]
snapshot       == [KeyedJob(TRUE) EXCEPT !.malformedKey = TRUE]
resume_sandbox == KeyedJob(FALSE)
run_job        == KeyedJob(TRUE)
start_job      == KeyedJob(FALSE)
create_job_schedule     == KeyedJob(TRUE)
update_job_schedule     == Keyless(TRUE)
set_job_schedule_paused == Keyless(TRUE)
trigger_job_schedule    == Keyless(FALSE)
delete_job_schedule     == Keyless(FALSE)
cancel_job_run          == Keyless(FALSE)
delete_sandbox          == Keyless(FALSE)
delete_snapshot         == Keyless(FALSE)
get_sandbox             == Keyless(TRUE)
list_sandboxes          == Keyless(FALSE)
list_organizations      == Keyless(FALSE)
list_templates          == Keyless(FALSE)
get_job_run             == Keyless(TRUE)
list_job_runs           == Keyless(FALSE)
get_job_schedule        == Keyless(TRUE)
list_job_schedules      == Keyless(FALSE)
reissue_capability      == [Keyless(TRUE) EXCEPT !.retried = FALSE]
create_preview          == [KeyedJob(TRUE) EXCEPT !.retried = FALSE, !.mappedKey = FALSE,
                                                  !.malformedKey = TRUE]
list_previews           == [Keyless(FALSE) EXCEPT !.retried = FALSE]
delete_preview          == [Keyless(FALSE) EXCEPT !.retried = FALSE]

Shape == [create_sandbox |-> create_sandbox, snapshot |-> snapshot,
          resume_sandbox |-> resume_sandbox, run_job |-> run_job,
          start_job |-> start_job, create_job_schedule |-> create_job_schedule,
          update_job_schedule |-> update_job_schedule,
          set_job_schedule_paused |-> set_job_schedule_paused,
          trigger_job_schedule |-> trigger_job_schedule,
          delete_job_schedule |-> delete_job_schedule,
          cancel_job_run |-> cancel_job_run, delete_sandbox |-> delete_sandbox,
          delete_snapshot |-> delete_snapshot, get_sandbox |-> get_sandbox,
          list_sandboxes |-> list_sandboxes,
          list_organizations |-> list_organizations,
          list_templates |-> list_templates, get_job_run |-> get_job_run,
          list_job_runs |-> list_job_runs, get_job_schedule |-> get_job_schedule,
          list_job_schedules |-> list_job_schedules,
          reissue_capability |-> reissue_capability,
          create_preview |-> create_preview, list_previews |-> list_previews,
          delete_preview |-> delete_preview]

ASSUME ControlAssumption ==
    /\ Kinds # {} /\ Kinds \subseteq DOMAIN Shape
    /\ Orgs # {} /\ MaxRetries \in Nat

Keyed(k)      == Shape[k].keyed
CarriesKey(k) == Shape[k].mappedKey

Errors == {"none", "timeout", "connection", "refused", "malformed", "cancelled",
           "closed"}

Active(c) == phase[c] \in {"send", "wait"}

-----------------------------------------------------------------------------
Init ==
    /\ phase = [c \in Calls |-> "idle"]
    /\ kind = [c \in Calls |-> CHOOSE k \in Kinds : TRUE]
    /\ intent = [c \in Calls |-> c] /\ key = [c \in Calls |-> c]
    /\ attempts = [c \in Calls |-> 0] /\ late = [c \in Calls |-> FALSE]
    /\ error = [c \in Calls |-> "none"] /\ errorKey = [c \in Calls |-> FALSE]
    /\ org \in Orgs /\ network = {} /\ reply = [c \in Calls |-> "none"]
    /\ closed = FALSE
    /\ known = {} /\ effects = [c \in Calls |-> [o \in Orgs |-> 0]]

-----------------------------------------------------------------------------
(* The client.                                                             *)

\* A new piece of work; an operation with a key draws a new one.
Start(c) ==
    /\ phase[c] = "idle"
    /\ phase' = [phase EXCEPT ![c] = "send"]
    /\ \E k \in Kinds : kind' = [kind EXCEPT ![c] = k]
    /\ UNCHANGED <<intent, key, attempts, late, error, errorKey, network, reply,
                   clientVars, serviceVars>>

\* The program repeats call d that raised, with the key its error carries.
Repeat(c, d) ==
    /\ phase[c] = "idle" /\ phase[d] = "raised" /\ errorKey[d]
    /\ phase' = [phase EXCEPT ![c] = "send"]
    /\ kind' = [kind EXCEPT ![c] = kind[d]]
    /\ intent' = [intent EXCEPT ![c] = intent[d]]
    /\ key' = [key EXCEPT ![c] = key[d]]
    /\ UNCHANGED <<attempts, late, error, errorKey, network, reply, clientVars,
                   serviceVars>>

Request(c) == [call |-> c, attempt |-> attempts[c], key |-> key[c], org |-> org]

\* (Mutant: the key is drawn inside the loop.)
SendFreshKey(c) ==
    /\ phase[c] = "send" /\ ~closed /\ ~late[c]
    /\ phase' = [phase EXCEPT ![c] = "wait"]
    /\ network' = network \cup {[Request(c) EXCEPT !.key = <<c, attempts[c]>>]}
    /\ reply' = [reply EXCEPT ![c] = "none"]
    /\ UNCHANGED <<kind, intent, key, attempts, late, error, errorKey,
                   clientVars, serviceVars>>

\* An attempt: the stub is made with the organization the client has now.
Send(c) ==
    /\ phase[c] = "send" /\ ~closed /\ ~late[c]
    /\ phase' = [phase EXCEPT ![c] = "wait"]
    /\ network' = network \cup {Request(c)}
    /\ reply' = [reply EXCEPT ![c] = "none"]
    /\ UNCHANGED <<kind, intent, key, attempts, late, error, errorKey,
                   clientVars, serviceVars>>

Raise(c, e, carriesKey) ==
    /\ phase' = [phase EXCEPT ![c] = "raised"]
    /\ error' = [error EXCEPT ![c] = e]
    /\ errorKey' = [errorKey EXCEPT ![c] = carriesKey]
    /\ UNCHANGED <<kind, intent, key, attempts, late, network, reply,
                   clientVars, serviceVars>>

\* (Mutant: create does not turn the deadline's own TimeoutError into one that
\* carries the key.)
LocalTimeoutBare(c) ==
    /\ phase[c] = "send" /\ ~closed /\ late[c]
    /\ Raise(c, "timeout", FALSE)

\* deadline.remaining() raises before an attempt.
LocalTimeout(c) ==
    /\ phase[c] = "send" /\ ~closed /\ late[c]
    /\ Raise(c, "timeout", Shape[kind[c]].timeoutKey)

\* The pool is closed (InvalidRequestError, no key), or is closed while the
\* attempt begins (gRPC's own exception becomes a ServiceError).
ClosedBeforeSend(c) ==
    /\ phase[c] = "send" /\ closed
    /\ \E carriesKey \in {FALSE, CarriesKey(kind[c])} : Raise(c, "closed", carriesKey)

\* (Mutant: after the last retry the loop is left as after an answer.)
GivesUpSilently(c) ==
    /\ phase[c] = "wait"
    /\ phase' = [phase EXCEPT ![c] = "returned"]
    /\ UNCHANGED <<kind, intent, key, attempts, late, error, errorKey,
                   network, reply, clientVars, serviceVars>>

\* UNAVAILABLE, with no retry left.
GivesUp(c) ==
    /\ phase[c] = "wait"
    /\ attempts[c] >= MaxRetries \/ ~Shape[kind[c]].retried
    /\ Raise(c, "connection", CarriesKey(kind[c]))

\* (Mutant: the number of retries is tested after it was increased.)
RetryOnceMore(c) ==
    /\ phase[c] = "wait" /\ attempts[c] <= MaxRetries /\ Shape[kind[c]].retried
    /\ phase' = [phase EXCEPT ![c] = "send"]
    /\ attempts' = [attempts EXCEPT ![c] = @ + 1]
    /\ UNCHANGED <<kind, intent, key, late, error, errorKey, network,
                   reply, clientVars, serviceVars>>

\* UNAVAILABLE, whatever became of the request.
Retry(c) ==
    /\ phase[c] = "wait" /\ attempts[c] < MaxRetries /\ Shape[kind[c]].retried
    /\ phase' = [phase EXCEPT ![c] = "send"]
    /\ attempts' = [attempts EXCEPT ![c] = @ + 1]
    /\ UNCHANGED <<kind, intent, key, late, error, errorKey, network,
                   reply, clientVars, serviceVars>>

\* DEADLINE_EXCEEDED.
TimesOut(c) ==
    /\ phase[c] = "wait" /\ late[c]
    /\ Raise(c, "timeout", CarriesKey(kind[c]))

\* The channel is closed under the RPC: CANCELLED.
Cancelled(c) ==
    /\ phase[c] = "wait" /\ closed
    /\ Raise(c, "cancelled", CarriesKey(kind[c]))

Returns(c) ==
    /\ phase[c] = "wait" /\ reply[c] = "ok"
    /\ phase' = [phase EXCEPT ![c] = "returned"]
    /\ UNCHANGED <<kind, intent, key, attempts, late, error, errorKey,
                   network, reply, clientVars, serviceVars>>

Malformed(c) ==
    /\ phase[c] = "wait" /\ reply[c] = "ok" /\ Shape[kind[c]].checked
    /\ Raise(c, "malformed", Shape[kind[c]].malformedKey)

\* Another status: some of the errors carry the key, some do not.
Refused(c) ==
    /\ phase[c] = "wait" /\ reply[c] = "refused"
    /\ \E carriesKey \in {FALSE, CarriesKey(kind[c])} : Raise(c, "refused", carriesKey)

Expire(c) ==
    /\ Active(c) /\ ~late[c]
    /\ late' = [late EXCEPT ![c] = TRUE]
    /\ UNCHANGED <<phase, kind, intent, key, attempts, error, errorKey,
                   network, reply, clientVars, serviceVars>>

\* organization_id is assigned.
SetOrganization ==
    /\ org' \in Orgs \ {org}
    /\ UNCHANGED <<callVars, network, reply, closed, serviceVars>>

Close ==
    /\ ~closed
    /\ closed' = TRUE
    /\ UNCHANGED <<callVars, network, reply, org, serviceVars>>

-----------------------------------------------------------------------------
(* The service.                                                            *)

Answer(r, a) ==
    reply' = [reply EXCEPT ![r.call] =
                 IF phase[r.call] = "wait" /\ attempts[r.call] = r.attempt THEN a ELSE @]

Seen(r) == [key |-> r.key, org |-> r.org]

\* The work of a request is done.
Execute(r) ==
    /\ ~(Keyed(kind[r.call]) /\ Seen(r) \in known)
    /\ network' = network \ {r}
    /\ Answer(r, "ok")
    /\ known' = known \cup {Seen(r)}
    /\ effects' = [effects EXCEPT ![intent[r.call]][r.org] = @ + 1]
    /\ UNCHANGED <<callVars, clientVars>>

\* The key was seen: the request joins what was done for it.
Join(r) ==
    /\ Keyed(kind[r.call]) /\ Seen(r) \in known
    /\ network' = network \ {r}
    /\ Answer(r, "ok")
    /\ UNCHANGED <<callVars, clientVars, serviceVars>>

Refuse(r) ==
    /\ network' = network \ {r}
    /\ Answer(r, "refused")
    /\ UNCHANGED <<callVars, clientVars, serviceVars>>

-----------------------------------------------------------------------------
Continue(c) == \/ Send(c) \/ LocalTimeout(c) \/ ClosedBeforeSend(c)
               \/ TimesOut(c) \/ Cancelled(c) \/ Returns(c) \/ Malformed(c)
               \/ Refused(c)

Unavailable(c) == GivesUp(c) \/ Retry(c)

Service(r) == Execute(r) \/ Join(r) \/ Refuse(r)

Next == \/ \E c \in Calls : \/ Start(c) \/ Continue(c) \/ Unavailable(c) \/ Expire(c)
                            \/ \E d \in Calls : Repeat(c, d)
        \/ \E r \in network : Service(r)
        \/ SetOrganization \/ Close

Spec == Init /\ [][Next]_vars

-----------------------------------------------------------------------------
(* Properties.                                                             *)

Requests == [call : Calls, attempt : 0..MaxRetries, key : Calls, org : Orgs]

CallsOK ==
    /\ phase \in [Calls -> {"idle", "send", "wait", "returned", "raised"}]
    /\ kind \in [Calls -> Kinds]
    /\ intent \in [Calls -> Calls] /\ key \in [Calls -> Calls]
    /\ attempts \in [Calls -> 0..MaxRetries]
    /\ error \in [Calls -> Errors]
FlagsOK ==
    /\ late \in [Calls -> BOOLEAN] /\ errorKey \in [Calls -> BOOLEAN]
    /\ closed \in BOOLEAN
WorldOK ==
    /\ network \subseteq Requests /\ org \in Orgs
    /\ reply \in [Calls -> {"none", "ok", "refused"}]
    /\ known \subseteq [key : Calls, org : Orgs]
    /\ effects \in [Calls -> [Orgs -> Nat]]

\* Types, with the bound on the retries of a call.
TypeOK == CallsOK /\ FlagsOK /\ WorldOK

\* README: "retry create() with that same key to join the original creation
\* rather than starting a second sandbox".  However often a keyed call and its
\* repetitions are tried, and whichever of the requests arrive late, the work is
\* done at most once in an organization.
KeyedOnce ==
    \A c \in Calls, o \in Orgs : Keyed(kind[c]) => effects[c][o] <= 1

Done(c) == \E o \in Orgs : effects[c][o] > 0

\* A call returns only after its work was done, for it or for the call it
\* repeats, although answers of earlier attempts may be lost.
ReturnedMeansDone ==
    \A c \in Calls : phase[c] = "returned" => Done(intent[c])

\* README: when create exhausts its deadline or its retries, the error carries
\* the idempotency key, so that a sandbox that may exist can be joined.
CreateCanBeJoined ==
    \A c \in Calls :
        kind[c] = "create_sandbox" /\ error[c] \in {"timeout", "connection"} => errorKey[c]

\* README: "Assigning to client.organization_id changes which organization
\* subsequent calls run against": the attempts of one call, under way when it is
\* assigned, are all for one organization.  It does not hold of the code: every
\* attempt reads the organization anew.
CallKeepsOrganization == \A r, s \in network : r.call = s.call => r.org = s.org

\* It holds in a program that assigns it only while no call is under way.
AssignedBetweenCalls == [][org' # org => \A c \in Calls : ~Active(c)]_vars

\* What a program that never assigns it may rely on: the work of a call, of all its
\* attempts and repetitions, is done in one organization, where KeyedOnce counts it.
NeverAssigned == [][org' = org]_vars
DoneInOneOrganization ==
    \A c \in Calls : \A o, p \in Orgs : effects[c][o] > 0 /\ effects[c][p] > 0 => o = p

\* The inductive invariant behind KeyedOnce: a key names its work, requests
\* carry their call's key, and work done has its key known to the service.
KeyNamesWork ==
    \A c \in Calls :
        /\ key[c] = intent[c]
        /\ phase[c] = "idle" => intent[c] = c /\ ~Done(c)
        /\ kind[intent[c]] = kind[c]
        /\ phase[intent[c]] = "idle" => phase[c] = "idle"
RequestsCarryKey ==
    \A r \in network : r.key = key[r.call] /\ phase[r.call] # "idle"
DoneIsKnown ==
    \A c \in Calls, o \in Orgs :
        Keyed(kind[c]) /\ effects[c][o] > 0 => [key |-> c, org |-> o] \in known

\* The inductive invariant behind ReturnedMeansDone: an answer that waits for its
\* call, and a key the service knows, stand for work done.
AnswerMeansDone ==
    /\ \A c \in Calls : /\ reply[c] = "ok" => Done(intent[c])
                        /\ phase[c] = "idle" => reply[c] = "none"
    /\ \A s \in known : Done(s.key)

IInv == KeyNamesWork /\ RequestsCarryKey /\ DoneIsKnown /\ AnswerMeansDone

\* Refinement: for the program that makes them, the calls do what KeyedCalls says, whose
\* readers need not know of attempts, requests under way or the service's memory.
Status(p) == IF p \in {"send", "wait"} THEN "open" ELSE p
Promise == INSTANCE KeyedCalls
               WITH KeyedKinds <- {k \in Kinds : Keyed(k)},
                    JoinableKinds <- {"create_sandbox"},
                    status <- [c \in Calls |-> Status(phase[c])], work <- intent,
                    ranOut <- [c \in Calls |-> error[c] \in {"timeout", "connection"}],
                    joinable <- errorKey, times <- effects
ImplementsKeyedCalls == Promise!Spec
=============================================================================
