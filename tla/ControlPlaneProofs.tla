------------------------- MODULE ControlPlaneProofs -------------------------
(***************************************************************************)
(* Proofs about ControlPlane, for any number of calls, operations and      *)
(* retries: the types; that a keyed call's work is done at most once; and  *)
(* that a call returns only after its work was done.                       *)
(***************************************************************************)
EXTENDS ControlPlane, TLAPS

-----------------------------------------------------------------------------
(* Types.                                                                  *)

Shapes == {s \in [keyed : BOOLEAN, retried : BOOLEAN, checked : BOOLEAN,
                  malformedKey : BOOLEAN, timeoutKey : BOOLEAN, mappedKey : BOOLEAN] :
              s.mappedKey \/ s.timeoutKey \/ s.malformedKey => s.keyed}

\* The table of operations: its entries say yes or no, and the errors of an operation
\* that has no key carry none.
LEMMA ShapeType ==
    \A k \in Kinds : /\ CarriesKey(k) \in BOOLEAN
                     /\ Shape[k].timeoutKey \in BOOLEAN
                     /\ Shape[k].malformedKey \in BOOLEAN
                     /\ CarriesKey(k) \/ Shape[k].timeoutKey \/ Shape[k].malformedKey
                        => Keyed(k)
<1>1. \A b \in BOOLEAN : Keyless(b) \in Shapes
    BY DEF Keyless, Shapes
<1>2. \A b \in BOOLEAN : KeyedJob(b) \in Shapes /\ KeyedJob(b).keyed = TRUE
    BY DEF KeyedJob, Keyless, Shapes
<1>3. /\ create_sandbox \in Shapes /\ snapshot \in Shapes
      /\ create_preview \in Shapes
    BY <1>2 DEF create_sandbox, snapshot, create_preview, Shapes
<1>4. /\ resume_sandbox \in Shapes /\ run_job \in Shapes /\ start_job \in Shapes
      /\ create_job_schedule \in Shapes
    BY <1>2 DEF resume_sandbox, run_job, start_job, create_job_schedule
<1>5. /\ update_job_schedule \in Shapes /\ set_job_schedule_paused \in Shapes
      /\ trigger_job_schedule \in Shapes /\ delete_job_schedule \in Shapes
      /\ cancel_job_run \in Shapes /\ delete_sandbox \in Shapes
      /\ delete_snapshot \in Shapes /\ get_sandbox \in Shapes
      /\ list_sandboxes \in Shapes /\ list_organizations \in Shapes
      /\ list_templates \in Shapes /\ get_job_run \in Shapes
      /\ list_job_runs \in Shapes /\ get_job_schedule \in Shapes
      /\ list_job_schedules \in Shapes
    BY <1>1 DEF update_job_schedule, set_job_schedule_paused, trigger_job_schedule,
                delete_job_schedule, cancel_job_run, delete_sandbox,
                delete_snapshot, get_sandbox, list_sandboxes, list_organizations,
                list_templates, get_job_run, list_job_runs, get_job_schedule,
                list_job_schedules
<1>0. /\ reissue_capability \in Shapes /\ list_previews \in Shapes
      /\ delete_preview \in Shapes
    BY <1>1 DEF reissue_capability, list_previews, delete_preview, Shapes
<1>6. \A k \in DOMAIN Shape : Shape[k] \in Shapes
    BY <1>0, <1>3, <1>4, <1>5 DEF Shape
<1>7. \A k \in Kinds : Shape[k] \in Shapes
    BY <1>6, ControlAssumption
<1> QED
    BY <1>7 DEF CarriesKey, Keyed, Shapes

\* The calls keep their types: a retry only while fewer than MaxRetries were made.
LEMMA CallsType == TypeOK /\ Next => CallsOK'
<1> SUFFICES ASSUME TypeOK, Next PROVE CallsOK'
    OBVIOUS
<1> USE ControlAssumption DEF TypeOK, CallsOK, Errors
<1>1. ASSUME NEW c \in Calls, Start(c) PROVE CallsOK'
    BY <1>1 DEF Start
<1>2. ASSUME NEW c \in Calls, NEW d \in Calls, Repeat(c, d) PROVE CallsOK'
    BY <1>2 DEF Repeat
<1>3. ASSUME NEW c \in Calls, NEW e \in Errors, NEW b, Raise(c, e, b) PROVE CallsOK'
    BY <1>3 DEF Raise
<1>4. ASSUME NEW c \in Calls, Continue(c) PROVE CallsOK'
  <2>1. CASE Send(c)
    BY <2>1 DEF Send
  <2>2. CASE LocalTimeout(c)
    BY <2>2, <1>3 DEF LocalTimeout
  <2>3. CASE ClosedBeforeSend(c)
    BY <2>3, <1>3 DEF ClosedBeforeSend
  <2>4. CASE TimesOut(c)
    BY <2>4, <1>3 DEF TimesOut
  <2>5. CASE Cancelled(c)
    BY <2>5, <1>3 DEF Cancelled
  <2>6. CASE Returns(c)
    BY <2>6 DEF Returns
  <2>7. CASE Malformed(c)
    BY <2>7, <1>3 DEF Malformed
  <2>8. CASE Refused(c)
    BY <2>8, <1>3 DEF Refused
  <2> QED
    BY <1>4, <2>1, <2>2, <2>3, <2>4, <2>5, <2>6, <2>7, <2>8 DEF Continue
<1>5. ASSUME NEW c \in Calls, Unavailable(c) PROVE CallsOK'
    BY <1>5, <1>3 DEF Unavailable, GivesUp, Retry
<1>6. ASSUME NEW c \in Calls, Expire(c) PROVE CallsOK'
    BY <1>6 DEF Expire
<1>7. ASSUME NEW r \in network, Service(r) PROVE CallsOK'
    BY <1>7 DEF Service, Execute, Join, Refuse, callVars
<1>8. ASSUME SetOrganization \/ Close PROVE CallsOK'
    BY <1>8 DEF SetOrganization, Close, callVars
<1> QED
    BY <1>1, <1>2, <1>4, <1>5, <1>6, <1>7, <1>8 DEF Next

\* What the network carries, the client's organization and the service's memory
\* keep their types.
LEMMA WorldType == TypeOK /\ Next => WorldOK'
<1> SUFFICES ASSUME TypeOK, Next PROVE WorldOK'
    OBVIOUS
<1> USE ControlAssumption DEF TypeOK, WorldOK
<1>1. ASSUME NEW c \in Calls, Send(c) PROVE WorldOK'
    BY <1>1 DEF Send, Request, Requests, CallsOK, clientVars, serviceVars
<1>2. ASSUME UNCHANGED <<network, reply, clientVars, serviceVars>> PROVE WorldOK'
    BY <1>2 DEF clientVars, serviceVars
<1>3. ASSUME NEW r \in network, Service(r) PROVE WorldOK'
  <2>1. r \in Requests /\ r.call \in Calls /\ r.key \in Calls /\ r.org \in Orgs
    BY DEF Requests
  <2>2. ASSUME NEW a \in {"none", "ok", "refused"}, Answer(r, a)
        PROVE  reply' \in [Calls -> {"none", "ok", "refused"}]
    BY <2>1, <2>2 DEF Answer
  <2>3. CASE Execute(r)
    BY <2>1, <2>2, <2>3 DEF Execute, Seen, CallsOK, clientVars
  <2>4. CASE Join(r) \/ Refuse(r)
    BY <2>2, <2>4 DEF Join, Refuse, clientVars, serviceVars
  <2> QED
    BY <1>3, <2>3, <2>4 DEF Service
<1>4. ASSUME SetOrganization \/ Close PROVE WorldOK'
    BY <1>4 DEF SetOrganization, Close, serviceVars
<1>5. ASSUME NEW c \in Calls, NEW d \in Calls,
             Start(c) \/ Repeat(c, d) \/ Expire(c) \/ Unavailable(c) \/ Continue(c)
      PROVE  WorldOK'
    BY <1>1, <1>2, <1>5
    DEF Start, Repeat, Expire, Unavailable, GivesUp, Retry, Continue, LocalTimeout,
        ClosedBeforeSend, TimesOut, Cancelled, Returns, Malformed, Refused, Raise
<1> QED
    BY <1>3, <1>4, <1>5 DEF Next

\* The yes-or-no fields keep their types.
LEMMA FlagsType == TypeOK /\ Next => FlagsOK'
<1> SUFFICES ASSUME TypeOK, Next PROVE FlagsOK'
    OBVIOUS
<1>1. FlagsOK /\ kind \in [Calls -> Kinds]
    BY DEF TypeOK, CallsOK
<1>2. ASSUME UNCHANGED <<late, errorKey>>, closed' \in BOOLEAN PROVE FlagsOK'
    BY <1>1, <1>2 DEF FlagsOK
<1>3. ASSUME NEW c \in Calls, NEW e, NEW b \in BOOLEAN, Raise(c, e, b) PROVE FlagsOK'
    BY <1>1, <1>3 DEF Raise, FlagsOK, clientVars
<1>4. ASSUME NEW c \in Calls, Continue(c) \/ GivesUp(c) PROVE FlagsOK'
  <2>1. /\ CarriesKey(kind[c]) \in BOOLEAN /\ Shape[kind[c]].timeoutKey \in BOOLEAN
        /\ Shape[kind[c]].malformedKey \in BOOLEAN
    BY <1>1, ShapeType
  <2>2. CASE Send(c) \/ Returns(c)
    BY <1>1, <1>2, <2>2 DEF Send, Returns, FlagsOK, clientVars
  <2>3. CASE LocalTimeout(c)
    BY <2>1, <2>3, <1>3 DEF LocalTimeout
  <2>4. CASE ClosedBeforeSend(c) \/ Refused(c)
    <3>1. PICK e \in Errors, b \in {FALSE, CarriesKey(kind[c])} : Raise(c, e, b)
      BY <2>4 DEF ClosedBeforeSend, Refused, Errors
    <3> QED
      BY <2>1, <3>1, <1>3
  <2>5. CASE TimesOut(c) \/ Cancelled(c) \/ GivesUp(c)
    BY <2>1, <2>5, <1>3 DEF TimesOut, Cancelled, GivesUp
  <2>6. CASE Malformed(c)
    BY <2>1, <2>6, <1>3 DEF Malformed
  <2> QED
    BY <1>4, <2>2, <2>3, <2>4, <2>5, <2>6 DEF Continue
<1>5. ASSUME NEW c \in Calls, NEW d \in Calls, Start(c) \/ Repeat(c, d) \/ Retry(c)
      PROVE  FlagsOK'
    BY <1>1, <1>2, <1>5 DEF Start, Repeat, Retry, FlagsOK, clientVars
<1>6. ASSUME NEW c \in Calls, Expire(c) PROVE FlagsOK'
    BY <1>1, <1>6 DEF Expire, FlagsOK, clientVars
<1>7. ASSUME NEW r \in network, Service(r) PROVE FlagsOK'
    BY <1>1, <1>2, <1>7
    DEF Service, Execute, Join, Refuse, FlagsOK, callVars, clientVars
<1>8. CASE SetOrganization \/ Close
    BY <1>1, <1>2, <1>8 DEF SetOrganization, Close, FlagsOK, callVars
<1> QED
    BY <1>4, <1>5, <1>6, <1>7, <1>8 DEF Next, Unavailable

\* Every call, request and answer stays in its set, and no call is retried more
\* than max_retries times.
THEOREM TypeCorrect == Spec => []TypeOK
<1>1. Init => TypeOK
  <2> SUFFICES ASSUME Init PROVE TypeOK
    OBVIOUS
  <2>1. CallsOK
    BY ControlAssumption DEF Init, CallsOK, Errors
  <2>2. FlagsOK
    BY DEF Init, FlagsOK
  <2>3. WorldOK
    BY DEF Init, WorldOK
  <2> QED
    BY <2>1, <2>2, <2>3 DEF TypeOK
<1>2. TypeOK /\ [Next]_vars => TypeOK'
  <2>1. TypeOK /\ Next => TypeOK'
    BY CallsType, FlagsType, WorldType DEF TypeOK
  <2>2. TypeOK /\ UNCHANGED vars => TypeOK'
    BY DEF TypeOK, CallsOK, FlagsOK, WorldOK, vars, callVars, clientVars, serviceVars
  <2> QED
    BY <2>1, <2>2
<1> QED
    BY <1>1, <1>2, PTL DEF Spec

-----------------------------------------------------------------------------
(* Keys and the work they name.                                            *)

KeyInv == KeyNamesWork /\ RequestsCarryKey

\* What most steps leave alone: who repeats whom, with which key.
SameWork == /\ UNCHANGED <<kind, intent, key>>
            /\ \A c \in Calls : phase'[c] = "idle" <=> phase[c] = "idle"

\* The steps of a call that was made, other than sending.
Waits(c) == \/ LocalTimeout(c) \/ ClosedBeforeSend(c) \/ TimesOut(c) \/ Cancelled(c)
            \/ Returns(c) \/ Malformed(c) \/ Refused(c) \/ GivesUp(c) \/ Retry(c)
            \/ Expire(c)

\* Those steps change nothing but the call itself.
LEMMA WaitsKeepWork ==
    ASSUME TypeOK, NEW c \in Calls, Waits(c)
    PROVE  /\ SameWork /\ UNCHANGED <<network, reply, known, effects>>
           /\ \A d \in Calls : phase'[d] = "returned" =>
                 phase[d] = "returned" \/ reply[d] = "ok"
BY DEF Waits, LocalTimeout, ClosedBeforeSend, TimesOut, Cancelled, Returns, Malformed,
       Refused, GivesUp, Retry, Expire, Raise, SameWork, serviceVars, TypeOK, CallsOK

\* Sending puts one more request of the call on the network.
LEMMA SendKeepsWork ==
    ASSUME TypeOK, NEW c \in Calls, Send(c)
    PROVE  /\ SameWork /\ UNCHANGED <<known, effects>>
           /\ network' = network \cup {Request(c)} /\ phase[c] = "send"
           /\ reply' = [reply EXCEPT ![c] = "none"]
           /\ \A d \in Calls : phase'[d] = "returned" => phase[d] = "returned"
BY DEF Send, SameWork, serviceVars, TypeOK, CallsOK

\* A new call and a repetition begin with the work they name.
LEMMA BeginKeepsKeys ==
    ASSUME TypeOK, KeyInv, NEW c \in Calls, NEW d \in Calls, Start(c) \/ Repeat(c, d)
    PROVE  KeyInv'
<1> USE DEF TypeOK, CallsOK, WorldOK, Requests
<1>1. CASE Start(c)
    BY <1>1 DEF Start, KeyInv, KeyNamesWork, RequestsCarryKey, Done, serviceVars
<1>2. CASE Repeat(c, d)
  <2>1. KeyNamesWork'
    BY <1>2 DEF Repeat, KeyInv, KeyNamesWork, Done, serviceVars
  <2>2. RequestsCarryKey'
    BY <1>2 DEF Repeat, KeyInv, RequestsCarryKey
  <2> QED
    BY <2>1, <2>2 DEF KeyInv
<1> QED
    BY <1>1, <1>2

\* The service's steps: a request leaves the network; only Execute does work.
LEMMA ServiceKeepsWork ==
    ASSUME TypeOK, NEW r \in network, Service(r)
    PROVE  /\ SameWork /\ UNCHANGED phase /\ network' = network \ {r}
           /\ Execute(r) \/ UNCHANGED <<known, effects>>
BY DEF Service, Execute, Join, Refuse, callVars, serviceVars, SameWork

\* KeyInv is an invariant, for any number of organizations.
LEMMA KeysInvariant == Spec => []KeyInv
<1>1. Init => KeyInv
    BY DEF Init, KeyInv, KeyNamesWork, RequestsCarryKey, Done
<1>2. TypeOK /\ KeyInv /\ [Next]_vars => KeyInv'
  <2> SUFFICES ASSUME TypeOK, KeyInv, [Next]_vars PROVE KeyInv'
    OBVIOUS
  <2> USE DEF KeyInv, KeyNamesWork, RequestsCarryKey, SameWork, Done
  <2>1. ASSUME NEW c \in Calls, Waits(c) PROVE KeyInv'
    BY <2>1, WaitsKeepWork DEF TypeOK, WorldOK, CallsOK, Requests
  <2>2. ASSUME NEW c \in Calls, Send(c) PROVE KeyInv'
    <3>1. /\ UNCHANGED <<kind, intent, key, effects>> /\ phase[c] = "send"
          /\ \A d \in Calls : phase'[d] = "idle" <=> phase[d] = "idle"
          /\ network' = network \cup {Request(c)}
      BY <2>2, SendKeepsWork
    <3>2. KeyNamesWork'
      BY <3>1 DEF TypeOK, CallsOK
    <3>3. RequestsCarryKey'
      BY <3>1 DEF TypeOK, WorldOK, CallsOK, Requests, Request
    <3> QED
      BY <3>2, <3>3
  <2>3. ASSUME NEW r \in network, Service(r) PROVE KeyInv'
    <3>1. r.call \in Calls /\ intent[r.call] \in Calls
      BY DEF TypeOK, WorldOK, CallsOK, Requests
    <3>2. \A c \in Calls : effects'[c] = effects[c] \/ c = intent[r.call]
      BY <2>3, <3>1, ServiceKeepsWork DEF Execute, TypeOK, WorldOK
    <3>3. UNCHANGED <<phase, kind, intent, key>> /\ network' = network \ {r}
      BY <2>3, ServiceKeepsWork
    <3>4. phase[intent[r.call]] # "idle"
      BY <3>1 DEF TypeOK, WorldOK
    <3>5. KeyNamesWork'
      BY <3>2, <3>3, <3>4
    <3>6. RequestsCarryKey'
      BY <3>3
    <3> QED
      BY <3>5, <3>6
  <2>4. CASE SetOrganization \/ Close
    BY <2>4 DEF SetOrganization, Close, callVars, serviceVars
  <2>5. CASE UNCHANGED vars
    BY <2>5 DEF vars, callVars, serviceVars
  <2> QED
    BY <2>1, <2>2, <2>3, <2>4, <2>5, BeginKeepsKeys
    DEF Next, Continue, Unavailable, Waits
<1> QED
    BY <1>1, <1>2, TypeCorrect, PTL DEF Spec

-----------------------------------------------------------------------------
(* Once.                                                                   *)

OnceInv == DoneIsKnown /\ KeyedOnce

LEMMA OnceInvariant == Spec => []OnceInv
<1>1. Init => OnceInv
    BY DEF Init, OnceInv, DoneIsKnown, KeyedOnce
<1>2. TypeOK /\ KeyInv /\ OnceInv /\ [Next]_vars => OnceInv'
  <2> SUFFICES ASSUME TypeOK, KeyInv, OnceInv, [Next]_vars PROVE OnceInv'
    OBVIOUS
  <2> USE DEF OnceInv, DoneIsKnown, KeyedOnce, Keyed
  <2>1. ASSUME UNCHANGED <<kind, known, effects>> PROVE OnceInv'
    BY <2>1
  <2>2. ASSUME NEW c \in Calls, NEW d \in Calls, Start(c) \/ Repeat(c, d) PROVE OnceInv'
    <3>1. /\ \A o \in Orgs : ~(effects[c][o] > 0) /\ UNCHANGED <<known, effects>>
          /\ \A b \in Calls : b # c => kind'[b] = kind[b]
      BY <2>2 DEF Start, Repeat, KeyInv, KeyNamesWork, Done, serviceVars, TypeOK, CallsOK
    <3>2. ASSUME NEW b \in Calls, NEW o \in Orgs, Keyed(kind'[b])
          PROVE  /\ effects'[b][o] <= 1
                 /\ effects'[b][o] > 0 => [key |-> b, org |-> o] \in known'
      <4>1. effects[b][o] \in Nat
        BY DEF TypeOK, WorldOK
      <4> QED
        BY <3>1, <3>2, <4>1
    <3> QED
      BY <3>2
  <2>3. ASSUME NEW r \in network, Execute(r) PROVE OnceInv'
    <3> DEFINE i == intent[r.call]
               o == r.org
    <3>1. /\ r.call \in Calls /\ i \in Calls /\ r.key = i /\ o \in Orgs
          /\ kind[i] = kind[r.call]
      BY DEF KeyInv, KeyNamesWork, RequestsCarryKey, TypeOK, CallsOK, WorldOK, Requests
    <3>2. /\ effects' = [effects EXCEPT ![i][o] = @ + 1]
          /\ known' = known \cup {[key |-> i, org |-> o]}
          /\ UNCHANGED kind /\ effects \in [Calls -> [Orgs -> Nat]]
      BY <2>3, <3>1 DEF Execute, Seen, callVars, TypeOK, WorldOK
    <3>3. ASSUME Keyed(kind[i]) PROVE effects[i][o] = 0
      BY <2>3, <3>1, <3>2, <3>3 DEF Execute, Seen
    <3>4. DoneIsKnown'
      BY <3>1, <3>2
    <3>5. KeyedOnce'
      BY <3>1, <3>2, <3>3
    <3> QED
      BY <3>4, <3>5
  <2>4. ASSUME NEW c \in Calls, Waits(c) \/ Send(c) PROVE OnceInv'
    BY <2>1, <2>4, WaitsKeepWork, SendKeepsWork DEF SameWork
  <2>5. ASSUME NEW r \in network, Service(r) PROVE OnceInv'
    BY <2>1, <2>3, <2>5, ServiceKeepsWork DEF SameWork
  <2>6. CASE SetOrganization \/ Close \/ UNCHANGED vars
    BY <2>1, <2>6 DEF SetOrganization, Close, vars, callVars, serviceVars
  <2> QED
    BY <2>2, <2>4, <2>5, <2>6 DEF Next, Continue, Unavailable, Waits
<1> QED
    BY <1>1, <1>2, TypeCorrect, KeysInvariant, PTL DEF Spec

\* The work of a call with an idempotency key is done at most once in an
\* organization, however often the call is retried or repeated with the key of
\* its error and however late its requests arrive.
THEOREM KeyedWorkIsDoneOnce == Spec => []KeyedOnce
<1>1. OnceInv => KeyedOnce
    BY DEF OnceInv
<1> QED
    BY <1>1, OnceInvariant, PTL

DoneInv == AnswerMeansDone /\ ReturnedMeansDone

LEMMA DoneInvariant == Spec => []DoneInv
<1>1. Init => DoneInv
    BY DEF Init, DoneInv, AnswerMeansDone, ReturnedMeansDone
<1>2. TypeOK /\ KeyInv /\ DoneInv /\ [Next]_vars => DoneInv'
  <2> SUFFICES ASSUME TypeOK, KeyInv, DoneInv, [Next]_vars PROVE DoneInv'
    OBVIOUS
  <2> USE DEF DoneInv, AnswerMeansDone, ReturnedMeansDone, Done
  <2>1. ASSUME UNCHANGED <<phase, intent, reply, known, effects>> PROVE DoneInv'
    BY <2>1
  <2>2. ASSUME NEW c \in Calls, NEW d \in Calls, Start(c) \/ Repeat(c, d) PROVE DoneInv'
    <3>1. /\ UNCHANGED <<reply, known, effects>> /\ phase[c] = "idle"
          /\ \A b \in Calls : b # c => phase'[b] = phase[b] /\ intent'[b] = intent[b]
          /\ phase'[c] = "send"
      BY <2>2 DEF Start, Repeat, serviceVars, TypeOK, CallsOK
    <3>2. AnswerMeansDone'
      BY <3>1
    <3>3. ReturnedMeansDone'
      BY <3>1
    <3> QED
      BY <3>2, <3>3
  <2>3. ASSUME NEW c \in Calls, Waits(c) PROVE DoneInv'
    BY <2>3, WaitsKeepWork DEF SameWork, TypeOK, CallsOK, WorldOK
  <2>4. ASSUME NEW c \in Calls, Send(c) PROVE DoneInv'
    BY <2>4, SendKeepsWork DEF SameWork, TypeOK, CallsOK, WorldOK
  <2>5. ASSUME NEW r \in network, Service(r) PROVE DoneInv'
    <3> DEFINE i == intent[r.call]
    <3>1. /\ r.call \in Calls /\ i \in Calls /\ r.key = i
          /\ phase[r.call] # "idle" /\ UNCHANGED <<phase, intent>>
          /\ reply \in [Calls -> {"none", "ok", "refused"}]
          /\ effects \in [Calls -> [Orgs -> Nat]] /\ r.org \in Orgs
          /\ \A s \in known : s.key \in Calls
      BY <2>5, ServiceKeepsWork
      DEF KeyInv, KeyNamesWork, RequestsCarryKey, TypeOK, CallsOK, WorldOK, Requests,
          Service, Execute, Join, Refuse, callVars
    <3>2. CASE Execute(r)
      <4>1. effects' = [effects EXCEPT ![i][r.org] = @ + 1]
        BY <3>2 DEF Execute
      <4>2. \A d \in Calls, o \in Orgs :
              /\ effects[d][o] \in Nat /\ effects'[d][o] \in Nat
              /\ effects'[d][o] >= effects[d][o]
        BY <3>1, <4>1
      <4>3. \A d \in Calls : Done(d) => Done(d)'
        BY <4>2
      <4>4. Done(i)'
        BY <3>1, <4>1, <4>2
      <4>5. \A d \in Calls : reply'[d] # reply[d] => d = r.call /\ phase[d] # "idle"
        BY <3>1, <3>2 DEF Execute, Answer
      <4>6. known' = known \cup {[key |-> i, org |-> r.org]}
        BY <3>1, <3>2 DEF Execute, Seen
      <4>7. \A d \in Calls : intent[d] \in Calls
        BY DEF TypeOK, CallsOK
      <4> HIDE DEF Done, i
      <4>8. ASSUME NEW d \in Calls
            PROVE  /\ reply'[d] = "ok" => Done(intent[d])'
                   /\ phase'[d] = "idle" => reply'[d] = "none"
        BY <3>1, <4>3, <4>4, <4>5, <4>7 DEF i
      <4>9. ASSUME NEW s \in known' PROVE Done(s.key)'
        <5>1. CASE s \in known
          BY <3>1, <4>3, <5>1
        <5>2. CASE s.key = i
          BY <3>1, <4>4, <5>2 DEF i
        <5> QED
          BY <4>6, <4>9, <5>1, <5>2
      <4>10. ReturnedMeansDone'
        BY <3>1, <4>3, <4>7
      <4> QED
        BY <3>1, <4>8, <4>9, <4>10
    <3>3. CASE Join(r)
      BY <3>1, <3>3 DEF Join, Answer, Seen, serviceVars, TypeOK, CallsOK
    <3>4. CASE Refuse(r)
      BY <3>1, <3>4 DEF Refuse, Answer, serviceVars, TypeOK, CallsOK
    <3> QED
      BY <2>5, <3>2, <3>3, <3>4 DEF Service
  <2>6. CASE SetOrganization \/ Close \/ UNCHANGED vars
    BY <2>1, <2>6 DEF SetOrganization, Close, vars, callVars, serviceVars
  <2> QED
    BY <2>2, <2>3, <2>4, <2>5, <2>6 DEF Next, Continue, Unavailable, Waits
<1> QED
    BY <1>1, <1>2, TypeCorrect, KeysInvariant, PTL DEF Spec

\* A call that returned has its work done, in whatever organizations, and
\* whichever attempt of it, or of the call it repeats, the service did.
THEOREM ReturnedWorkIsDone == Spec => []ReturnedMeansDone
<1>1. DoneInv => ReturnedMeansDone
    BY DEF DoneInv
<1> QED
    BY <1>1, DoneInvariant, PTL

-----------------------------------------------------------------------------
(* The errors.                                                             *)

LEMMA CreateCarriesKey ==
  /\ Shape["create_sandbox"].timeoutKey = TRUE
  /\ Shape["create_sandbox"].mappedKey = TRUE
<1>1. Shape["create_sandbox"] = create_sandbox
  BY DEF Shape
<1>2. create_sandbox.timeoutKey = TRUE /\ create_sandbox.mappedKey = TRUE
  BY DEF create_sandbox, KeyedJob, Keyless
<1> QED BY <1>1, <1>2

RanOut(e) == e \in {"timeout", "connection"}

\* The steps that raise: an error carries only a key that there is, and carries that of
\* a create whose time or retries ran out.
Raising(c) == \/ LocalTimeout(c) \/ ClosedBeforeSend(c) \/ GivesUp(c) \/ TimesOut(c)
              \/ Cancelled(c) \/ Malformed(c) \/ Refused(c)

Raised(c, e, carriesKey) ==
    /\ Active(c) /\ Raise(c, e, carriesKey)
    /\ carriesKey => Keyed(kind[c])
    /\ kind[c] = "create_sandbox" /\ RanOut(e) => carriesKey

LEMMA RaisingRaises ==
  ASSUME TypeOK, NEW c \in Calls, Raising(c)
  PROVE  \E e \in Errors, carriesKey \in BOOLEAN : Raised(c, e, carriesKey)
<1>1. /\ CarriesKey(kind[c]) \in BOOLEAN /\ Shape[kind[c]].timeoutKey \in BOOLEAN
      /\ Shape[kind[c]].malformedKey \in BOOLEAN
      /\ CarriesKey(kind[c]) \/ Shape[kind[c]].timeoutKey \/ Shape[kind[c]].malformedKey
         => Keyed(kind[c])
  BY ShapeType DEF TypeOK, CallsOK
<1>2. kind[c] = "create_sandbox" => CarriesKey(kind[c]) /\ Shape[kind[c]].timeoutKey
  BY CreateCarriesKey DEF CarriesKey
<1>3. {"timeout", "connection", "refused", "malformed", "cancelled", "closed"}
         \subseteq Errors
  BY DEF Errors
<1> USE DEF Raised, RanOut, Active
<1>4. CASE LocalTimeout(c)
  BY <1>1, <1>2, <1>3, <1>4 DEF LocalTimeout
<1>5. CASE GivesUp(c)
  BY <1>1, <1>2, <1>3, <1>5 DEF GivesUp
<1>6. CASE TimesOut(c)
  BY <1>1, <1>2, <1>3, <1>6 DEF TimesOut
<1>7. CASE Cancelled(c)
  BY <1>1, <1>2, <1>3, <1>7 DEF Cancelled
<1>8. CASE Malformed(c)
  BY <1>1, <1>3, <1>8 DEF Malformed
<1>9. CASE ClosedBeforeSend(c)
  <2>1. PICK b \in {FALSE, CarriesKey(kind[c])} : Raise(c, "closed", b)
    BY <1>9 DEF ClosedBeforeSend
  <2> QED BY <1>1, <1>3, <1>9, <2>1 DEF ClosedBeforeSend
<1>10. CASE Refused(c)
  <2>1. PICK b \in {FALSE, CarriesKey(kind[c])} : Raise(c, "refused", b)
    BY <1>10 DEF Refused
  <2> QED BY <1>1, <1>3, <1>10, <2>1 DEF Refused
<1> QED BY <1>4, <1>5, <1>6, <1>7, <1>8, <1>9, <1>10 DEF Raising

JoinInv == CreateCanBeJoined /\ \A c \in Calls : error[c] # "none" => phase[c] = "raised"

\* The error of a deadline, and of the retries used up, joins the create to its repetition.
THEOREM CreateIsJoined == Spec => []CreateCanBeJoined
<1>1. Init => JoinInv
  BY DEF Init, JoinInv, CreateCanBeJoined
<1>2. TypeOK /\ JoinInv /\ [Next]_vars => JoinInv'
  <2> SUFFICES ASSUME TypeOK, JoinInv, [Next]_vars PROVE JoinInv'
    OBVIOUS
  <2> USE DEF TypeOK, CallsOK, FlagsOK, JoinInv, CreateCanBeJoined
  <2>1. ASSUME UNCHANGED <<kind, error, errorKey>>,
               \A c \in Calls : phase[c] = "raised" => phase'[c] = "raised"
        PROVE  JoinInv'
    BY <2>1
  <2>2. ASSUME NEW c \in Calls, NEW e \in Errors, NEW carriesKey \in BOOLEAN,
               Raise(c, e, carriesKey),
               kind[c] = "create_sandbox" /\ e \in {"timeout", "connection"} => carriesKey
        PROVE  JoinInv'
    BY <2>2 DEF Raise
  <2>3. ASSUME NEW c \in Calls, NEW d \in Calls, Start(c) \/ Repeat(c, d) PROVE JoinInv'
    <3>1. /\ phase[c] = "idle" /\ UNCHANGED <<error, errorKey>>
          /\ \A b \in Calls \ {c} : kind'[b] = kind[b] /\ phase'[b] = phase[b]
      BY <2>3 DEF Start, Repeat
    <3>2. error[c] = "none"
      BY <3>1
    <3> QED BY <3>1, <3>2
  <2>4. ASSUME NEW c \in Calls, Send(c) \/ Retry(c) \/ Returns(c) \/ Expire(c) PROVE JoinInv'
    BY <2>1, <2>4 DEF Send, Retry, Returns, Expire
  <2>5. ASSUME NEW c \in Calls, Raising(c) PROVE JoinInv'
    <3>1. PICK e \in Errors, carriesKey \in BOOLEAN : Raised(c, e, carriesKey)
      BY <2>5, RaisingRaises
    <3> HIDE DEF JoinInv
    <3> QED BY <2>2, <3>1 DEF Raised, RanOut
  <2>6. ASSUME NEW r \in network, Service(r) PROVE JoinInv'
    BY <2>1, <2>6, ServiceKeepsWork DEF Service, Execute, Join, Refuse, callVars
  <2>7. CASE SetOrganization \/ Close \/ UNCHANGED vars
    BY <2>1, <2>7 DEF SetOrganization, Close, vars, callVars
  <2> QED BY <2>3, <2>4, <2>5, <2>6, <2>7 DEF Next, Continue, Unavailable, Raising
<1>3. JoinInv => CreateCanBeJoined
  BY DEF JoinInv
<1> QED BY <1>1, <1>2, <1>3, TypeCorrect, PTL DEF Spec
-----------------------------------------------------------------------------
(* Organizations.                                                          *)

\* The requests of a call under way, and those of one that is over.
OrgInv == /\ CallKeepsOrganization
          /\ \A r \in network : Active(r.call) => r.org = org

\* Unless the organization is assigned while a call is under way, all attempts of a call
\* are made in one organization.
THEOREM OrganizationIsKept == Spec /\ AssignedBetweenCalls => []CallKeepsOrganization
<1> DEFINE Calm == org' # org => \A c \in Calls : ~Active(c)
<1>1. Init => OrgInv
  BY DEF Init, OrgInv, CallKeepsOrganization
<1>2. TypeOK /\ KeyInv /\ OrgInv /\ [Next]_vars /\ [Calm]_vars => OrgInv'
  <2> SUFFICES ASSUME TypeOK, KeyInv, OrgInv, [Next]_vars, [Calm]_vars PROVE OrgInv'
    OBVIOUS
  <2> USE DEF OrgInv, CallKeepsOrganization, Active, TypeOK, CallsOK, WorldOK, Requests
  <2>1. ASSUME UNCHANGED <<network, org>>,
               \A c \in Calls : Active(c)' => Active(c) \/ phase[c] = "idle"
        PROVE  OrgInv'
    BY <2>1 DEF KeyInv, RequestsCarryKey
  <2>2. ASSUME NEW c \in Calls, NEW d \in Calls, Start(c) \/ Repeat(c, d) PROVE OrgInv'
    BY <2>1, <2>2 DEF Start, Repeat, clientVars
  <2>3. ASSUME NEW c \in Calls, Waits(c) PROVE OrgInv'
    BY <2>1, <2>3
    DEF Waits, LocalTimeout, ClosedBeforeSend, TimesOut, Cancelled, Returns, Malformed,
        Refused, GivesUp, Retry, Expire, Raise, clientVars
  <2>4. ASSUME NEW c \in Calls, Send(c) PROVE OrgInv'
    BY <2>4 DEF Send, Request, clientVars
  <2>5. ASSUME NEW r \in network, Service(r) PROVE OrgInv'
    BY <2>5, ServiceKeepsWork DEF Service, Execute, Join, Refuse, clientVars
  <2>6. CASE SetOrganization
    <3>1. org' # org /\ UNCHANGED <<callVars, network>>
      BY <2>6 DEF SetOrganization
    <3>2. Calm
      BY <3>1 DEF vars, clientVars
    <3> QED BY <3>1, <3>2 DEF callVars
  <2>7. CASE Close \/ UNCHANGED vars
    BY <2>1, <2>7 DEF Close, vars, callVars, clientVars
  <2> QED BY <2>2, <2>3, <2>4, <2>5, <2>6, <2>7 DEF Next, Continue, Unavailable, Waits
<1>3. OrgInv => CallKeepsOrganization
  BY DEF OrgInv
<1> QED BY <1>1, <1>2, <1>3, TypeCorrect, KeysInvariant, PTL DEF Spec, AssignedBetweenCalls

HereInv == /\ \A r \in network : r.org = org
           /\ \A c \in Calls, o \in Orgs : effects[c][o] > 0 => o = org

\* In a program that stays with one organization, a piece of work is done in one.
THEOREM WorkIsInOneOrganization == Spec /\ NeverAssigned => []DoneInOneOrganization
<1>1. Init => HereInv
  BY DEF Init, HereInv
<1>2. TypeOK /\ HereInv /\ [Next]_vars /\ [org' = org]_vars => HereInv'
  <2> SUFFICES ASSUME TypeOK, HereInv, [Next]_vars, org' = org PROVE HereInv'
    BY DEF vars, clientVars
  <2> USE DEF HereInv, TypeOK, WorldOK, Requests
  <2>1. ASSUME UNCHANGED <<network, effects>> PROVE HereInv'
    BY <2>1
  <2>2. ASSUME NEW c \in Calls, NEW d \in Calls, Start(c) \/ Repeat(c, d) PROVE HereInv'
    BY <2>1, <2>2 DEF Start, Repeat, serviceVars
  <2>3. ASSUME NEW c \in Calls, Waits(c) PROVE HereInv'
    BY <2>1, <2>3, WaitsKeepWork
  <2>4. ASSUME NEW c \in Calls, Send(c) PROVE HereInv'
    BY <2>4, SendKeepsWork DEF Request
  <2>5. ASSUME NEW r \in network, Service(r) PROVE HereInv'
    <3>1. network' = network \ {r} /\ r.call \in Calls /\ intent[r.call] \in Calls
      BY <2>5, ServiceKeepsWork DEF CallsOK
    <3>2. CASE UNCHANGED effects
      BY <3>1, <3>2
    <3>3. CASE Execute(r)
      <4>1. effects' = [effects EXCEPT ![intent[r.call]][r.org] = @ + 1]
        BY <3>3 DEF Execute
      <4>2. \A c \in Calls, o \in Orgs : o # org => effects'[c][o] = effects[c][o]
        BY <3>1, <4>1
      <4> QED BY <3>1, <4>2
    <3> QED BY <2>5, <3>2, <3>3, ServiceKeepsWork
  <2>6. CASE SetOrganization \/ Close \/ UNCHANGED vars
    BY <2>1, <2>6 DEF SetOrganization, Close, vars, serviceVars
  <2> QED BY <2>2, <2>3, <2>4, <2>5, <2>6 DEF Next, Continue, Unavailable, Waits
<1>3. HereInv => DoneInOneOrganization
  BY DEF HereInv, DoneInOneOrganization
<1> QED BY <1>1, <1>2, <1>3, TypeCorrect, PTL DEF Spec, NeverAssigned

-----------------------------------------------------------------------------
(* The refinement of KeyedCalls.                                           *)

LEMMA UnseenStep ==
  ASSUME UNCHANGED <<kind, intent, error, errorKey, effects>>,
         \A c \in Calls : Status(phase[c])' = Status(phase[c])
  PROVE  UNCHANGED Promise!vars
<1>1. [c \in Calls |-> Status(phase[c])]' = [c \in Calls |-> Status(phase[c])]
  OBVIOUS
<1> QED BY <1>1 DEF Promise!vars

\* A call that ends, or begins, is one whose status changes.
LEMMA StatusStep ==
  ASSUME TypeOK, NEW c \in Calls, NEW p \in {"send", "returned", "raised"},
         phase' = [phase EXCEPT ![c] = p]
  PROVE  [d \in Calls |-> Status(phase[d])]' =
            [[d \in Calls |-> Status(phase[d])] EXCEPT ![c] = Status(p)]
BY DEF TypeOK, CallsOK

LEMMA RaiseStep ==
  ASSUME TypeOK, NEW c \in Calls, NEW e \in Errors, NEW b \in BOOLEAN, Raised(c, e, b)
  PROVE  Promise!Raise(c)
<1> DEFINE out == [d \in Calls |-> error[d] \in {"timeout", "connection"}]
<1>1. /\ phase' = [phase EXCEPT ![c] = "raised"] /\ error' = [error EXCEPT ![c] = e]
      /\ errorKey' = [errorKey EXCEPT ![c] = b] /\ UNCHANGED <<kind, intent, effects>>
      /\ Active(c)
  BY DEF Raised, Raise, serviceVars
<1>2. [d \in Calls |-> Status(phase[d])]' =
         [[d \in Calls |-> Status(phase[d])] EXCEPT ![c] = "raised"]
  BY <1>1, StatusStep DEF Status
<1>3. [d \in Calls |-> Status(phase[d])][c] = "open"
  BY <1>1 DEF Active, Status
<1>4. out' = [out EXCEPT ![c] = RanOut(e)]
  BY <1>1 DEF RanOut, TypeOK, CallsOK
<1>5. /\ b => kind[c] \in {k \in Kinds : Keyed(k)}
      /\ RanOut(e) /\ kind[c] \in {"create_sandbox"} => b
      /\ RanOut(e) \in BOOLEAN
  BY DEF Raised, RanOut, TypeOK, CallsOK
<1> QED BY <1>1, <1>2, <1>3, <1>4, <1>5 DEF Promise!Raise

LEMMA BeginStep ==
  ASSUME TypeOK, NEW c \in Calls, NEW d \in Calls, Start(c) \/ Repeat(c, d)
  PROVE  Promise!Begin(c) \/ Promise!Repeat(c, d)
<1>1. /\ phase' = [phase EXCEPT ![c] = "send"] /\ phase[c] = "idle"
      /\ UNCHANGED <<error, errorKey, effects>>
  BY DEF Start, Repeat, serviceVars
<1>2. [a \in Calls |-> Status(phase[a])]' =
         [[a \in Calls |-> Status(phase[a])] EXCEPT ![c] = "open"]
  BY <1>1, StatusStep DEF Status
<1>3. [a \in Calls |-> Status(phase[a])][c] = "idle"
  BY <1>1 DEF Status
<1>4. CASE Start(c)
  BY <1>1, <1>2, <1>3, <1>4 DEF Start, Promise!Begin
<1>5. CASE Repeat(c, d)
  <2>1. [a \in Calls |-> Status(phase[a])][d] = "raised"
    BY <1>5 DEF Repeat, Status
  <2> QED BY <1>1, <1>2, <1>3, <1>5, <2>1 DEF Repeat, Promise!Repeat
<1> QED BY <1>4, <1>5

LEMMA ReturnStep ==
  ASSUME TypeOK, DoneInv, NEW c \in Calls, Returns(c)
  PROVE  Promise!Return(c)
<1>1. /\ phase' = [phase EXCEPT ![c] = "returned"] /\ phase[c] = "wait"
      /\ UNCHANGED <<kind, intent, error, errorKey, effects>>
      /\ \E o \in Orgs : effects[intent[c]][o] > 0
  BY DEF Returns, serviceVars, DoneInv, AnswerMeansDone, Done
<1>2. [a \in Calls |-> Status(phase[a])]' =
         [[a \in Calls |-> Status(phase[a])] EXCEPT ![c] = "returned"]
  BY <1>1, StatusStep DEF Status
<1>3. [a \in Calls |-> Status(phase[a])][c] = "open"
  BY <1>1 DEF Status
<1> QED BY <1>1, <1>2, <1>3 DEF Promise!Return

LEMMA DoStep ==
  ASSUME TypeOK, KeyInv, OnceInv, NEW r \in network, Execute(r)
  PROVE  r.call \in Calls /\ r.org \in Orgs /\ Promise!Do(r.call, r.org)
<1> DEFINE i == intent[r.call]
<1>1. /\ r.call \in Calls /\ i \in Calls /\ r.key = i /\ r.org \in Orgs
      /\ kind[i] = kind[r.call] /\ phase[r.call] # "idle"
  BY DEF KeyInv, KeyNamesWork, RequestsCarryKey, TypeOK, CallsOK, WorldOK, Requests
<1>2. /\ effects' = [effects EXCEPT ![i][r.org] = @ + 1]
      /\ UNCHANGED <<phase, kind, intent, error, errorKey>>
  BY DEF Execute, callVars
<1>3. Keyed(kind[r.call]) => effects[i][r.org] = 0
  <2>1. effects[i][r.org] \in Nat
    BY <1>1 DEF TypeOK, WorldOK
  <2>2. Keyed(kind[i]) => [key |-> i, org |-> r.org] \notin known
    BY <1>1 DEF Execute, Seen
  <2> QED BY <1>1, <2>1, <2>2 DEF OnceInv, DoneIsKnown
<1>4. /\ [a \in Calls |-> Status(phase[a])]' = [a \in Calls |-> Status(phase[a])]
      /\ [a \in Calls |-> Status(phase[a])][r.call] # "idle"
  BY <1>1, <1>2 DEF Status, TypeOK, CallsOK
<1> QED BY <1>1, <1>2, <1>3, <1>4 DEF Promise!Do

LEMMA PromiseStep ==
  ASSUME TypeOK, KeyInv, OnceInv, DoneInv, [Next]_vars
  PROVE  [Promise!Next]_(Promise!vars)
<1>1. ASSUME NEW c \in Calls, NEW d \in Calls, Start(c) \/ Repeat(c, d)
      PROVE  Promise!Next
  BY <1>1, BeginStep DEF Promise!Next
<1>2. ASSUME NEW c \in Calls, Raising(c) PROVE Promise!Next
  <2>1. PICK e \in Errors, b \in BOOLEAN : Raised(c, e, b)
    BY <1>2, RaisingRaises
  <2> QED BY <2>1, RaiseStep DEF Promise!Next
<1>3. ASSUME NEW c \in Calls, Returns(c) PROVE Promise!Next
  BY <1>3, ReturnStep DEF Promise!Next
<1>4. ASSUME NEW c \in Calls, Send(c) \/ Retry(c) \/ Expire(c) PROVE UNCHANGED Promise!vars
  <2>1. /\ UNCHANGED <<kind, intent, error, errorKey, effects>>
        /\ \A d \in Calls : Status(phase[d])' = Status(phase[d])
    BY <1>4 DEF Send, Retry, Expire, serviceVars, Status, TypeOK, CallsOK
  <2> QED BY <2>1, UnseenStep
<1>5. ASSUME NEW r \in network, Service(r) PROVE [Promise!Next]_(Promise!vars)
  <2>1. CASE Execute(r)
    BY <2>1, DoStep DEF Promise!Next
  <2>2. CASE Join(r) \/ Refuse(r)
    BY <2>2, UnseenStep DEF Join, Refuse, callVars, serviceVars
  <2> QED BY <1>5, <2>1, <2>2 DEF Service
<1>6. CASE SetOrganization \/ Close \/ UNCHANGED vars
  BY <1>6, UnseenStep DEF SetOrganization, Close, vars, callVars, serviceVars
<1> QED BY <1>1, <1>2, <1>3, <1>4, <1>5, <1>6 DEF Next, Continue, Unavailable, Raising

LEMMA PromiseInit == Init => Promise!Init
<1> SUFFICES ASSUME Init PROVE Promise!Init
  OBVIOUS
<1>1. kind \in [Calls -> Kinds]
  BY ControlAssumption DEF Init
<1>2. [c \in Calls |-> Status(phase[c])] = [c \in Calls |-> "idle"]
  BY DEF Init, Status
<1>3. [c \in Calls |-> error[c] \in {"timeout", "connection"}] = [c \in Calls |-> FALSE]
  <2>1. \A c \in Calls : error[c] = "none"
    BY DEF Init
  <2>2. ("none" \in {"timeout", "connection"}) = FALSE
    OBVIOUS
  <2> QED BY <2>1, <2>2
<1> QED BY <1>1, <1>2, <1>3 DEF Init, Promise!Init

\* The calls are those of KeyedCalls: whatever is lost, late, sent again or repeated by
\* the program, keyed work is done once in an organization, a call returns after its
\* work was done, and a create whose time or retries ran out can be joined.
THEOREM CallsAreKeyedCalls == Spec => ImplementsKeyedCalls
<1>1. TypeOK /\ KeyInv /\ OnceInv /\ DoneInv /\ [Next]_vars => [Promise!Next]_(Promise!vars)
  BY PromiseStep
<1> QED BY <1>1, PromiseInit, TypeCorrect, KeysInvariant, OnceInvariant, DoneInvariant, PTL
        DEF Spec, ImplementsKeyedCalls, Promise!Spec
=============================================================================
