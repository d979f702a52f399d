# TLA+ specifications of tyto-sdk-python

These modules model the stateful parts of the Tyto SDK (`src/src/tyto/`): the
streaming Exec session, the wrapper that refreshes its capability and the buffered
exec() on top of it, the attachment to a managed session, the sandbox handle that
threads share with its client's channel pool, the control-plane calls with their
retries, the filesystem calls, the paged lists, and the job and schedule values with
the programs that edit them. TLC checks them on small instances; TLAPS proves every
safety property of its passing runs for all values of the constants. Paths and line
numbers below are relative to `src/src/tyto/`; "README" is the SDK's own README.

## 1. The system

| part | file | state | operations | hard behaviour |
|---|---|---|---|---|
| Exec session | `_session.py` | two bounded queues, the flags `_closed`, `_cancelled`, `_stdin_closed`, `_request_ended`, a reader thread, a deadline | write, resize, close_stdin, cancel, close, next | caller threads, reader thread and gRPC's request thread share it; full queues; cancel racing everything |
| Refreshable exec | `_sandbox.py:1028` | the current session, `_refreshed`, `_responses_started`, `_pending_inputs` | the same | replaces the session while others use it; replay |
| Buffered exec | `_sandbox.py:214`, `:911` | its two buffers, the exit | exec | an error, a timeout or a refresh at any step must leave no session open |
| Control plane | `_client.py`, `_sandbox.py`, `_grpc_errors.py` | the client's organization and `max_retries`; per call: attempts, deadline, idempotency key | 26 unary RPCs | lost, late and duplicated requests; what an error tells the caller |
| Files | `_sandbox.py:662-980`, `_files.py` | the handle's capability; the temporary file of a download | read, list, stat, write, upload, download, mkdir, remove, move | a capability that expires in a stream; local disk and power failures |
| Managed sessions | `_sessions.py`, `_sandbox.py:374-514` | as Exec session, without cancel and half-close | attach, write, resize, detach, close, next; create/list/kill | takeover, detach racing the reader |
| Sandbox handle | `_sandbox.py:163` | `last_observed_status`, `_deleted`, endpoint, capability, failure | every call reads it, errors and refreshes write it | unlocked, written from the reader thread |
| Channel pool, deadlines | `_transport.py` | channels by endpoint, `_closed` | get, close | close racing get |
| Listings | `_client.py:319-490` | page token and count of a generator | list_*, get_sandbox_by_name | collection changes between pages |
| Jobs, schedules | `_jobs.py`, `_client.py:567-908` | none in the SDK; schedules and runs at the service | read, edit and replace; pause, trigger, delete; edit and rerun | a whole value is sent back; other clients; keyless retries |
| Other values | `_previews.py`, `_types.py`, `_errors.py` | none | conversions | - |

How they interact: a `Tyto` client owns a `ChannelPool` and makes `Sandbox` handles.
A handle makes control-plane calls through the client and data-plane calls (exec,
files, sessions) on its own endpoint with its own capability. An `ExecSession` calls
back into the handle (`on_error`, on the reader thread). A rejected capability makes
the refreshable exec and the file calls call `get_sandbox` and copy its capability.

What makes each part correct:

- Exec session: the iteration yields the frames of the remote side in order and
  completely, ends with StopIteration only when nothing was left out, every call
  ends, the reader thread ends, and a closed session's remote command is cancelled.
- Refreshable exec: one more execution at most, only before responses started, with
  exactly the inputs of the first; cancel reaches whichever session runs.
- Control plane: keyed work is done once; a call that returns was done; an error
  after which the work may be done lets the caller join it.
- Files: a file is never torn, whatever fails; a change is made at most once.
- Buffered exec: a result is all its command answered, and no session is left open.
- Attachment: the same order and completeness as an exec; one detach frame; every
  call and the reader end.
- Handle: what it believes (deleted, the observed status) has been true of the
  sandbox, whatever order late answers come in; a retry uses what the refresh gave.
- Pool: a closed client leaves no channel open.
- Lists: each item once, nothing lost that was there all along; a name is not guessed.
- Job values: what an edit does not touch is kept.

## 2. Modules

| module | models | run by | proofs |
|---|---|---|---|
| `ExecEvents` | what an Exec stream promises its reader: frames in order, then one verdict | as property of `ExecSession` and `SessionStream` | |
| `ExecSession` | `_session.py`, class ExecSession | `MCExecSession` | `ExecSessionProofs` |
| `RefreshableExec` | `_sandbox.py`, class _RefreshableExecSession | `BufferedExec`, itself | `BufferedExecProofs` |
| `BufferedExec` | `_sandbox.py`, Sandbox.exec, a program of `RefreshableExec` | itself | `BufferedExecProofs` |
| `SessionStream` | `_sessions.py`, class SessionStream; also refines `ExecEvents` | `MCSessionStream` | `SessionStreamProofs` |
| `ChannelPool` | `_transport.py`, class ChannelPool | in `SandboxHandle` | `SandboxHandleProofs` |
| `SandboxHandle` | `_sandbox.py`, class Sandbox, over `ChannelPool` | `MCSandboxHandle` | `SandboxHandleProofs` |
| `KeyedCalls` | what the unary calls promise: keyed work once, done when the call returns | as property of `ControlPlane` | |
| `ControlPlane` | the unary calls of `_client.py` and `_sandbox.py` | `MCControlPlane` | `ControlPlaneProofs` |
| `FileCalls` | what the file calls promise: whole files, changes made once, downloads for good | as property of `FileTransfer` | |
| `FileTransfer` | the file calls of `_sandbox.py` and `_fsync_parent` | `MCFileTransfer` | `FileTransferProofs` |
| `Listing` | the paged iterators and get_sandbox_by_name of `_client.py` | in `JobSchedules` | `JobSchedulesProofs` |
| `JobValues` | the conversions of `_jobs.py` | in `JobSchedules` | `JobValuesProofs` |
| `JobSchedules` | programs over both, with other clients and the service | `MCJobSchedules` | `JobSchedulesProofs` |

The definitions named "Mutant" in a module are bugs a change of that code could
bring (a dropped guard, a swapped order). Each property has one that breaks it; they
are part of no specification.

### ExecSession

Each caller thread has a program counter `pc`: a call is one step up to the point
where it releases `_lock`, waits, or reads a field without it. `cancel()` is five
steps (flags; reading `_request_ended`; the cancel frame; the end marker; the join),
so that two callers, the reader, and gRPC's thread can run in between. `_put` and
`_put_cleanup` may give up exactly where the code does: `_put` when the deadline
passed, `_put_cleanup` when the queue stayed full (its own timeout is always
possible, for the code bounds it by seconds, not by events). The reader has one step
per item it takes, per check of the flags and per put. `iter` is the request
generator: once the RPC is over gRPC drops it, and its `finally` may run late or, as
far as the code can rely on, never. Frames are numbered: `sent` holds their kinds
("out" for stdout and stderr, "exit", "bad" for a response without a frame),
`delivered` what next() answered. A call that raises without a change (write on a
closed session) is a call that is not enabled. The remote side and the network are
external: they send any frames and end the stream in any way.

### RefreshableExec

An `ExecSession` is reduced to the inputs it accepted, whether it was shut, how many
events it has answered and whether it has answered its verdict. Each of the calls of
the wrapper is split at `self._session` (loaded once, used later) and before
`_pending_inputs.append`. `concurrent` is chosen at the start: FALSE is a program
that makes all calls from one thread: it begins one only when none is under way (`MayCall`).
resize takes the path of write and is not distinguished from it.

An input that finds the queue full at the deadline raises (`MayTimeOut`), from the
caller's write and from the replay.

### BufferedExec

`exec` says whether the program is exec() and where it is. Its steps are conjunctions
of the wrapper's own actions with the position of exec() and the events it collects,
so everything the wrapper may do (be rejected, refresh, replay, raise) happens to it.
An event is its session, its number there, and whether it is the Exit; after the Exit
the session answers only its end, as `ExecSession` shows.

### SessionStream

As `ExecSession`, step for step, where the code is alike. It differs in the
constructor, which waits for the accepted frame (`Admit`, `Refuse`); in one flag,
`_closed`, for detached and ended alike, which the reader looks at before every put;
in `detach()`, whose frame is followed by the end marker; and in the last frames: exit,
a takeover, DETACHED. `detached` is a history variable: a detach, close or timeout set
`_closed`, rather than the reader at the end of the stream. The remote side sends
DETACHED only when it was asked to. A detach() before the first next() has no reader
to wait for: it cancels the RPC right after the detach frame was queued, which the
frame may lose to, and the frame may be dropped at a full queue; nothing says that
the remote side must learn of it, since the end of the RPC detaches as well.

### ChannelPool and SandboxHandle

An endpoint names its channel. A call on a handle is a guard, the endpoint and its
channel, the capability, the request, the answer, and the update of the handle, each
a step of its own since the handle has no lock; `Refresh` to `StoreRefresh` are the
refresh of exec and file calls (`get_sandbox`) and the reissue of session calls.
`observing` holds errors of execs that a reader thread has yet to hand to
`_observe_exec_error`; it does so at any later time, also when the exec was abandoned.
`had` is a history variable: the states the sandbox has been in. `shared` FALSE is a
program that makes one call at a time. Assumptions about the service: it answers
`sandbox_deleted`, `sandbox_suspended`, or another failed precondition of an exec only
for a sandbox in that state (the code takes any other failed precondition for a
failure, for good); a waking sandbox may come up at another endpoint, and a guest that
is gone answers an error; nobody but the service deletes (a delete by another client
is the delete of another thread's handle); a newer answer may lack endpoint and
capability in resume, preview and reissue.

### Listing, JobValues, JobSchedules

The three generators of the code are the same loop, modelled once. A page of the
service is any list, short, empty or overlong, of the first items behind the token of
the request, in order of their ids; its token says up to which id the service has
looked: that is the assumption under which a list can be complete. `stayed`
is a history variable: what the collection held all the time since the iterator was
made. In `JobValues` None, "" and () are `Empty`, an enumeration is a number in a
message, `rest` is what is copied as it is (name, path, environment, timeouts; time
zone, jitter), `network` the policy of the sandbox to create, which the SDK has no
field for. In `JobSchedules` a program holds what it has read and sends it back with a
field changed; other clients create, delete and pause schedules meanwhile, which pass
the checks of the SDK (`SchedulesAssumption`); a keyless request whose answer was lost
is done again. Iterating and editing share nothing but
the collection, so a program does one or the other (`mode`).

### ControlPlane

All unary calls have one loop; what they differ in is the table `Shape`, one line per
method, read off its code: has it a key, does it retry, does it check the answer, and
which of its errors carry the key. A call draws its key (named after the call), makes
attempts, and returns or raises; a program may repeat a call that raised with the key
the error carries (README, Troubleshooting). A request stays in `network` until the
service does it, joins it to what it did for that key, or refuses it; the client may
have given up the attempt by then. `effects` counts how often the work of a call was
done in each organization. Backoff is left out: it only delays, and cannot exceed the
deadline. The service's side is an assumption: it does the requests of one
organization with one key once. What it does with keyless repetitions is left open.

`KeyedCalls` is what the program sees of this: begin, repeat, return, raise, and a
service that does the work of a key once, at any time after the call was made.

### FileTransfer

A call is its kind, its attempt, the capability that attempt was made with, the
chunks of its stream and what it collected. `dest` is the destination as processes see
it, `disk` the name as the directory on disk has it; a file that was not synced may
lose any tail when the power fails, and the name may be any of the two until the
directory is synced. "mutate" stands for mkdir, remove and move, "read" also for
list_files. Assumptions about the guest: it publishes a write only when its stream is
complete (docstring of write_file), and rejects a capability before it makes a change.
`LateRejects` names the kinds of call it may also reject in the middle of the
stream. The removal of the temporary file succeeds: an `unlink` that raises leaves it,
and nothing could be done about that. Filesystems that do not sync directories
(`_is_unsupported_directory_fsync_error`) give no durability and are left out. A
refresh stores some capability newer than the rejected one, not always the newest,
since another thread's older answer may be stored last. A call that gives up with its
request complete (`gaveUp`: a deadline, a lost answer) may still have its change made
later, also after the power failed here.

`FileCalls` is what the program sees: the change of a call is one step, before it
returns or at any time if it raised; a download replaces its destination in one step,
and its return makes that durable.

## 3. Checks

| run | instance | shows |
|---|---|---|
| `exec_safety` | 2 threads, tty, request queue 2, response queue 1, 2 frames, 1 input | types and queue bounds, `DeliveredInOrder`, `StopAfterAll`, `ClosedMeansComplete`, `FinalAnswer`, `OneCancelFrame`, and that the session implements `ExecEvents` |
| `exec_live` | 2 threads, both queues 1, 1 frame, under fairness | `EveryCallReturns`, `ReaderStops` |
| `exec_close` | 2 threads | violated: close() may return with the remote command uncancelled (finding 1) |
| `refresh_shared` | an iterating, a writing and a cancelling thread; one thread for all; exec(); 3 inputs, 2 events a session | `NoDuplicateInput`, `OneRefresh`, `ReplayIsExact`, `ExecIsWhole` |
| `refresh_retry` | | violated: a command that answered is executed again (finding 2) |
| `control_once` | 2 calls of 4 kinds, 2 organizations, 1 retry | `KeyedOnce`, `CreateCanBeJoined`, the retry bound, and that the calls implement `KeyedCalls` |
| `transfer_whole` | 2 calls of all kinds, files of 2 chunks, read limits 1 and 3, 2 expiries | `ReturnedIsDurable`, `PayloadIsWhole`, `AppliedOnce`, `NoTempLeft`, the read limit, and that the calls implement `FileCalls` |
| `transfer_late` | 1 download | violated: a download rejected in the middle replaces the destination by a doubled beginning (finding 3) |
| `attach` | 2 threads, both queues 1, 1 input, 1 frame after the accepted one, under fairness | queue bounds, `FinalAnswer`, `OneDetachFrame`, `ExecEvents` implemented, `EveryCallReturns`, `ReaderStops` |
| `attach_detached` | 2 threads, request queue 2 | violated: the DETACHED event is never yielded (finding 4) |
| `handle` | 2 threads, the control plane and 2 hosts, 2 capabilities | `DeletedIsTrue`, `StatusHasBeen`, `RetryIsFresh`, `NoChannelLeft`, `DeletedIsFinal`, the handle never without endpoint or capability |
| `schedules` | 4 items, limits 0, 1, 3 and none, pages of 2; 1 edited schedule, 2 runs, 1 retry | `ListsEachOnce`, `NeverGuesses`, `EditKeepsRest`, one trigger and one target in what is stored |

Why the bounds are enough to be interesting. In the `exec_` runs the queues are as small
as they can be while still filling, blocking and draining; two threads suffice for
every race between two callers, and the reader, the generator and the clock come on
top; two frames make order, loss of the first and of the last visible. One input next
to half-close, cancel and end fills the request queue of two. In `attach` one frame and
the end already fill the response queue, and with start, input, detach and end the
request queue of one is full at every step; order over more frames is proved.
The larger capacities of the code (16) are covered by the
proofs. In `control_once` a second attempt is the shortest way to a late duplicate,
and the second call can repeat the first. In `transfer_whole` two expiries make both
attempts of a call fail, and a limit of 1 is passed, one of 3 is not. In `handle` the
second capability is the one a refresh brings; a third would only tell apart two
refreshes in a shared handle, where a late answer may put an older capability over a
newer one, which the code does not avoid and the next rejection repairs. Two hosts are
one move. In `schedules` 4 items are two full pages, or more pages when they are short;
the limit of 3 ends inside a page, 1 inside the first. Counters are
bounded in guards by constants whose comment says "bound": `MaxInputs`, `MaxFrames`,
`MaxEvents`, `MaxTokens`, `MaxId`, `MaxRuns`. `MaxRetries` is a parameter of the
program. TLC checks the `exec_`, `attach`, `handle` and `schedules` runs for deadlock;
in the others it does not, since there a program makes a bounded number of calls and
the end of the last one is a legal final state. Symmetry is used only in runs whose
temporal properties are steps or refinements without fairness: `DeletedIsFinal`,
`ImplementsEvents`, which is about variables that name no thread, `ImplementsKeyedCalls`
and `ImplementsFileCalls`, whose mapping and abstract actions treat calls (and
organizations) alike.

**Fairness** (`FairSpec` of `ExecSession` and of `SessionStream`): a thread in a call
goes on, the reader thread is scheduled, the finally of the request generator runs once
entered, the deadline passes, and gRPC ends an RPC whose timeout passed. These are the
thread scheduler and the clock; both sessions pass gRPC a timeout later than their
deadline. Nothing obliges a program to call, gRPC to take requests or the remote side
to send, so the liveness properties hold for a remote side that hangs. They are
therefore about calls and the reader ending, not about output.

### Findings

1. `exec_close`: `cancel()` may return although the cancel frame was dropped at a full
   queue (`_session.py:231`) or queued behind a half-close that was already taken;
   README: "Closing an unfinished session cancels the remote Exec." The theorem
   `ClosingCancels` says that these two are the only causes.
2. `refresh_retry`: the refresh (`_sandbox.py:1068`) does not look at
   `_responses_started`; README: "before responses start".
3. `transfer_late`: `_sandbox.py:852` writes the second attempt behind the first. It
   needs a service that rejects a capability in the middle of a stream, which
   `read_file` (a fresh buffer per attempt) is written for. `PayloadIsWhole` holds with
   such a service.
4. `attach_detached`: `detach()` sets `_closed` first (`_sessions.py:229`), so the
   reader refuses the DETACHED event and the end marker, and a thread in next() waits
   until its deadline; README: "DETACHED (you called detach())".

Two more disagreements have a definition and no run of their own; adding it as an
INVARIANT to the cfg named makes TLC print the trace:

- `CancelReachesTheExec` (`BufferedExec_shared.cfg`): cancel() and close() act on the
  session they loaded (`_sandbox.py:1098`), and a refresh under way then starts one
  that is not cancelled. One thread can meet it too, when a rejection was queued behind
  an event before it cancels, and it goes on iterating.
- `CallKeepsOrganization` (`ControlPlane_once.cfg`): `_client.py:219` reads the
  organization per attempt, so a retry may go to another one; README: "which
  organization subsequent calls run against". `OrganizationIsKept` and
  `WorkIsInOneOrganization` say what programs must do to be spared that.

Modelled, but not reported, for want of a text that promises otherwise: a write that
races the refresh may be lost; `trigger_job_schedule` may fire twice; next() after its
StopIteration waits for the deadline; a close_stdin that timed out cannot be repeated;
the result of an exec() refreshed in the middle of its output (finding 2) begins with
the output of the first execution; a SUSPENDED observed before an exec wakes the
sandbox stays in the handle and makes snapshot() refuse; a stored job's network policy
is dropped by read, edit and update or rerun; a failed delete whose first request was
done says `already_deleted`.

## 4. Proofs

TLAPS checks, for any threads, calls, queue capacities and bounds:

- `ExecSessionProofs`: `TypeCorrect`, `AnswersInvariant`, `DeliveryInOrder`,
  `StopIsLast`, `SessionImplementsEvents`, `FinalAnswerComes`, `ClosedIsComplete`,
  `CancelIsAskedOnce`. The property `DeliveredInOrder` is not inductive: it says nothing
  of what is still queued. `IInv` is: the answers given, the answers queued and the item
  in the reader's hands are together the first frames of the stream in order, with at
  most one verdict, at the end (`FramesInOrder`, `ReaderPosition`); a verdict of End
  stands for a complete stream (`EndIsComplete`, for which the exit frame must be the
  last, `ExitLast`); what is queued was read (`QueuedWasRead`); and the thread that
  starts the reader is alone (`OneStarter`, without which a second start would put the
  reader back to "reading"). Most actions do not touch these variables (`QuietOrLoud`);
  the others are a step each. The refinement maps each of them to an action of
  `ExecEvents` or to a stutter. `VerdictQueued` strengthens `FinalAnswer` and
  `ClosedMeansComplete` by what holds between the reader's last put and its end;
  `OneCanceller` strengthens `OneCancelFrame`: while a thread is on its way to ask,
  nobody has asked, and no other thread is. `ClosingCancels` is about finding 1: under
  `CancelFits` (the cancel frame is not given up) and `StdinSettled` (no half-close is
  on its way to the generator while a thread cancels) `ClosingCancelsRemote` holds.
  `AskInv` follows the frame: not asked for yet, with a generator that will look, or in
  the queue before any sentinel, or on the wire. TLC finds a counterexample with
  either hypothesis alone.
- `SessionStreamProofs`: the same eight results for an attachment along the same lines,
  with `LastIsLast` for the last frame and `OneDetacher` for `OneDetachFrame`.
- `SandboxHandleProofs`: `TypeCorrect`, which needs that what a refresh has found is
  whole (`FreshIsWhole`); `DeletedIsRight`, `StatusIsReal` and `DeletedForGood` from
  `ReportsHaveBeen`: every error and answer on its way to the handle reports a state the
  sandbox has had, and a deleted sandbox stays deleted; and `ClosedPoolIsEmpty`, from
  `ChannelsAreKept`: an open channel is in the pool's map or in the list of a close()
  under way. `RetryCarriesNew` follows from `AloneInv`: in a program of one call at a
  time only one call is under way, and from its rejection on it goes towards a
  capability newer than those issued before (`Renews`).
- `JobValuesProofs`: the conversions are inverse to each other on messages the SDK's
  values can say all of (`JobRoundTrip`, `TimingRoundTrip`), change in the others
  nothing but what it cannot say (`JobKeepsTheRest`), and a value passes the checks
  exactly when its message does (`ValidStaysValid`), whatever the fields hold.
- `BufferedExecProofs`, for `exec()` and for every other program of the wrapper:
  `TypeCorrect`, `NoInputTwice`, `RefreshedOnce` and `ExactReplay`. Every step of
  `exec()` is one of `RefreshableExec`, except the close at its end (`ProgramSteps`).
  An input is noted only before the refresh, and what the loop has not replayed yet has
  not reached the second session (`SessionInv`, `InputInv`, `ReplayInv`). For one
  thread, `ExactInv` says that the first session has taken all that was noted, up to a
  first close_stdin that only others follow (`Took`): the second then takes the same.
  `ResultIsWhole` is about exec(): `CollectInv` says that what it collected is all of
  the first session's events and then all of the second's, by number, with the Exit
  last; `EndInv` that it returns after an Exit only, with both sessions shut.
- `FileTransferProofs`: `TypeCorrect`, `Once`, `Payloads`, `TempsAreRemoved`, `Durable`,
  and `DownloadIsWhole` under the hypothesis that no download is rejected after its
  first chunk, which finding 3 shows to be needed. `IInv` says what each attempt has
  collected or sent (`ReadInv`, `WriteInv`: exactly the first chunks), that a change is
  a call's last step on the guest (`ChangeInv`) and that what replaces the destination
  is synced (`DownloadInv`, `LocalInv`); `WholeInv` adds that the temporary file is
  empty when an attempt begins. `TransferImplementsCalls` (under the same hypothesis)
  maps each step of a call to the one of `FileCalls` it brings about, or to a stutter.
- `ControlPlaneProofs`: `TypeCorrect`, `KeyedWorkIsDoneOnce`, `ReturnedWorkIsDone`,
  `CreateIsJoined`, `CallsAreKeyedCalls`, `OrganizationIsKept`,
  `WorkIsInOneOrganization`.
  `KeyedOnce` needs that a key names one piece of work (`KeyNamesWork`: a repetition
  takes intent and key of the call it repeats, of the same kind), that every request
  under way carries its call's key (`RequestsCarryKey`) and that work done is known to
  the service by its key (`DoneIsKnown`). `ReturnedMeansDone` needs `AnswerMeansDone`.
  The only assumption is the one about the service, which is in the model.
  `CallsAreKeyedCalls` maps every step to one of `KeyedCalls` or to a stutter, with
  these invariants. The other two are about programs: one that assigns
  `organization_id` only between calls (`AssignedBetweenCalls`) never has requests of
  one call for two organizations, and one that never assigns it (`NeverAssigned`) has
  the work of a call and all its repetitions done in one.
- `JobSchedulesProofs`: `TypeCorrect`, `ListIsComplete`, `NameIsNotGuessed`,
  `EditIsLocal`. `OrderInv` keeps what is answered before what is on the page, and both
  before what the next token leaves out; since the k-th item answered is at least k,
  there are no more than `MaxId`. `CompleteInv` says what an item that stayed has
  become: behind the token, on the page, or answered. For the edits `ValidInv` says
  that what is stored and sent passes the checks, and `CallInv` what a request shares
  with the value it was made from (by `JobKeepsTheRest` and `TimingRoundTrip`), and
  that once it was done the service stores it, unless somebody else touched it.

The assumptions on constants (`ExecAssumption`, `AttachAssumption`,
`HandleAssumption`, `JobDataAssumption`, `ControlAssumption`, `RefreshAssumption`,
`TransferAssumption`, `ListingAssumption`, `SchedulesAssumption`) only say that
capacities and sizes are positive, bounds natural numbers, limits natural numbers or
none, kinds entries of the table, that the control plane has an endpoint, that none is
a value, and that the schedules of other clients pass the checks of the SDK.

Only model-checked: liveness (`EveryCallReturns`, `ReaderStops`), which under fairness
is out of the prover's reach. The four properties that the code violates are proved
under the hypotheses above or not at all: `ClosingCancelsRemote` with `ClosingCancels`,
`DestinationIsWhole` with `DownloadIsWhole`; `NoRetryAfterResponses` and
`DetachedIsYielded` have no hypothesis short of the defect itself.

## 5. Not modelled, and the plan

Left to add, in this order: an abstract specification of the sandbox handle; a run of
`handle` with three capabilities; Preview values.

Not to be modelled: generated code (`_proto`), build scripts, examples, error classes,
endpoint parsing, credentials, redaction of messages, validation of arguments, the
read-only views of runs and sessions: string handling and copying without state. The
services themselves are external; what the modules assume of them is in section 2.
