-------------------------- MODULE RefreshableExec --------------------------
(***************************************************************************)
(* _RefreshableExecSession of src/tyto/_sandbox.py: what exec_stream()    *)
(* returns.  It wraps one ExecSession and, when the remote side rejects an *)
(* expired capability, closes it, refreshes the capability, opens a second *)
(* ExecSession for the same command and replays the inputs so far.         *)
(* An ExecSession is abstracted to what this wrapper tells apart: which    *)
(* inputs it accepted, whether it was shut, and what its next() answers.   *)
(* An iterating thread, a thread that writes and one that cancels share    *)
(* the wrapper, which has no lock.  A reference to self._session that a    *)
(* call has loaded stays the old session when the iterator replaces it.    *)
(***************************************************************************)
EXTENDS Naturals, Sequences, FiniteSets

CONSTANTS MaxInputs,    \* bound: calls of write, resize and close_stdin
          MaxEvents     \* bound: events a session answers

ASSUME RefreshAssumption ==
    MaxInputs \in Nat /\ MaxEvents \in Nat

VARIABLES
    concurrent,        \* FALSE: the program makes all its calls from one thread
    current,           \* which session self._session is: 1 or 2
    accepted,          \* accepted[s]: inputs session s has taken, in order
    shut,              \* shut[s]: session s was cancelled or closed
    dead,              \* dead[s]: the reader of session s answered its verdict
    events,            \* events[s]: events session s has answered
    refreshed,         \* _refreshed
    responsesStarted,  \* _responses_started
    pending,           \* _pending_inputs
    tokenExpired,      \* _capability_is_expired(sandbox._capability)
    iterator,          \* where next() is
    replayed,          \* position of the loop of _replay_pending_inputs
    writer,            \* the input call: where it is, its session and input
    inputs,            \* number of input calls made
    canceller          \* the cancel() call: "idle", the session it loaded, "done"

innerVars == <<concurrent, current, accepted, shut, dead, events>>
fieldVars == <<refreshed, responsesStarted, pending, tokenExpired>>
iterVars  == <<iterator, replayed>>
callVars  == <<writer, inputs, canceller>>
vars == <<innerVars, fieldVars, iterVars, callVars>>

Sessions == {1, 2}
Inputs   == [kind : {"data", "close"}, n : 1..MaxInputs]
Idle     == [at |-> "idle", session |-> 1, input |-> [kind |-> "data", n |-> 0]]

IteratorSteps == {"idle", "next", "close", "refresh", "open", "replay",
                  "nextAgain", "over"}

StdinClosed(s) == shut[s] \/ \E i \in DOMAIN accepted[s] : accepted[s][i].kind = "close"

Init ==
    /\ concurrent \in BOOLEAN /\ current = 1 /\ accepted = [s \in Sessions |-> <<>>]
    /\ shut = [s \in Sessions |-> FALSE] /\ dead = [s \in Sessions |-> FALSE]
    /\ events = [s \in Sessions |-> 0]
    /\ refreshed = FALSE /\ responsesStarted = FALSE /\ pending = <<>>
    /\ tokenExpired = FALSE
    /\ iterator = "idle" /\ replayed = 0
    /\ writer = Idle /\ inputs = 0 /\ canceller = "idle"

\* A program of one thread makes a call when it is in none.
MayCall == \/ concurrent
           \/ /\ iterator \in {"idle", "over"} /\ writer.at = "idle"
              /\ canceller \in {"idle", "done"}

-----------------------------------------------------------------------------
(* next                                                                    *)

CallNext ==
    /\ iterator = "idle" /\ MayCall
    /\ iterator' = "next"
    /\ UNCHANGED <<innerVars, fieldVars, replayed, callVars>>

\* The inner next() answers an event: the wrapper notes that responses started.
NextEvent ==
    /\ iterator \in {"next", "nextAgain"}
    /\ ~dead[current] /\ events[current] < MaxEvents
    /\ events' = [events EXCEPT ![current] = @ + 1]
    /\ responsesStarted' = TRUE
    /\ iterator' = "idle"
    /\ UNCHANGED <<concurrent, current, accepted, shut, dead, refreshed, pending,
                   tokenExpired, replayed, callVars>>

\* StopIteration or a timeout, which leave the session shut, or an error other
\* than a rejected capability, which does not.
NextEnds ==
    /\ iterator \in {"next", "nextAgain"}
    /\ dead' = [dead EXCEPT ![current] = TRUE]
    /\ shut' \in {shut, [shut EXCEPT ![current] = TRUE]}
    /\ iterator' = "over"
    /\ UNCHANGED <<concurrent, current, accepted, events, fieldVars, replayed, callVars>>

\* (Mutant: _refreshed is not consulted.)
MayRefreshAlways == tokenExpired

\* A second rejection, or one of a token that is not expired, is raised.
MayRefresh == ~refreshed /\ tokenExpired

\* CapabilityRejectedError out of the first next().
NextRejected ==
    /\ iterator = "next" /\ ~dead[current]
    /\ dead' = [dead EXCEPT ![current] = TRUE]
    /\ IF MayRefresh THEN refreshed' = TRUE /\ iterator' = "close"
                     ELSE UNCHANGED refreshed /\ iterator' = "over"
    /\ UNCHANGED <<concurrent, current, accepted, shut, events, responsesStarted, pending,
                   tokenExpired, replayed, callVars>>

\* (Mutant: the rejected session is left as it is.)
CloseNothing ==
    /\ iterator = "close" /\ iterator' = "refresh"
    /\ UNCHANGED <<innerVars, fieldVars, replayed, callVars>>

CloseOld ==
    /\ iterator = "close"
    /\ shut' = [shut EXCEPT ![current] = TRUE]
    /\ iterator' = "refresh"
    /\ UNCHANGED <<concurrent, current, accepted, dead, events, fieldVars, replayed, callVars>>

\* _refresh_exec_capability_once: GetSandbox, which may raise.
Refresh ==
    /\ iterator = "refresh"
    /\ \/ iterator' = "open" /\ tokenExpired' = FALSE
       \/ iterator' = "over" /\ UNCHANGED tokenExpired
    /\ UNCHANGED <<innerVars, refreshed, responsesStarted, pending, replayed,
                   callVars>>

\* _new_session: the command is executed again.
OpenNew ==
    /\ iterator = "open"
    /\ current' = 2
    /\ iterator' = "replay" /\ replayed' = 0
    /\ UNCHANGED <<concurrent, accepted, shut, dead, events, fieldVars, callVars>>

\* Session s takes an input, or the call raises and changes nothing: its stdin is
\* closed, or (MayTimeOut, of a write or resize) its queue full at the deadline.
Takes(s, input) ==
    IF StdinClosed(s) THEN UNCHANGED accepted
                      ELSE accepted' = [accepted EXCEPT ![s] = Append(@, input)]
Raises(s, input) == input.kind = "data" /\ StdinClosed(s)
MayTimeOut(s, input) == input.kind = "data" /\ ~StdinClosed(s)

\* (Mutant: the loop takes the inputs off the list it iterates over.)
ReplayPopping ==
    /\ iterator = "replay" /\ replayed < Len(pending)
    /\ Takes(current, pending[replayed + 1])
    /\ replayed' = replayed + 1
    /\ pending' = Tail(pending)
    /\ UNCHANGED <<concurrent, current, shut, dead, events, refreshed, responsesStarted,
                   tokenExpired, iterator, callVars>>

\* The loop of _replay_pending_inputs; what it raises leaves next().
Replay ==
    /\ iterator = "replay" /\ replayed < Len(pending)
    /\ LET input == pending[replayed + 1]
       IN \/ /\ Takes(current, input)
             /\ IF Raises(current, input)
                THEN iterator' = "over" /\ UNCHANGED replayed
                ELSE replayed' = replayed + 1 /\ UNCHANGED iterator
          \/ /\ MayTimeOut(current, input) /\ UNCHANGED accepted
             /\ iterator' = "over" /\ UNCHANGED replayed
    /\ UNCHANGED <<concurrent, current, shut, dead, events, fieldVars, callVars>>

ReplayDone ==
    /\ iterator = "replay" /\ replayed = Len(pending)
    /\ iterator' = "nextAgain"
    /\ UNCHANGED <<innerVars, fieldVars, replayed, callVars>>

-----------------------------------------------------------------------------
(* write and close_stdin (resize is as write)                              *)

StartInput ==
    /\ writer.at = "idle" /\ inputs < MaxInputs /\ MayCall
    /\ inputs' = inputs + 1
    /\ \E k \in {"data", "close"} :
          writer' = [at |-> "call", session |-> current,
                     input |-> [kind |-> k, n |-> inputs + 1]]
    /\ UNCHANGED <<innerVars, fieldVars, iterVars, canceller>>

\* The call on the loaded session: it raises, or the input is to be noted.
CallInput ==
    /\ writer.at = "call"
    /\ \/ /\ Takes(writer.session, writer.input)
          /\ writer' = IF Raises(writer.session, writer.input)
                       THEN Idle ELSE [writer EXCEPT !.at = "note"]
       \/ /\ MayTimeOut(writer.session, writer.input) /\ UNCHANGED accepted
          /\ writer' = Idle
    /\ UNCHANGED <<concurrent, current, shut, dead, events, fieldVars, iterVars, inputs,
                   canceller>>

\* (Mutant: an input is noted for replay also after the refresh.)
NoteInputAlways ==
    /\ writer.at = "note"
    /\ pending' = Append(pending, writer.input)
    /\ writer' = Idle
    /\ UNCHANGED <<innerVars, refreshed, responsesStarted, tokenExpired, iterVars,
                   inputs, canceller>>

\* (Mutant: close_stdin is not noted for replay.)
NoteDataOnly ==
    /\ writer.at = "note"
    /\ pending' = IF ~responsesStarted /\ ~refreshed /\ writer.input.kind = "data"
                  THEN Append(pending, writer.input) ELSE pending
    /\ writer' = Idle
    /\ UNCHANGED <<innerVars, refreshed, responsesStarted, tokenExpired, iterVars,
                   inputs, canceller>>

NoteInput ==
    /\ writer.at = "note"
    /\ pending' = IF ~responsesStarted /\ ~refreshed
                  THEN Append(pending, writer.input) ELSE pending
    /\ writer' = Idle
    /\ UNCHANGED <<innerVars, refreshed, responsesStarted, tokenExpired, iterVars,
                   inputs, canceller>>

-----------------------------------------------------------------------------
(* cancel and close                                                        *)

StartCancel ==
    /\ canceller = "idle" /\ MayCall
    /\ canceller' = IF current = 1 THEN "first" ELSE "second"
    /\ UNCHANGED <<innerVars, fieldVars, iterVars, writer, inputs>>

CancelLoaded ==
    /\ canceller \in {"first", "second"}
    /\ shut' = [shut EXCEPT ![IF canceller = "first" THEN 1 ELSE 2] = TRUE]
    /\ canceller' = "done"
    /\ UNCHANGED <<concurrent, current, accepted, dead, events, fieldVars, iterVars, writer,
                   inputs>>

\* The capability's time runs out, the refreshed one's too.
TokenExpires ==
    /\ ~tokenExpired
    /\ tokenExpired' = TRUE
    /\ UNCHANGED <<innerVars, refreshed, responsesStarted, pending, iterVars,
                   callVars>>

-----------------------------------------------------------------------------
NextSteps   == \/ CallNext \/ NextEvent \/ NextEnds \/ NextRejected \/ CloseOld
               \/ Refresh \/ OpenNew \/ Replay \/ ReplayDone
WriterSteps == StartInput \/ CallInput \/ NoteInput
CancelSteps == StartCancel \/ CancelLoaded

Next == NextSteps \/ WriterSteps \/ CancelSteps \/ TokenExpires

Spec == Init /\ [][Next]_vars

-----------------------------------------------------------------------------
TypeOK ==
    /\ concurrent \in BOOLEAN /\ current \in Sessions
    /\ accepted \in [Sessions -> Seq(Inputs)]
    /\ shut \in [Sessions -> BOOLEAN] /\ dead \in [Sessions -> BOOLEAN]
    /\ events \in [Sessions -> 0..MaxEvents]
    /\ refreshed \in BOOLEAN /\ responsesStarted \in BOOLEAN
    /\ pending \in Seq(Inputs) /\ tokenExpired \in BOOLEAN
    /\ iterator \in IteratorSteps /\ replayed \in 0..Len(pending)
    /\ writer.at \in {"idle", "call", "note"} /\ writer.session \in Sessions
    /\ inputs \in 0..MaxInputs
    /\ canceller \in {"idle", "first", "second", "done"}

\* No input reaches the second session twice, as a replay and directly, in
\* whatever order a writing thread and the refresh run.
NoDuplicateInput ==
    \A i, j \in DOMAIN accepted[2] : accepted[2][i] = accepted[2][j] => i = j

\* A wrapper refreshes its token at most once: only the first session is ever
\* replaced, the second session's own rejection is always raised.
OneRefresh == [][iterator = "close" /\ iterator' = "refresh" => current = 1]_vars

\* Used by one thread, the second session has been given, when its first event
\* is awaited, exactly the inputs the caller had given the first, in order
\* (unless that thread's own cancel() came in between).
ReplayIsExact ==
    ~concurrent /\ canceller = "idle" /\ iterator = "nextAgain"
                /\ ~responsesStarted =>
        accepted[2] = accepted[1]

\* README (max_retries): Exec calls are not retried except when the token is
\* expired "before responses start": a command that has answered events is
\* never executed again.
NoRetryAfterResponses == current = 2 => events[1] = 0

\* README "Closing an unfinished session cancels the remote Exec": once cancel()
\* or close() has returned, the session that runs the command is shut, or the
\* iteration is over.  It does not hold of the code: a cancel() that finds the old
\* session just before __next__ replaces it shuts the old one only.
CancelReachesTheExec ==
    canceller = "done" => shut[current] \/ iterator = "over"
=============================================================================
