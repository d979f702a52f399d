------------------------- MODULE BufferedExecProofs -------------------------
(***************************************************************************)
(* RefreshableExec, used by exec() or by any other program: for every      *)
(* number of inputs and events, only the first command is started again;   *)
(* the second is given no input twice, and by one thread exactly the first *)
(* one's inputs.                                                           *)
(***************************************************************************)
EXTENDS BufferedExec, SequenceTheorems, TLAPS

\* The types of RefreshableExec, with the writer's input.
Writers == [at : {"idle", "call", "note"}, session : Sessions,
            input : [kind : {"data", "close"}, n : 0..MaxInputs]]
Types == TypeOK /\ writer \in Writers /\ (writer.at # "idle" => writer.input \in Inputs)

\* The second session belongs to the one refresh.
SessionInv ==
    /\ iterator \in {"close", "refresh", "open"} => refreshed /\ current = 1
    /\ iterator \in {"replay", "nextAgain"} => refreshed /\ current = 2
    /\ current = 2 => refreshed
    /\ current = 1 => accepted[2] = <<>> /\ replayed = 0
    /\ writer.at # "idle" /\ writer.session = 2 => current = 2

\* An input is known by its number; the one a call is about to give is new.
InputInv ==
    /\ \A k \in DOMAIN pending : pending[k].n <= inputs
    /\ \A k, l \in DOMAIN pending : pending[k].n = pending[l].n => k = l
    /\ \A i \in DOMAIN accepted[2] : accepted[2][i].n <= inputs
    /\ \A i, j \in DOMAIN accepted[2] : accepted[2][i].n = accepted[2][j].n => i = j
    /\ writer.at # "idle" =>
          /\ writer.input.n = inputs /\ writer.input.n # 0
          /\ \A k \in DOMAIN pending : pending[k].n # inputs
          /\ writer.at = "call" => \A i \in DOMAIN accepted[2] : accepted[2][i].n # inputs

\* What the loop has still to replay has not reached the second session.
ReplayInv ==
    \A k \in DOMAIN pending : \A i \in DOMAIN accepted[2] :
        k > replayed => pending[k].n # accepted[2][i].n

\* What exec() collects: first the events of the first session, then those of the
\* second, by number, and nothing after an Exit, which belongs to the current one.
CollectInv == exec # "none" =>
    /\ Len(collected) = events[1] + events[2]
    /\ \A i \in DOMAIN collected :
          /\ collected[i].session = IF i <= events[1] THEN 1 ELSE 2
          /\ collected[i].n = IF i <= events[1] THEN i ELSE i - events[1]
          /\ collected[i].exit => i = Len(collected)
    /\ current = 1 => events[2] = 0
    /\ Exited => events[current] > 0 /\ iterator \in {"idle", "next", "over"}

\* exec() returns after an Exit only, and leaves no session open.
EndInv ==
    /\ outcome = "returned" => exec \in {"close", "over"} /\ Exited
    /\ iterator \in {"refresh", "open"} \/ current = 2 => shut[1]
    /\ exec = "over" => shut[current]

IInv == Types /\ SessionInv /\ InputInv /\ ReplayInv

\* Where exec() stands when it leaves the iteration.
ExecInv ==
    /\ exec # "none" => ~concurrent
    /\ exec \in {"write", "closeStdin"} => iterator = "idle"
    /\ exec \in {"cancel", "close", "over"} => iterator \in {"idle", "over"}

\* One thread uses the wrapper, and neither an end nor an answer has come.
Live == /\ ~concurrent /\ canceller = "idle" /\ ~responsesStarted
        /\ exec # "over" /\ iterator # "over"

\* A session that was given q has taken a: all of q, or q up to a first close_stdin
\* that only others follow.
Took(q, a) ==
    /\ Len(a) <= Len(q)
    /\ \A i \in DOMAIN a : a[i] = q[i] /\ (i < Len(a) => a[i].kind = "data")
    /\ Len(a) < Len(q) =>
          /\ Len(a) > 0 /\ a[Len(a)].kind = "close"
          /\ \A i \in DOMAIN q : i > Len(a) => q[i].kind = "close"

\* What the first session was given: the noted inputs, and the one about to be noted.
Given == IF writer.at = "note" THEN Append(pending, writer.input) ELSE pending

ExactInv == Live =>
    /\ writer.at # "idle" => iterator = "idle" /\ writer.session = 1
    /\ iterator \in {"idle", "next"} => current = 1 /\ ~refreshed /\ ~shut[1]
    /\ ~shut[2]
    /\ Took(Given, accepted[1])
    /\ iterator = "replay" =>
          /\ Len(accepted[2]) = IF replayed <= Len(accepted[1]) THEN replayed
                                                                ELSE Len(accepted[1])
          /\ \A i \in DOMAIN accepted[2] : accepted[2][i] = accepted[1][i]
    /\ iterator = "nextAgain" => accepted[2] = accepted[1]

-----------------------------------------------------------------------------
(* The program of exec() makes steps of the wrapper, and shuts it at the end. *)

\* __exit__ of exec(): no field of the wrapper changes.
Shuts == /\ shut' \in [Sessions -> BOOLEAN]
         /\ UNCHANGED <<concurrent, current, accepted, dead, events, fieldVars, iterVars,
                        callVars>>

LEMMA ProgramSteps == TypeOK /\ [ProgramNext]_<<vars, bufferVars>> => [Next]_vars \/ Shuts
<1> SUFFICES ASSUME TypeOK, [ProgramNext]_<<vars, bufferVars>> PROVE [Next]_vars \/ Shuts
  OBVIOUS
<1>1. CASE ExecInput
  BY <1>1 DEF ExecInput, Next, WriterSteps
<1>2. CASE Collect \/ ExecNext \/ ExecEnds
  BY <1>2 DEF Collect, ExecNext, ExecEnds, Next, NextSteps
<1>3. CASE ExecCancel
  BY <1>3 DEF ExecCancel, Next, CancelSteps
<1>4. CASE ExecClose
  BY <1>4 DEF ExecClose, Shuts, TypeOK
<1>5. CASE TokenExpires \/ Next \/ UNCHANGED <<vars, bufferVars>>
  BY <1>5 DEF Next
<1> QED BY <1>1, <1>2, <1>3, <1>4, <1>5 DEF ProgramNext

-----------------------------------------------------------------------------
(* The types.                                                              *)

\* A session takes an input at its end, or leaves it.
LEMMA TakesOne ==
  ASSUME NEW s \in Sessions, NEW input \in Inputs,
         accepted \in [Sessions -> Seq(Inputs)], Takes(s, input) \/ UNCHANGED accepted
  PROVE  /\ accepted' \in [Sessions -> Seq(Inputs)]
         /\ \A r \in Sessions \ {s} : accepted'[r] = accepted[r]
         /\ accepted'[s] \in {accepted[s], Append(accepted[s], input)}
<1>1. accepted' = accepted \/ accepted' = [accepted EXCEPT ![s] = Append(@, input)]
  BY DEF Takes
<1>2. Append(accepted[s], input) \in Seq(Inputs)
  OBVIOUS
<1> QED BY <1>1, <1>2

LEMMA IdleWriter == Idle \in Writers /\ Idle.at = "idle" /\ Idle.session = 1
BY RefreshAssumption DEF Idle, Writers, Sessions

LEMMA TypesInit == Init => Types
<1> SUFFICES ASSUME Init PROVE Types
  OBVIOUS
<1> USE RefreshAssumption DEF Init
<1>1. writer \in Writers /\ writer.at = "idle" /\ writer.session \in Sessions
  BY IdleWriter DEF Sessions
<1>2. accepted \in [Sessions -> Seq(Inputs)] /\ pending \in Seq(Inputs)
  OBVIOUS
<1>3. replayed \in 0..Len(pending) /\ inputs \in 0..MaxInputs /\ current \in Sessions
  BY DEF Sessions
<1>4. /\ shut \in [Sessions -> BOOLEAN] /\ dead \in [Sessions -> BOOLEAN]
      /\ events \in [Sessions -> 0..MaxEvents] /\ iterator \in IteratorSteps
  BY DEF IteratorSteps
<1> QED BY <1>1, <1>2, <1>3, <1>4 DEF Types, TypeOK

LEMMA TypesStep == Types /\ ([Next]_vars \/ Shuts) => Types'
<1> SUFFICES ASSUME Types, [Next]_vars \/ Shuts PROVE Types'
  OBVIOUS
<1> USE RefreshAssumption DEF Types, TypeOK, Sessions, IteratorSteps, innerVars, fieldVars,
        iterVars, callVars
<1>1. CASE CallNext
  BY <1>1 DEF CallNext
<1>2. CASE NextEvent
  BY <1>2 DEF NextEvent
<1>3. CASE NextEnds
  <2>1. shut' \in [Sessions -> BOOLEAN]
    <3>1. [shut EXCEPT ![current] = TRUE] \in [Sessions -> BOOLEAN]
      OBVIOUS
    <3> QED BY <1>3, <3>1 DEF NextEnds
  <2> QED BY <1>3, <2>1 DEF NextEnds
<1>4. CASE NextRejected
  BY <1>4 DEF NextRejected
<1>5. CASE CloseOld
  BY <1>5 DEF CloseOld
<1>6. CASE Refresh
  <2>1. iterator' \in IteratorSteps /\ tokenExpired' \in BOOLEAN
    BY <1>6 DEF Refresh
  <2> QED BY <1>6, <2>1 DEF Refresh
<1>7. CASE OpenNew
  BY <1>7 DEF OpenNew
<1>8. CASE Replay
  <2>1. pending[replayed + 1] \in Inputs /\ replayed + 1 \in 0..Len(pending)
    BY <1>8 DEF Replay
  <2>2. accepted' \in [Sessions -> Seq(Inputs)]
    BY <1>8, <2>1, TakesOne DEF Replay
  <2> QED BY <1>8, <2>1, <2>2 DEF Replay
<1>9. CASE ReplayDone
  BY <1>9 DEF ReplayDone
<1>10. CASE StartInput
  BY <1>10 DEF StartInput, Writers, Inputs
<1>11. CASE CallInput
  <2>1. accepted' \in [Sessions -> Seq(Inputs)]
    BY <1>11, TakesOne DEF CallInput
  <2>2. writer' \in Writers /\ (writer'.at # "idle" => writer'.input \in Inputs)
    <3>1. writer' = Idle \/ writer' = [writer EXCEPT !.at = "note"]
      BY <1>11 DEF CallInput
    <3>2. [writer EXCEPT !.at = "note"] \in Writers
      BY DEF Writers
    <3>3. [writer EXCEPT !.at = "note"].input \in Inputs
      BY <1>11 DEF CallInput, Writers
    <3> QED BY <3>1, <3>2, <3>3, IdleWriter
  <2> HIDE DEF Sessions
  <2> QED BY <1>11, <2>1, <2>2 DEF CallInput, Writers
<1>12. CASE NoteInput
  <2>1. writer' = Idle /\ pending' \in Seq(Inputs) /\ replayed' \in 0..Len(pending')
    BY <1>12 DEF NoteInput
  <2>2. writer' \in Writers /\ writer'.at = "idle" /\ writer'.session \in Sessions
    BY <2>1, IdleWriter
  <2> QED BY <1>12, <2>1, <2>2 DEF NoteInput
<1>13. CASE StartCancel
  BY <1>13 DEF StartCancel
<1>14. CASE CancelLoaded
  BY <1>14 DEF CancelLoaded
<1>15. CASE TokenExpires
  BY <1>15 DEF TokenExpires
<1>16. CASE Shuts \/ UNCHANGED vars
  BY <1>16 DEF Shuts, vars
<1> QED BY <1>1, <1>2, <1>3, <1>4, <1>5, <1>6, <1>7, <1>8, <1>9, <1>10, <1>11, <1>12,
           <1>13, <1>14, <1>15, <1>16 DEF Next, NextSteps, WriterSteps, CancelSteps

-----------------------------------------------------------------------------
(* The inputs.                                                             *)

\* The steps that leave the inputs alone.
Quiet == /\ UNCHANGED <<accepted, pending, inputs, writer>>
         /\ UNCHANGED replayed \/ OpenNew

LEMMA QuietSteps ==
  ASSUME [Next]_vars \/ Shuts, ~(Replay \/ StartInput \/ CallInput \/ NoteInput)
  PROVE  Quiet
BY DEF Quiet, Next, NextSteps, WriterSteps, CancelSteps, Shuts, vars, innerVars, fieldVars,
       iterVars, callVars, CallNext, NextEvent, NextEnds, NextRejected, CloseOld, Refresh,
       OpenNew, ReplayDone, StartCancel, CancelLoaded, TokenExpires

\* The places of a sequence that grew.
LEMMA AppendAt ==
  ASSUME NEW S, NEW q \in Seq(S), NEW x \in S
  PROVE  \A i \in DOMAIN Append(q, x) :
            \/ i \in DOMAIN q /\ Append(q, x)[i] = q[i]
            \/ i = Len(q) + 1 /\ i \notin DOMAIN q /\ Append(q, x)[i] = x
OBVIOUS

LEMMA SessionStep ==
  ASSUME Types, SessionInv, [Next]_vars \/ Shuts
  PROVE  SessionInv'
<1> USE DEF SessionInv, innerVars, fieldVars, iterVars, callVars
<1>1. CASE CallNext \/ NextEvent \/ NextEnds \/ CloseOld
  BY <1>1 DEF CallNext, NextEvent, NextEnds, CloseOld
<1>2. CASE NextRejected
  BY <1>2 DEF NextRejected, MayRefresh, Types, TypeOK, Sessions
<1>3. CASE Refresh
  BY <1>3 DEF Refresh
<1>4. CASE OpenNew
  BY <1>4 DEF OpenNew
<1>5. CASE Replay
  BY <1>5 DEF Replay
<1>6. CASE ReplayDone
  BY <1>6 DEF ReplayDone
<1>7. CASE StartInput
  BY <1>7 DEF StartInput
<1>8. CASE CallInput
  <2>1. /\ writer'.at # "idle" => writer.at # "idle" /\ writer'.session = writer.session
        /\ UNCHANGED <<current, refreshed, iterator, replayed>>
    BY <1>8, IdleWriter DEF CallInput, Types, Writers
  <2>2. current = 1 => accepted'[2] = accepted[2]
    BY <1>8, TakesOne DEF CallInput, Types, TypeOK, Sessions
  <2> QED BY <2>1, <2>2
<1>9. CASE NoteInput
  BY <1>9, IdleWriter DEF NoteInput
<1>10. CASE StartCancel \/ CancelLoaded \/ TokenExpires \/ Shuts \/ UNCHANGED vars
  BY <1>10 DEF StartCancel, CancelLoaded, TokenExpires, Shuts, vars
<1> QED BY <1>1, <1>2, <1>3, <1>4, <1>5, <1>6, <1>7, <1>8, <1>9, <1>10
        DEF Next, NextSteps, WriterSteps, CancelSteps

LEMMA InputStep ==
  ASSUME Types, SessionInv, InputInv, ReplayInv, [Next]_vars \/ Shuts
  PROVE  InputInv' /\ ReplayInv'
<1> DEFINE at2 == accepted[2]
<1>1. /\ accepted \in [Sessions -> Seq(Inputs)] /\ 2 \in Sessions /\ pending \in Seq(Inputs)
      /\ at2 \in Seq(Inputs) /\ inputs \in Nat /\ replayed \in 0..Len(pending)
      /\ \A y \in Inputs : y.n \in Nat
  BY RefreshAssumption DEF Types, TypeOK, Sessions, Inputs
<1>2. CASE Quiet
  <2>1. InputInv'
    BY <1>2 DEF Quiet, InputInv
  <2>2. CASE UNCHANGED replayed
    <3>1. accepted' = accepted /\ pending' = pending
      BY <1>2 DEF Quiet
    <3> QED BY <2>1, <2>2, <3>1 DEF ReplayInv
  <2>3. CASE OpenNew
    <3>1. accepted'[2] = <<>>
      BY <1>2, <2>3 DEF Quiet, OpenNew, SessionInv
    <3>2. DOMAIN accepted'[2] = {}
      BY <3>1
    <3> QED BY <2>1, <3>2 DEF ReplayInv
  <2> QED BY <1>2, <2>1, <2>2, <2>3 DEF Quiet
<1>3. CASE Replay
  <2> DEFINE x == pending[replayed + 1]
  <2>1. /\ UNCHANGED <<pending, inputs, writer>> /\ replayed + 1 \in DOMAIN pending
        /\ x \in Inputs /\ iterator = "replay" /\ current = 2
    BY <1>1, <1>3 DEF Replay, SessionInv, fieldVars, callVars
  <2>2. CASE UNCHANGED accepted
    <3>1. replayed' \in {replayed, replayed + 1}
      BY <1>3 DEF Replay
    <3> QED BY <1>1, <2>1, <2>2, <3>1 DEF InputInv, ReplayInv
  <2>3. CASE accepted' # accepted
    <3>1. accepted'[2] = Append(at2, x) /\ replayed' = replayed + 1
      BY <1>1, <1>3, <2>1, <2>3 DEF Replay, Takes, Raises
    <3>2. \A i \in DOMAIN accepted'[2] : \/ i \in DOMAIN at2 /\ accepted'[2][i] = at2[i]
                                         \/ i = Len(at2) + 1 /\ accepted'[2][i] = x
      BY <1>1, <2>1, <3>1, AppendAt
    <3>3. \A i \in DOMAIN at2 : at2[i].n # x.n
      BY <1>1, <2>1 DEF ReplayInv
    <3>4. x.n <= inputs /\ (writer.at # "idle" => x.n # inputs)
      BY <2>1 DEF InputInv
    <3> HIDE DEF at2, x
    <3>5. InputInv'
      BY <2>1, <3>2, <3>3, <3>4 DEF InputInv, at2
    <3>6. ReplayInv'
      <4>1. \A k \in DOMAIN pending : k > replayed + 1 => k > replayed /\ pending[k].n # x.n
        BY <1>1, <2>1 DEF InputInv, x
      <4> QED BY <2>1, <3>1, <3>2, <4>1 DEF ReplayInv, at2
    <3> QED BY <3>5, <3>6
  <2> QED BY <2>2, <2>3
<1>4. CASE StartInput
  <2>1. /\ UNCHANGED <<accepted, pending, replayed>> /\ inputs' = inputs + 1
        /\ writer'.at = "call" /\ writer'.input.n = inputs + 1 /\ writer.at = "idle"
    BY <1>4 DEF StartInput, innerVars, fieldVars, iterVars
  <2>2. /\ \A k \in DOMAIN pending : pending[k].n \in Nat
        /\ \A i \in DOMAIN at2 : at2[i].n \in Nat
    BY <1>1
  <2> QED BY <1>1, <2>1, <2>2 DEF InputInv, ReplayInv
<1>5. CASE CallInput
  <2> DEFINE x == writer.input
  <2>1. /\ UNCHANGED <<pending, inputs, replayed>> /\ writer.at = "call" /\ x \in Inputs
        /\ writer.session \in Sessions
    BY <1>5 DEF CallInput, Types, Writers, fieldVars, iterVars
  <2>2. writer'.at = "idle" \/ (writer'.at = "note" /\ writer'.input = x)
    BY <1>5, IdleWriter DEF CallInput, Types, Writers
  <2>3. accepted'[2] \in {at2, Append(at2, x)}
    BY <1>1, <1>5, <2>1, TakesOne DEF CallInput
  <2>4. \A i \in DOMAIN accepted'[2] : \/ i \in DOMAIN at2 /\ accepted'[2][i] = at2[i]
                                       \/ i = Len(at2) + 1 /\ i \notin DOMAIN at2
                                          /\ accepted'[2][i] = x
    <3>1. CASE accepted'[2] = at2
      BY <3>1
    <3>2. CASE accepted'[2] = Append(at2, x)
      BY <1>1, <2>1, <3>2, AppendAt
    <3> QED BY <2>3, <3>1, <3>2
  <2>5. /\ x.n = inputs /\ \A i \in DOMAIN at2 : at2[i].n # x.n
        /\ \A k \in DOMAIN pending : pending[k].n # x.n
    BY <2>1 DEF InputInv
  <2> HIDE DEF at2, x
  <2>6. InputInv'
    <3>1. \A i \in DOMAIN accepted'[2] : accepted'[2][i].n <= inputs
      <4>1. \A i \in DOMAIN at2 : at2[i].n <= inputs
        BY DEF InputInv, at2
      <4>2. x.n <= inputs
        BY <1>1, <2>5
      <4> QED BY <2>4, <4>1, <4>2
    <3>2. \A i, j \in DOMAIN accepted'[2] :
              accepted'[2][i].n = accepted'[2][j].n => i = j
      BY <2>4, <2>5 DEF InputInv, at2
    <3>3. inputs # 0
      BY <2>1 DEF InputInv
    <3> QED BY <2>1, <2>2, <2>5, <3>1, <3>2, <3>3 DEF InputInv
  <2>7. ReplayInv'
    BY <2>1, <2>4, <2>5 DEF ReplayInv, at2
  <2> QED BY <2>6, <2>7
<1>6. CASE NoteInput
  <2> DEFINE x == writer.input
  <2>1. /\ UNCHANGED <<accepted, inputs, replayed>> /\ writer.at # "idle" /\ x \in Inputs
        /\ writer'.at = "idle" /\ x.n = inputs /\ \A k \in DOMAIN pending : pending[k].n # x.n
    BY <1>6, IdleWriter DEF NoteInput, Types, InputInv, innerVars, iterVars
  <2>2. CASE UNCHANGED pending
    BY <2>1, <2>2 DEF InputInv, ReplayInv
  <2>3. CASE pending' = Append(pending, x) /\ ~refreshed
    <3>1. \A k \in DOMAIN pending' : \/ k \in DOMAIN pending /\ pending'[k] = pending[k]
                                     \/ k = Len(pending) + 1 /\ pending'[k] = x
      BY <1>1, <2>1, <2>3, AppendAt
    <3>2. accepted'[2] = <<>>
      BY <2>1, <2>3 DEF SessionInv, Types, TypeOK, Sessions
    <3> HIDE DEF x
    <3>3. InputInv'
      <4>1. \A k \in DOMAIN pending' : pending'[k].n <= inputs
        BY <1>1, <2>1, <3>1 DEF InputInv
      <4>2. \A k, l \in DOMAIN pending' : pending'[k].n = pending'[l].n => k = l
        BY <2>1, <3>1 DEF InputInv
      <4>3. DOMAIN accepted'[2] = {}
        BY <3>2
      <4> QED BY <2>1, <4>1, <4>2, <4>3 DEF InputInv
    <3> QED BY <3>2, <3>3 DEF ReplayInv
  <2> QED BY <1>6, <2>2, <2>3 DEF NoteInput
<1> QED BY <1>2, <1>3, <1>4, <1>5, <1>6, QuietSteps

-----------------------------------------------------------------------------
(* exec().                                                                 *)

LEMMA ExecTypesStep ==
  Types /\ ExecTypeOK /\ [ProgramNext]_<<vars, bufferVars>> => ExecTypeOK'
<1> SUFFICES ASSUME Types, ExecTypeOK, [ProgramNext]_<<vars, bufferVars>> PROVE ExecTypeOK'
  OBVIOUS
<1>1. TypeOK'
  BY ProgramSteps, TypesStep DEF ExecTypeOK, Types
<1> USE DEF ExecTypeOK, ExecSteps
<1>2. CASE ExecInput
  BY <1>1, <1>2 DEF ExecInput
<1>3. CASE Collect
  <2>1. /\ UNCHANGED <<exec, outcome>> /\ current \in Sessions
        /\ events'[current] = events[current] + 1 /\ events[current] < MaxEvents
        /\ events[current] \in 0..MaxEvents
    BY <1>3 DEF Collect, NextEvent, TypeOK
  <2>2. events'[current] \in 1..MaxEvents
    BY <2>1, RefreshAssumption
  <2>3. ASSUME NEW exit \in BOOLEAN
        PROVE  [session |-> current, n |-> events'[current], exit |-> exit] \in Events
    BY <2>1, <2>2 DEF Events
  <2>4. collected' \in Seq(Events)
    BY <1>3, <2>3 DEF Collect
  <2> QED BY <1>1, <2>1, <2>4
<1>4. CASE ExecNext
  BY <1>1, <1>4 DEF ExecNext
<1>5. CASE ExecEnds \/ ExecCancel \/ ExecClose
  BY <1>1, <1>5 DEF ExecEnds, ExecCancel, ExecClose
<1>6. CASE UNCHANGED bufferVars
  BY <1>1, <1>6 DEF bufferVars
<1> QED BY <1>2, <1>3, <1>4, <1>5, <1>6 DEF ProgramNext

LEMMA ExecInvStep ==
  TypeOK /\ ExecInv /\ [ProgramNext]_<<vars, bufferVars>> => ExecInv'
<1> SUFFICES ASSUME TypeOK, ExecInv, [ProgramNext]_<<vars, bufferVars>> PROVE ExecInv'
  OBVIOUS
<1> USE DEF ExecInv, innerVars, iterVars, fieldVars, callVars
<1>1. concurrent' = concurrent
  BY DEF ProgramNext, vars, ExecInput, Collect, ExecNext, ExecEnds, ExecCancel, ExecClose, Next,
     NextSteps, WriterSteps, CancelSteps, CallNext, NextEvent, NextEnds, NextRejected, CloseOld,
     Refresh, OpenNew, Replay, ReplayDone, StartInput, CallInput, NoteInput, StartCancel,
     CancelLoaded, TokenExpires
<1>2. CASE ExecInput
  BY <1>1, <1>2 DEF ExecInput, StartInput, CallInput, NoteInput
<1>3. CASE Collect \/ ExecNext
  BY <1>1, <1>3 DEF Collect, ExecNext, NextEvent
<1>4. CASE ExecEnds \/ ExecCancel \/ ExecClose
  BY <1>1, <1>4 DEF ExecEnds, NextEnds, ExecCancel, StartCancel, CancelLoaded, ExecClose
<1>5. CASE exec = "none" /\ UNCHANGED bufferVars
  BY <1>1, <1>5 DEF bufferVars
<1>6. CASE (TokenExpires /\ UNCHANGED bufferVars) \/ UNCHANGED <<vars, bufferVars>>
  BY <1>6 DEF TokenExpires, bufferVars, vars
<1> QED BY <1>2, <1>3, <1>4, <1>5, <1>6 DEF ProgramNext

-----------------------------------------------------------------------------
(* One thread: the replay is exact.                                        *)

\* A step from or to a live state is one of the wrapper, of the one thread.
LEMMA LiveStep ==
  ASSUME TypeOK, ExecInv, [ProgramNext]_<<vars, bufferVars>>, Live'
  PROVE  Live /\ [Next]_vars
<1> USE DEF Live, innerVars, iterVars, fieldVars, callVars
<1>1. exec # "over" /\ [Next]_vars
  BY DEF ProgramNext, bufferVars, vars, ExecInput, Collect, ExecNext, ExecEnds, ExecCancel,
     ExecClose, Next, NextSteps, WriterSteps, CancelSteps
<1>2. ~concurrent /\ canceller = "idle" /\ ~responsesStarted /\ iterator # "over"
  BY <1>1 DEF vars, Next, NextSteps, WriterSteps, CancelSteps, CallNext, NextEvent, NextEnds,
     NextRejected, CloseOld, Refresh, OpenNew, Replay, ReplayDone, StartInput, CallInput,
     NoteInput, StartCancel, CancelLoaded, TokenExpires, TypeOK
<1> QED BY <1>1, <1>2

\* A session whose stdin was closed takes no other input than one more close_stdin.
LEMMA TookClosed ==
  ASSUME NEW q \in Seq(Inputs), NEW a \in Seq(Inputs), NEW x \in Inputs, Took(q, a),
         x.kind = "close", \E i \in DOMAIN a : a[i].kind = "close"
  PROVE  Took(Append(q, x), a)
<1>1. Len(a) > 0 /\ a[Len(a)].kind = "close"
  BY DEF Took
<1>2. ASSUME NEW i \in DOMAIN a PROVE Append(q, x)[i] = q[i]
  BY DEF Took
<1>3. ASSUME NEW i \in DOMAIN Append(q, x), i > Len(a) PROVE Append(q, x)[i].kind = "close"
  BY <1>3, AppendAt DEF Took
<1> QED BY <1>1, <1>2, <1>3 DEF Took

\* A session whose stdin is open takes what it is given.
LEMMA TookOpen ==
  ASSUME NEW q \in Seq(Inputs), NEW a \in Seq(Inputs), NEW x \in Inputs, Took(q, a),
         ~\E i \in DOMAIN a : a[i].kind = "close"
  PROVE  Took(Append(q, x), Append(a, x))
<1>1. Len(a) = Len(q) /\ \A i \in DOMAIN a : a[i] = q[i] /\ a[i].kind = "data"
  <2>1. Len(a) = Len(q)
    <3>1. Len(a) > 0 => Len(a) \in DOMAIN a
      OBVIOUS
    <3> QED BY <3>1 DEF Took
  <2>2. ASSUME NEW i \in DOMAIN a PROVE a[i] = q[i] /\ a[i].kind = "data"
    <3>1. a[i] \in Inputs
      OBVIOUS
    <3> QED BY <3>1 DEF Took, Inputs
  <2> QED BY <2>1, <2>2
<1>2. Len(Append(q, x)) = Len(Append(a, x)) /\ Len(Append(a, x)) = Len(a) + 1
  BY <1>1
<1>3. ASSUME NEW i \in DOMAIN Append(a, x)
      PROVE  /\ Append(a, x)[i] = Append(q, x)[i]
             /\ i < Len(Append(a, x)) => Append(a, x)[i].kind = "data"
  BY <1>1
<1> QED BY <1>1, <1>2, <1>3 DEF Took

\* No step of the one thread spoils the replay.
LEMMA ExactStep ==
  ASSUME Types, SessionInv, ExactInv, Live, Live', [Next]_vars
  PROVE  ExactInv'
<1> USE DEF innerVars, iterVars, fieldVars, callVars
<1> DEFINE a1 == accepted[1]
           a2 == accepted[2]
<1>1. /\ accepted \in [Sessions -> Seq(Inputs)] /\ pending \in Seq(Inputs)
      /\ 1 \in Sessions /\ 2 \in Sessions /\ a1 \in Seq(Inputs) /\ a2 \in Seq(Inputs)
      /\ shut \in [Sessions -> BOOLEAN] /\ replayed \in 0..Len(pending)
  BY DEF Types, TypeOK, Sessions
<1>2. /\ writer.at # "idle" => iterator = "idle" /\ writer.session = 1
      /\ iterator \in {"idle", "next"} => current = 1 /\ ~refreshed /\ ~shut[1]
      /\ ~shut[2]
      /\ Took(Given, a1)
  BY DEF ExactInv
<1>3. ASSUME UNCHANGED <<accepted, pending, writer>>, writer.at = "idle", ~shut'[2],
             iterator' \notin {"idle", "replay", "nextAgain"},
             iterator' = "next" => current' = 1 /\ ~refreshed' /\ ~shut'[1]
      PROVE  ExactInv'
  <2>1. Given' = Given /\ accepted' = accepted
    BY <1>3 DEF Given
  <2> QED BY <1>2, <1>3, <2>1 DEF ExactInv
<1>4. CASE CallNext
  BY <1>2, <1>3, <1>4 DEF CallNext, MayCall, Live
<1>5. CASE NextRejected \/ Refresh
  BY <1>2, <1>3, <1>5 DEF NextRejected, Refresh, Live
<1>6. CASE CloseOld
  BY <1>1, <1>2, <1>3, <1>6 DEF CloseOld, SessionInv
<1>7. CASE OpenNew
  <2>1. /\ accepted' = accepted /\ Given' = Given /\ UNCHANGED <<writer, shut>>
        /\ writer.at = "idle" /\ iterator' = "replay" /\ replayed' = 0
    BY <1>2, <1>7 DEF OpenNew, Given
  <2>2. accepted'[2] = <<>>
    BY <1>7, <2>1 DEF OpenNew, SessionInv
  <2> QED BY <1>1, <1>2, <2>1, <2>2 DEF ExactInv
<1>8. CASE Replay
  <2> DEFINE x == pending[replayed + 1]
  <2>1. /\ iterator = "replay" /\ iterator' = "replay" /\ writer.at = "idle" /\ current = 2
        /\ replayed < Len(pending) /\ replayed' = replayed + 1 /\ Takes(2, x)
        /\ UNCHANGED <<pending, writer, shut, refreshed>> /\ Given = pending /\ Given' = pending
    BY <1>2, <1>8 DEF Replay, Live, SessionInv, Given
  <2>2. Took(pending, a1) /\ x \in Inputs
    BY <1>1, <1>2, <2>1
  <2>3. /\ Len(a2) = IF replayed <= Len(a1) THEN replayed ELSE Len(a1)
        /\ \A i \in DOMAIN a2 : a2[i] = a1[i]
    BY <2>1 DEF ExactInv
  <2>4. accepted'[1] = a1
    BY <1>1, <2>1 DEF Takes
  <2>5. /\ Len(accepted'[2]) = IF replayed' <= Len(a1) THEN replayed' ELSE Len(a1)
        /\ \A i \in DOMAIN accepted'[2] : accepted'[2][i] = a1[i]
    <3>1. CASE replayed < Len(a1)
      <4>1. \A i \in DOMAIN a2 : a2[i].kind = "data"
        BY <1>1, <2>2, <2>3, <3>1 DEF Took
      <4>2. ~StdinClosed(2)
        BY <1>2, <4>1 DEF StdinClosed
      <4>3. accepted'[2] = Append(a2, x) /\ x = a1[replayed + 1]
        BY <1>1, <2>1, <2>2, <3>1, <4>2 DEF Takes, Took
      <4> HIDE DEF x
      <4> QED BY <1>1, <2>1, <2>2, <2>3, <3>1, <4>3
    <3>2. CASE replayed >= Len(a1)
      <4>1. Len(a2) = Len(a1) /\ Len(a1) > 0 /\ a1[Len(a1)].kind = "close"
        BY <1>1, <2>1, <2>2, <2>3, <3>2 DEF Took
      <4>2. Len(a1) \in DOMAIN a2 /\ a2[Len(a1)].kind = "close"
        BY <1>1, <2>3, <4>1
      <4>3. accepted' = accepted
        BY <2>1, <4>2 DEF Takes, StdinClosed
      <4> QED BY <1>1, <2>1, <2>3, <3>2, <4>1, <4>3
    <3> QED BY <1>1, <3>1, <3>2
  <2> HIDE DEF x
  <2> QED BY <1>2, <2>1, <2>2, <2>4, <2>5 DEF ExactInv
<1>9. CASE ReplayDone
  <2>1. /\ accepted' = accepted /\ Given' = Given /\ UNCHANGED <<writer, shut>>
        /\ iterator = "replay" /\ writer.at = "idle" /\ iterator' = "nextAgain"
        /\ replayed = Len(pending)
    BY <1>2, <1>9 DEF ReplayDone, Given
  <2>2. Len(a2) = Len(a1) /\ \A k \in DOMAIN a2 : a2[k] = a1[k]
    BY <1>1, <1>2, <2>1 DEF ExactInv, Took, Given
  <2>3. a2 = a1
    BY <1>1, <2>2, SeqEqual
  <2> QED BY <1>2, <2>1, <2>3 DEF ExactInv
<1>10. CASE StartInput
  <2>1. /\ writer.at = "idle" /\ iterator = "idle" /\ current = 1
        /\ writer'.at = "call" /\ writer'.session = 1
        /\ UNCHANGED <<accepted, pending, shut, iterator, current, refreshed>>
    BY <1>2, <1>10 DEF StartInput, MayCall, Live
  <2>2. Given' = Given /\ accepted' = accepted
    BY <2>1 DEF Given
  <2> QED BY <1>2, <2>1, <2>2 DEF ExactInv
<1>11. CASE CallInput
  <2> DEFINE x == writer.input
  <2>1. /\ writer.at = "call" /\ writer.session = 1 /\ iterator = "idle" /\ x \in Inputs
        /\ UNCHANGED <<pending, shut, iterator, current, refreshed>> /\ Given = pending
    BY <1>2, <1>11 DEF CallInput, Given, Types, Writers
  <2>2. \/ writer' = Idle /\ accepted' = accepted
        \/ writer' = [writer EXCEPT !.at = "note"] /\ Takes(1, x) /\ ~Raises(1, x)
    BY <1>11, <2>1 DEF CallInput, Takes, Raises
  <2>3. CASE writer' = Idle /\ accepted' = accepted
    <3>1. Given' = pending /\ writer'.at = "idle"
      BY <2>1, <2>3, IdleWriter DEF Given
    <3> QED BY <1>2, <2>1, <2>3, <3>1 DEF ExactInv
  <2>4. CASE writer' = [writer EXCEPT !.at = "note"] /\ Takes(1, x) /\ ~Raises(1, x)
    <3>1. Given' = Append(pending, x) /\ writer'.at = "note" /\ writer'.session = 1
      BY <2>1, <2>4 DEF Given, Types, Writers
    <3>2. StdinClosed(1) <=> \E i \in DOMAIN a1 : a1[i].kind = "close"
      BY <1>2, <2>1 DEF StdinClosed
    <3>3. Took(pending, a1)
      BY <1>2, <2>1
    <3>4. Took(Given', accepted'[1])
      <4>1. CASE StdinClosed(1)
        <5>1. accepted' = accepted /\ x.kind = "close"
          BY <2>1, <2>4, <4>1 DEF Takes, Raises, Inputs
        <5> HIDE DEF x
        <5> QED BY <1>1, <2>1, <3>1, <3>2, <3>3, <4>1, <5>1, TookClosed
      <4>2. CASE ~StdinClosed(1)
        <5>1. accepted'[1] = Append(a1, x)
          BY <1>1, <2>4, <4>2 DEF Takes
        <5> HIDE DEF x
        <5> QED BY <1>1, <2>1, <3>1, <3>2, <3>3, <4>2, <5>1, TookOpen
      <4> QED BY <4>1, <4>2
    <3> QED BY <1>2, <2>1, <3>1, <3>4 DEF ExactInv
  <2> QED BY <2>2, <2>3, <2>4
<1>12. CASE NoteInput
  <2>1. /\ writer.at = "note" /\ iterator = "idle" /\ writer'.at = "idle" /\ ~refreshed
        /\ UNCHANGED <<accepted, shut, iterator, current, refreshed>>
        /\ pending' = Append(pending, writer.input)
    BY <1>2, <1>12, IdleWriter DEF NoteInput, Live
  <2>2. Given' = Given /\ accepted' = accepted
    BY <2>1 DEF Given
  <2> QED BY <1>2, <2>1, <2>2 DEF ExactInv
<1>13. CASE TokenExpires \/ UNCHANGED vars
  <2>1. /\ UNCHANGED <<accepted, pending, writer, shut, iterator, current, refreshed, replayed>>
    BY <1>13 DEF TokenExpires, vars
  <2> QED BY <1>2, <2>1 DEF ExactInv, Given
<1>14. ~(NextEvent \/ NextEnds \/ StartCancel \/ CancelLoaded)
  BY DEF Live, NextEvent, NextEnds, StartCancel, CancelLoaded
<1> QED BY <1>4, <1>5, <1>6, <1>7, <1>8, <1>9, <1>10, <1>11, <1>12, <1>13, <1>14
        DEF Next, NextSteps, WriterSteps, CancelSteps

-----------------------------------------------------------------------------
(* exec() collects everything and closes everything.                       *)

\* The steps of exec() that collect nothing.
LEMMA CollectNothing ==
  ASSUME TypeOK, SessionInv, CollectInv, exec # "none",
         UNCHANGED <<events, collected>>, UNCHANGED current \/ OpenNew,
         Exited => iterator' \in {"idle", "next", "over"}
  PROVE  CollectInv'
<1>1. Exited' <=> Exited
  BY DEF Exited
<1>2. CASE UNCHANGED current
  BY <1>1, <1>2 DEF CollectInv
<1>3. CASE OpenNew
  <2>1. current = 1 /\ current' = 2 /\ ~Exited
    BY <1>3 DEF OpenNew, SessionInv, CollectInv
  <2> QED BY <1>1, <2>1 DEF CollectInv
<1> QED BY <1>2, <1>3

LEMMA CollectStep ==
  ASSUME TypeOK, ExecTypeOK, SessionInv, ExecInv, CollectInv,
         [ProgramNext]_<<vars, bufferVars>>
  PROVE  CollectInv'
<1> USE DEF innerVars, fieldVars, iterVars, callVars
<1>1. CASE exec = "none"
  <2>1. exec' = "none"
    BY <1>1 DEF ProgramNext, bufferVars, ExecInput, Collect, ExecNext, ExecEnds, ExecCancel,
       ExecClose
  <2> QED BY <2>1 DEF CollectInv
<1>2. CASE exec # "none" /\ (ExecInput \/ ExecCancel \/ ExecClose \/ TokenExpires \/ ExecEnds)
           /\ UNCHANGED collected
  <2>1. UNCHANGED <<events, current>> /\ iterator' \in {iterator, "over"}
    BY <1>2 DEF ExecInput, StartInput, CallInput, NoteInput, ExecCancel, StartCancel,
       CancelLoaded, ExecClose, TokenExpires, ExecEnds, NextEnds
  <2>2. Exited => iterator' \in {"idle", "next", "over"}
    BY <1>2, <2>1 DEF CollectInv
  <2> QED BY <1>2, <2>1, <2>2, CollectNothing
<1>3. CASE ExecNext
  <2>1. exec # "none" /\ UNCHANGED <<events, collected>> /\ (UNCHANGED current \/ OpenNew)
    BY <1>3 DEF ExecNext, CallNext, CloseOld, Refresh, Replay, ReplayDone, NextRejected, OpenNew
  <2>2. Exited => iterator' \in {"idle", "next", "over"}
    <3>1. Exited => iterator \in {"idle", "next", "over"}
      BY <2>1 DEF CollectInv
    <3> QED BY <1>3, <3>1 DEF ExecNext, CallNext, CloseOld, Refresh, Replay, ReplayDone, OpenNew
  <2> QED BY <2>1, <2>2, CollectNothing
<1>4. CASE Collect
  <2>1. PICK exit \in BOOLEAN :
            collected' = Append(collected, [session |-> current, n |-> events'[current],
                                            exit |-> exit])
    BY <1>4 DEF Collect
  <2> DEFINE e == [session |-> current, n |-> events'[current], exit |-> exit]
             all == events[1] + events[2]
  <2>2. /\ exec = "iterate" /\ ~Exited /\ UNCHANGED <<current, exec>> /\ iterator' = "idle"
        /\ events' = [events EXCEPT ![current] = @ + 1] /\ current \in {1, 2}
        /\ events[1] \in Nat /\ events[2] \in Nat /\ collected \in Seq(Events)
    BY <1>4, RefreshAssumption DEF Collect, NextEvent, ExecTypeOK, TypeOK, Sessions
  <2>3. e \in Events /\ events'[current] = events[current] + 1
    <3>1. events'[current] = events[current] + 1 /\ events'[current] \in 1..MaxEvents
      BY <1>4, <2>2, RefreshAssumption DEF Collect, NextEvent, TypeOK, Sessions
    <3> QED BY <2>2, <3>1 DEF Events, Sessions
  <2>4. /\ Len(collected) = all /\ Len(collected') = all + 1
        /\ \A i \in DOMAIN collected : collected'[i] = collected[i] /\ i <= all
        /\ collected'[all + 1] = e /\ DOMAIN collected' = 1..(all + 1)
        /\ DOMAIN collected = 1..all
    BY <2>1, <2>2, <2>3 DEF CollectInv
  <2>5. /\ \A i \in DOMAIN collected : /\ collected[i].session = IF i <= events[1] THEN 1 ELSE 2
                                       /\ collected[i].n = IF i <= events[1] THEN i
                                                                             ELSE i - events[1]
                                       /\ ~collected[i].exit
        /\ current = 1 => events[2] = 0
    BY <2>2 DEF CollectInv, Exited
  <2>6. /\ events'[1] + events'[2] = all + 1
        /\ current = 1 => events'[2] = 0 /\ events'[1] = all + 1
        /\ current = 2 => events'[1] = events[1] /\ events'[2] = events[2] + 1
        /\ events'[1] \in Nat
    BY <2>2, <2>5 DEF TypeOK, Sessions
  <2>7. /\ e.session = IF all + 1 <= events'[1] THEN 1 ELSE 2
        /\ e.n = IF all + 1 <= events'[1] THEN all + 1 ELSE all + 1 - events'[1]
    BY <2>2, <2>3, <2>5, <2>6
  <2> HIDE DEF e, all
  <2>8. ASSUME NEW i \in DOMAIN collected'
        PROVE  /\ collected'[i].session = IF i <= events'[1] THEN 1 ELSE 2
               /\ collected'[i].n = IF i <= events'[1] THEN i ELSE i - events'[1]
               /\ collected'[i].exit => i = all + 1
    <3>1. CASE i = all + 1
      <4>1. collected'[i] = e
        BY <2>4, <3>1
      <4>2. all \in Nat /\ events'[1] \in Nat
        BY <2>2, <2>6 DEF all
      <4> QED BY <2>7, <3>1, <4>1, <4>2
    <3>2. CASE i \in DOMAIN collected
      <4>1. i <= events'[1] <=> i <= events[1]
        BY <2>2, <2>4, <2>5, <2>6, <3>2 DEF all
      <4>2. collected'[i] = collected[i]
        BY <2>4, <3>2
      <4>3. ~(i <= events[1]) => events'[1] = events[1]
        BY <2>2, <2>4, <2>5, <2>6, <3>2 DEF all
      <4> QED BY <2>5, <3>2, <4>1, <4>2, <4>3
    <3>3. i = all + 1 \/ i \in DOMAIN collected
      BY <2>2, <2>4 DEF all
    <3> QED BY <3>1, <3>2, <3>3
  <2>9. events'[current'] > 0
    BY <2>2, <2>3
  <2> QED BY <2>2, <2>4, <2>6, <2>8, <2>9 DEF CollectInv
<1>5. CASE UNCHANGED <<vars, bufferVars>>
  <2>1. UNCHANGED <<events, current, collected, exec, iterator>>
    BY <1>5 DEF vars, bufferVars
  <2> QED BY <2>1 DEF CollectInv, Exited
<1> QED BY <1>1, <1>2, <1>3, <1>4, <1>5
        DEF ProgramNext, bufferVars, ExecInput, ExecCancel, ExecClose, ExecEnds

LEMMA EndStep ==
  ASSUME TypeOK, ExecTypeOK, SessionInv, ExecInv, EndInv, [ProgramNext]_<<vars, bufferVars>>
  PROVE  EndInv'
<1> USE DEF innerVars, fieldVars, iterVars, callVars
<1>1. /\ shut \in [Sessions -> BOOLEAN] /\ 1 \in Sessions /\ current \in Sessions
      /\ \A s \in Sessions : shut[s] => shut'[s]
  <2>1. \/ shut' = shut
        \/ \E s \in Sessions : shut' = [shut EXCEPT ![s] = TRUE]
    BY DEF ProgramNext, vars, ExecInput, Collect, ExecNext, ExecEnds, ExecCancel, ExecClose,
       Next, NextSteps, WriterSteps, CancelSteps, CallNext, NextEvent, NextEnds, NextRejected,
       CloseOld, Refresh, OpenNew, Replay, ReplayDone, StartInput, CallInput, NoteInput,
       StartCancel, CancelLoaded, TokenExpires, TypeOK, Sessions
  <2> QED BY <2>1 DEF TypeOK, Sessions
<1>2. (iterator' \in {"refresh", "open"} \/ current' = 2) => shut'[1]
  <2>1. CASE CloseOld
    BY <1>1, <2>1 DEF CloseOld, SessionInv, TypeOK, Sessions
  <2>2. ~CloseOld => \/ iterator \in {"refresh", "open"} \/ current = 2
                     \/ ~(iterator' \in {"refresh", "open"} \/ current' = 2)
    BY DEF ProgramNext, vars, ExecInput, Collect, ExecNext, ExecEnds, ExecCancel, ExecClose,
       Next, NextSteps, WriterSteps, CancelSteps, CallNext, NextEvent, NextEnds, NextRejected,
       Refresh, OpenNew, Replay, ReplayDone, StartInput, CallInput, NoteInput,
       StartCancel, CancelLoaded, TokenExpires
  <2> QED BY <1>1, <2>1, <2>2 DEF EndInv
<1>3. exec' = "over" => shut'[current']
  <2>1. CASE ExecClose
    BY <1>1, <2>1 DEF ExecClose
  <2>2. ~ExecClose /\ exec' = "over" => exec = "over" /\ current' = current
    BY DEF ProgramNext, vars, bufferVars, ExecInput, Collect, ExecNext, ExecEnds, ExecCancel,
       TokenExpires, Next
  <2> QED BY <1>1, <2>1, <2>2 DEF EndInv
<1>4. outcome' = "returned" => exec' \in {"close", "over"} /\ Exited'
  <2>1. CASE ExecEnds
    BY <2>1 DEF ExecEnds, Exited
  <2>2. ~ExecEnds /\ outcome' = "returned" =>
            outcome = "returned" /\ collected' = collected /\ exec' \in {exec, "over"}
    BY DEF EndInv, ProgramNext, vars, bufferVars, ExecInput, Collect, ExecNext, ExecCancel,
       ExecClose, TokenExpires, Next
  <2> QED BY <2>1, <2>2 DEF EndInv, Exited
<1> QED BY <1>2, <1>3, <1>4 DEF EndInv

-----------------------------------------------------------------------------
(* The theorems.                                                           *)

\* The whole invariant.
FullInv == IInv /\ ExecTypeOK /\ ExecInv /\ ExactInv /\ CollectInv /\ EndInv

LEMMA FullInit == ExecInit => FullInv
<1> SUFFICES ASSUME ExecInit PROVE FullInv
  OBVIOUS
<1>1. Types /\ Init
  BY TypesInit DEF ExecInit
<1>2. IInv
  BY <1>1, RefreshAssumption DEF Init, IInv, SessionInv, InputInv, ReplayInv, Idle, Sessions
<1>3. ExecTypeOK /\ ExecInv
  BY <1>1 DEF Types, ExecInit, Init, ExecTypeOK, ExecSteps, ExecInv
<1>4. ExactInv
  <2>1. /\ writer.at = "idle" /\ iterator = "idle" /\ current = 1 /\ ~refreshed /\ ~shut[1]
        /\ ~shut[2] /\ Given = <<>> /\ accepted[1] = <<>>
    BY <1>1, IdleWriter DEF Init, Given, Sessions
  <2> QED BY <2>1 DEF ExactInv, Took
<1>5. CollectInv /\ EndInv
  BY <1>1 DEF ExecInit, Init, CollectInv, EndInv, Exited, Sessions
<1> QED BY <1>2, <1>3, <1>4, <1>5 DEF FullInv

LEMMA FullStep == FullInv /\ [ProgramNext]_<<vars, bufferVars>> => FullInv'
<1> SUFFICES ASSUME FullInv, [ProgramNext]_<<vars, bufferVars>> PROVE FullInv'
  OBVIOUS
<1>1. /\ Types /\ TypeOK /\ SessionInv /\ InputInv /\ ReplayInv
      /\ ExecTypeOK /\ ExecInv /\ ExactInv /\ CollectInv /\ EndInv
  BY DEF FullInv, IInv, Types
<1>2. IInv'
  BY <1>1, ProgramSteps, TypesStep, SessionStep, InputStep DEF IInv
<1>3. ExecTypeOK' /\ ExecInv'
  BY <1>1, ExecTypesStep, ExecInvStep
<1>4. ExactInv'
  <2>1. CASE Live'
    BY <1>1, <2>1, LiveStep, ExactStep
  <2>2. CASE ~Live'
    BY <2>2 DEF ExactInv
  <2> QED BY <2>1, <2>2
<1>5. CollectInv' /\ EndInv'
  BY <1>1, CollectStep, EndStep
<1> QED BY <1>2, <1>3, <1>4, <1>5 DEF FullInv

LEMMA Invariance == ProgramSpec => []FullInv
BY FullInit, FullStep, PTL DEF ProgramSpec

\* Every variable of the wrapper and of exec() has its type.
THEOREM TypeCorrect == ProgramSpec => []ExecTypeOK
<1>1. FullInv => ExecTypeOK
  BY DEF FullInv
<1> QED BY <1>1, Invariance, PTL

\* The replay and a writing thread never give the second session one input twice.
THEOREM NoInputTwice == ProgramSpec => []NoDuplicateInput
<1>1. FullInv => NoDuplicateInput
  BY DEF FullInv, IInv, InputInv, NoDuplicateInput
<1> QED BY <1>1, Invariance, PTL

\* Only the first session is ever replaced.
THEOREM RefreshedOnce == ProgramSpec => OneRefresh
<1>1. FullInv /\ [ProgramNext]_<<vars, bufferVars>> =>
          [iterator = "close" /\ iterator' = "refresh" => current = 1]_vars
  BY DEF FullInv, IInv, SessionInv
<1> QED BY <1>1, Invariance, PTL DEF ProgramSpec, OneRefresh

\* One thread's inputs reach the second session as they reached the first.
THEOREM ExactReplay == ProgramSpec => []ReplayIsExact
<1>1. FullInv => ReplayIsExact
  BY DEF FullInv, ExecInv, ExactInv, Live, ReplayIsExact
<1> QED BY <1>1, Invariance, PTL

\* What exec() returns is all its command answered, and it leaves no session open.
THEOREM ResultIsWhole == ProgramSpec => []ExecIsWhole
<1> SUFFICES FullInv => ExecIsWhole
  BY Invariance, PTL
<1> SUFFICES ASSUME FullInv PROVE ExecIsWhole
  OBVIOUS
<1>1. /\ events[1] \in Nat /\ events[2] \in Nat /\ current \in {1, 2}
      /\ collected \in Seq(Events)
      /\ CollectInv /\ EndInv
  BY RefreshAssumption DEF FullInv, ExecTypeOK, TypeOK, Sessions
<1>2. ASSUME outcome = "returned"
      PROVE  /\ events[current] \in 1..Len(collected)
             /\ \A i \in DOMAIN collected :
                   /\ collected[i].session = current <=> i > Before
                   /\ i > Before => collected[i].n = i - Before
                   /\ collected[i].exit <=> i = Len(collected)
  <2>1. Exited /\ exec # "none"
    BY <1>1, <1>2 DEF EndInv
  <2>2. /\ Len(collected) = events[1] + events[2] /\ events[current] > 0
        /\ current = 1 => events[2] = 0
    BY <1>1, <2>1 DEF CollectInv
  <2>3. Before = IF current = 1 THEN 0 ELSE events[1]
    BY <1>1, <2>2 DEF Before
  <2>4. ASSUME NEW i \in DOMAIN collected
        PROVE  /\ collected[i].session = current <=> i > Before
               /\ i > Before => collected[i].n = i - Before
    <3>1. /\ collected[i].session = IF i <= events[1] THEN 1 ELSE 2
          /\ collected[i].n = IF i <= events[1] THEN i ELSE i - events[1]
          /\ i \in 1..(events[1] + events[2])
      BY <1>1, <2>1, <2>2 DEF CollectInv
    <3> QED BY <1>1, <2>2, <2>3, <3>1
  <2>5. \A i \in DOMAIN collected : collected[i].exit <=> i = Len(collected)
    <3>1. \A i \in DOMAIN collected : collected[i].exit => i = Len(collected)
      BY <1>1, <2>1 DEF CollectInv
    <3>2. collected[Len(collected)].exit
      BY <2>1, <3>1 DEF Exited
    <3> QED BY <3>1, <3>2
  <2> QED BY <1>1, <2>2, <2>4, <2>5
<1>3. ASSUME exec = "over" PROVE shut[current] /\ (current = 2 => shut[1])
  BY <1>1, <1>3 DEF EndInv
<1> QED BY <1>2, <1>3 DEF ExecIsWhole
=============================================================================
