---------------------------- MODULE BufferedExec ----------------------------
(***************************************************************************)
(* Sandbox.exec of src/tyto/_sandbox.py: one program of RefreshableExec,   *)
(* which writes the input, closes stdin, collects what next() answers into *)
(* the two buffers of the result and cancels the session when the          *)
(* iteration raises; the with statement closes it.  A program that uses    *)
(* exec_stream() itself does the calls of RefreshableExec in any order.    *)
(***************************************************************************)
EXTENDS RefreshableExec

VARIABLES
    exec,       \* where exec() is; "none" in another program
    collected,  \* events it was answered: their session, number, whether Exit
    outcome     \* of exec(): "none", "returned" or "raised"

bufferVars == <<exec, collected, outcome>>

-----------------------------------------------------------------------------
Events == [session : Sessions, n : 1..MaxEvents, exit : BOOLEAN]
ExecSteps == {"none", "write", "closeStdin", "iterate", "cancel", "close", "over"}

\* terminal is not None
Exited == \E i \in DOMAIN collected : collected[i].exit

\* The input is optional; without one stdin stays open.
ExecInit ==
    /\ Init
    /\ exec \in {"none", "write", "iterate"} /\ (exec # "none" => ~concurrent)
    /\ collected = <<>> /\ outcome = "none"

\* session.write(input), session.close_stdin(): what a call raises leaves exec().
ExecInput ==
    /\ exec \in {"write", "closeStdin"}
    /\ \/ /\ StartInput
          /\ writer'.input.kind = IF exec = "write" THEN "data" ELSE "close"
          /\ UNCHANGED <<exec, outcome>>
       \/ /\ CallInput
          /\ IF writer'.at = "idle" THEN exec' = "close" /\ outcome' = "raised"
                                    ELSE UNCHANGED <<exec, outcome>>
       \/ /\ NoteInput
          /\ exec' = IF exec = "write" THEN "closeStdin" ELSE "iterate"
          /\ UNCHANGED outcome
    /\ UNCHANGED collected

\* An event goes into a buffer; Exit is the last one of its session.
Collect ==
    /\ exec = "iterate" /\ ~Exited
    /\ NextEvent
    /\ \E exit \in BOOLEAN :
          collected' = Append(collected, [session |-> current, n |-> events'[current],
                                          exit |-> exit])
    /\ UNCHANGED <<exec, outcome>>

\* The other steps of next(): what it raises makes exec() cancel the session.
ExecNext ==
    /\ exec = "iterate"
    /\ \/ CallNext \/ CloseOld \/ Refresh \/ OpenNew \/ Replay \/ ReplayDone
       \/ ~Exited /\ NextRejected
    /\ IF iterator' = "over" THEN exec' = "cancel" /\ outcome' = "raised"
                             ELSE UNCHANGED <<exec, outcome>>
    /\ UNCHANGED collected

\* StopIteration: a result, or an error when there was no Exit.  Any other end of
\* the iteration is raised after a cancel.
ExecEnds ==
    /\ exec = "iterate"
    /\ NextEnds
    /\ \/ exec' = "close" /\ outcome' = IF Exited THEN "returned" ELSE "raised"
       \/ exec' = "cancel" /\ outcome' = "raised"
    /\ UNCHANGED collected

ExecCancel ==
    /\ exec = "cancel"
    /\ \/ StartCancel /\ UNCHANGED exec
       \/ CancelLoaded /\ exec' = "close"
    /\ UNCHANGED <<collected, outcome>>

\* __exit__ of the with statement.
ExecClose ==
    /\ exec = "close"
    /\ shut' = [shut EXCEPT ![current] = TRUE]
    /\ exec' = "over"
    /\ UNCHANGED <<concurrent, current, accepted, dead, events, fieldVars, iterVars,
                   callVars, collected, outcome>>

-----------------------------------------------------------------------------
ProgramNext ==
    \/ exec = "none" /\ Next /\ UNCHANGED bufferVars
    \/ exec # "none" /\ TokenExpires /\ UNCHANGED bufferVars
    \/ ExecInput \/ Collect \/ ExecNext \/ ExecEnds \/ ExecCancel \/ ExecClose

ProgramSpec == ExecInit /\ [][ProgramNext]_<<vars, bufferVars>>

-----------------------------------------------------------------------------
\* How much is collected of the commands before the last one, the one an exec() answers
\* for.
Before == Len(collected) - events[current]

\* A result holds all that the command answered, in order, behind what an earlier one
\* answered, and its only Exit is the last of it; and when exec() is over, returned or
\* raised, it has shut every session it opened, so that no command of it runs on.
ExecIsWhole ==
    /\ outcome = "returned" =>
          /\ events[current] \in 1..Len(collected)
          /\ \A i \in DOMAIN collected :
                /\ collected[i].session = current <=> i > Before
                /\ i > Before => collected[i].n = i - Before
                /\ collected[i].exit <=> i = Len(collected)
    /\ exec = "over" => shut[current] /\ (current = 2 => shut[1])

ExecTypeOK ==
    /\ TypeOK
    /\ exec \in ExecSteps /\ outcome \in {"none", "returned", "raised"}
    /\ collected \in Seq(Events)
=============================================================================
