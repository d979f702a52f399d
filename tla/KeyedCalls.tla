----------------------------- MODULE KeyedCalls -----------------------------
(***************************************************************************)
(* What the unary calls of the control plane promise the program that      *)
(* makes them.  A call is a piece of work, or the repetition of one that   *)
(* raised, with the key that error carried.  The service does the work of  *)
(* a call once, at any time after it was made, or never; with a key it is  *)
(* done once in an organization, for all the calls that share it.  A call  *)
(* returns only when its work was done, and one whose time or retries ran  *)
(* out lets the program repeat it, if its kind says so.  Attempts,         *)
(* requests on their way and what the service remembers are the business   *)
(* of ControlPlane, which implements this module.                          *)
(***************************************************************************)
EXTENDS Naturals

CONSTANTS Calls, Kinds, Orgs,
          KeyedKinds,      \* kinds of calls with a key
          JoinableKinds    \* those whose errors carry it when time or retries ran out

VARIABLES status,     \* "idle", "open", "returned" or "raised"
          kind,       \* the kind of each call
          work,       \* the call whose work it is to do: itself, or one it repeats
          ranOut,     \* the deadline passed, or no retry was left
          joinable,   \* the error carries the key
          times       \* how often the work of a call was done, by organization

vars == <<status, kind, work, ranOut, joinable, times>>

Init ==
    /\ status = [c \in Calls |-> "idle"] /\ kind \in [Calls -> Kinds]
    /\ work = [c \in Calls |-> c]
    /\ ranOut = [c \in Calls |-> FALSE] /\ joinable = [c \in Calls |-> FALSE]
    /\ times = [c \in Calls |-> [o \in Orgs |-> 0]]

Begin(c) ==
    /\ status[c] = "idle"
    /\ status' = [status EXCEPT ![c] = "open"]
    /\ \E k \in Kinds : kind' = [kind EXCEPT ![c] = k]
    /\ UNCHANGED <<work, ranOut, joinable, times>>

Repeat(c, d) ==
    /\ status[c] = "idle" /\ status[d] = "raised" /\ joinable[d]
    /\ status' = [status EXCEPT ![c] = "open"]
    /\ kind' = [kind EXCEPT ![c] = kind[d]]
    /\ work' = [work EXCEPT ![c] = work[d]]
    /\ UNCHANGED <<ranOut, joinable, times>>

\* Also after the call has returned or raised.
Do(c, o) ==
    /\ status[c] # "idle"
    /\ kind[c] \in KeyedKinds => times[work[c]][o] = 0
    /\ times' = [times EXCEPT ![work[c]][o] = @ + 1]
    /\ UNCHANGED <<status, kind, work, ranOut, joinable>>

Return(c) ==
    /\ status[c] = "open" /\ \E o \in Orgs : times[work[c]][o] > 0
    /\ status' = [status EXCEPT ![c] = "returned"]
    /\ UNCHANGED <<kind, work, ranOut, joinable, times>>

Raise(c) ==
    /\ status[c] = "open"
    /\ status' = [status EXCEPT ![c] = "raised"]
    /\ \E out, carriesKey \in BOOLEAN :
          /\ carriesKey => kind[c] \in KeyedKinds
          /\ out /\ kind[c] \in JoinableKinds => carriesKey
          /\ ranOut' = [ranOut EXCEPT ![c] = out]
          /\ joinable' = [joinable EXCEPT ![c] = carriesKey]
    /\ UNCHANGED <<kind, work, times>>

Next == \E c \in Calls : \/ Begin(c) \/ Return(c) \/ Raise(c)
                         \/ \E d \in Calls : Repeat(c, d)
                         \/ \E o \in Orgs : Do(c, o)

Spec == Init /\ [][Next]_vars
=============================================================================
