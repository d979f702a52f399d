---------------------------- MODULE ChannelPool ----------------------------
(***************************************************************************)
(* ChannelPool of src/tyto/_transport.py: the gRPC channels of one client, *)
(* one per endpoint, shared by every handle and thread.  get() and the     *)
(* first half of close() run under _lock and are one step each; close()    *)
(* closes the channels it has taken after it has released the lock.        *)
(* There is at most one channel per endpoint, so an endpoint names it.     *)
(***************************************************************************)
EXTENDS Naturals

CONSTANTS Threads,      \* caller threads
          Endpoints     \* endpoints channels are opened to

VARIABLES
    poolClosed,     \* _closed
    channels,       \* keys of _channels
    live,           \* endpoints with a channel that is open
    closing         \* closing[t]: what thread t's close() has still to close

poolVars == <<poolClosed, channels, live, closing>>

PoolInit(open) ==
    /\ poolClosed = FALSE /\ channels = open /\ live = open
    /\ closing = [t \in Threads |-> {}]

PoolTypeOK ==
    /\ poolClosed \in BOOLEAN
    /\ channels \subseteq Endpoints /\ live \subseteq Endpoints
    /\ closing \in [Threads -> SUBSET Endpoints]

\* (Mutant: get() does not look at _closed.)
MayGetAlways == TRUE

\* get() raises once the pool is closed.
MayGet == ~poolClosed

\* get: the channel of the endpoint, opened when there is none.
Get(e) ==
    /\ MayGet
    /\ channels' = channels \cup {e}
    /\ live' = live \cup (IF e \in channels THEN {} ELSE {e})
    /\ UNCHANGED <<poolClosed, closing>>

\* close, under the lock: a second close() finds _closed set and returns.
BeginClose(t) ==
    /\ ~poolClosed /\ closing[t] = {}
    /\ poolClosed' = TRUE
    /\ closing' = [closing EXCEPT ![t] = channels]
    /\ channels' = {}
    /\ UNCHANGED live

\* close, outside the lock: one channel after the other.
CloseChannel(t) ==
    \E e \in closing[t] :
        /\ live' = live \ {e}
        /\ closing' = [closing EXCEPT ![t] = @ \ {e}]
        /\ UNCHANGED <<poolClosed, channels>>

\* A closed pool leaves no channel open: whatever the handles of other threads
\* ask for while close() runs, once it is done nothing is open any more.
NoChannelLeft ==
    poolClosed /\ (\A t \in Threads : closing[t] = {}) => live = {}

\* The inductive invariant behind it: every open channel can still be closed.
ChannelsAreKept ==
    /\ poolClosed => channels = {}
    /\ \A e \in live : e \in channels \/ \E t \in Threads : e \in closing[t]
=============================================================================
