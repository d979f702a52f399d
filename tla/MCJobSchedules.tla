--------------------------- MODULE MCJobSchedules ---------------------------
\* JobSchedules for TLC: the schedules other clients store, one of a newer SDK
\* and with a network policy.
EXTENDS JobSchedules

Hourly   == [cron |-> 0, interval |-> 1, runAt |-> 0, overlap |-> 2, paused |-> FALSE, rest |-> 0]
Nightly  == [cron |-> 1, interval |-> 0, runAt |-> 0, overlap |-> 4, paused |-> FALSE, rest |-> 1]
Keeping  == [existing |-> 0, new |-> 1, cmd |-> 1, script |-> 0, disposition |-> 2, network |-> 0,
             rest |-> 0]
Newer    == [existing |-> 0, new |-> 1, cmd |-> 0, script |-> 1, disposition |-> 3, network |-> 1,
             rest |-> 1]
Schedules_ == {[timing |-> Hourly, spec |-> Keeping], [timing |-> Nightly, spec |-> Newer]}
=============================================================================
