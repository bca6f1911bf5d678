------------------------------- MODULE MCDeploy -------------------------------
EXTENDS Deploy

Setup(dialect, commands, pushed, timeouts, started, failed, edited) ==
  [dialect |-> dialect, commands |-> commands, pushed |-> pushed, timeouts |-> timeouts,
   maxRuns |-> started, maxFaults |-> failed, maxEdits |-> edited]

\* Deploys and downs on each engine; deploys and devs after a push; deploys that
\* fail half-way, and whose lock times out, on MySQL.
MCSetups ==
  {Setup("postgresql", {"deploy", "down"}, {}, FALSE, 3, 1, 0),
   Setup("postgresql", {"deploy", "down"}, {}, FALSE, 2, 1, 1),
   Setup("sqlite", {"deploy", "down"}, {}, FALSE, 3, 1, 0),
   Setup("mysql", {"deploy", "down"}, {}, FALSE, 3, 0, 1),
   Setup("postgresql", {"deploy", "dev"}, {1}, FALSE, 2, 1, 1),
   Setup("mysql", {"deploy", "dev"}, {1}, FALSE, 2, 0, 0),
   Setup("mysql", {"deploy"}, {}, TRUE, 3, 2, 0)}

\* Two deploys on MySQL, the second of which does not get the lock in time.
TimeoutSetups == {Setup("mysql", {"deploy"}, {}, TRUE, 2, 0, 0)}
=============================================================================
