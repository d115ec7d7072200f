------------------------------ MODULE MCEngine -------------------------------
(* Instances of Engine for TLC: configurations of small runs.              *)
EXTENDS Engine

CONSTANTS b1, b2, p1, p2   \* model values: bot ids and proxies

Two == {b1, b2}

Plain == [authorized |-> TRUE, skipPreflight |-> FALSE, driver |-> "light",
          proxies |-> <<>>, maxPerProxy |-> 1, reconnect |-> TRUE, maxRetries |-> 1,
          microsoft |-> FALSE, accounts |-> 0, reports |-> TRUE]

\* No proxies: the ways run() can start, with and without reconnect, accounts
\* and a report to write; and full clients, which emit `connected` with every
\* join-game packet.
DirectConfigs ==
  {Plain,
   [Plain EXCEPT !.authorized = FALSE],
   [Plain EXCEPT !.skipPreflight = TRUE, !.reconnect = FALSE],
   [Plain EXCEPT !.microsoft = TRUE, !.accounts = 2],
   [Plain EXCEPT !.microsoft = TRUE],
   [Plain EXCEPT !.driver = "full"]}

\* Proxies: fewer places than bots, a list that names the same proxy twice (so
\* that the pool has to pass over a full one, or has no other), and with and
\* without reports, so that the shutdown may throw, or not.
ProxiedConfigs ==
  {[Plain EXCEPT !.proxies = <<p1, p1, p2>>],
   [Plain EXCEPT !.proxies = <<p1>>],
   [Plain EXCEPT !.proxies = <<p1, p1>>, !.maxRetries = 0],
   [Plain EXCEPT !.proxies = <<p1>>, !.maxPerProxy = 2, !.reports = FALSE]}

AllConfigs == DirectConfigs \cup ProxiedConfigs

\* A run that pings its target before it starts.
StopConfigs == {[Plain EXCEPT !.reports = FALSE]}

\* One place on one proxy, and a bot that is given up when it is lost.
LeakConfigs == {[Plain EXCEPT !.proxies = <<p1>>, !.maxRetries = 0]}
=============================================================================
