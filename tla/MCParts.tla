------------------------------- MODULE MCParts -------------------------------
(***************************************************************************)
(* The parts whose properties need no fairness: the transfers between        *)
(* engines, the SQL change feeds, the metrics, the accounts and the explorer *)
(* of tables.  They share no state, so a behaviour looks at one of them.     *)
(***************************************************************************)
EXTENDS MCConversion, Feed, Metrics, Accounts, Browse

CONSTANTS v1, v2, k1

VARIABLE focus

MCPair == {v1, v2}
MCChosen == {v1}
\* The one case the other parts leave the transfer at.
Plain(c) ==
  c.family = "keys" /\ c.from = "mongodb" /\ c.to = "mongodb" /\ c.cols[1].type = "string"

\* Idle servers, busy ones, and ones with everything there is to report.
Resting(e) ==
  [engine |-> e, sessions |-> 0, max |-> None, uptime |-> 0, transactions |-> 0, questions |-> 0,
   hits |-> 0, misses |-> 0, replica |-> FALSE, lag |-> None]
Busy(e) ==
  [Resting(e) EXCEPT !.uptime = 2, !.transactions = 4, !.questions = 8, !.hits = 1, !.max = 4,
                     !.replica = TRUE]
Full(e) ==
  [Resting(e) EXCEPT !.uptime = 2, !.sessions = 2, !.hits = 1, !.misses = 3, !.max = 2,
                     !.replica = TRUE, !.lag = 3]
MCStatus == UNION {{Resting(e), Busy(e), Full(e)} : e \in {"postgres", "mysql"}}

MCInit ==
  /\ focus \in {"transfer", "feed", "metrics", "accounts", "browse"}
  /\ TransferInit /\ FeedInit /\ MetricsInit /\ AccountsInit /\ BrowseInit
  /\ focus # "transfer" => Plain(case)
  \* One reason to skip at a time: nothing is said of a feed that has both.
  /\ feed.rows > 1 => feed.paced
  /\ focus # "feed" => feed = [engine |-> "mysql", paced |-> TRUE, rows |-> 1]
  /\ focus # "metrics" => server = Resting("mysql")
  /\ focus # "browse" => sorted = "key"

MCNext ==
  \/ focus = "transfer" /\ TransferNext /\ UNCHANGED <<focus, feedVars, metricsVars, accountVars, browseVars>>
  \/ focus = "feed" /\ FeedNext /\ UNCHANGED <<focus, transferVars, metricsVars, accountVars, browseVars>>
  \/ focus = "metrics" /\ MetricsNext /\ UNCHANGED <<focus, transferVars, feedVars, accountVars, browseVars>>
  \/ focus = "accounts" /\ AccountsNext /\ UNCHANGED <<focus, transferVars, feedVars, metricsVars, browseVars>>
  \/ focus = "browse" /\ BrowseNext
     /\ UNCHANGED <<focus, transferVars, feedVars, metricsVars, accountVars>>

MCSpec == MCInit /\ [][MCNext]_<<focus, transferVars, feedVars, metricsVars, accountVars, browseVars>>

MCTypeOK == TransferTypeOK /\ FeedTypeOK /\ MetricsTypeOK /\ AccountsTypeOK /\ BrowseTypeOK
=============================================================================
