---------------------------- MODULE JobLifecycle ----------------------------
(***************************************************************************)
(* What internal/mustgather promises a client about a gather job, without  *)
(* goroutines, contexts, commands or files: an accepted job runs until it  *)
(* completes or fails, once and for good; its entry is kept while it runs  *)
(* and for Retention after its start, and only a restart of the process    *)
(* takes it away earlier; only the archive of a completed job is ever      *)
(* handed out.                                                             *)
(***************************************************************************)
EXTENDS Integers

CONSTANTS
  Jobs,
  Retention   \* how long an entry is kept, counted from the job's start

VARIABLES
  now,        \* the clock
  status,     \* [Jobs -> {"none", "running", "complete", "failed"}]
  startedAt,  \* [Jobs -> Nat], meaningful once accepted
  listed,     \* the jobs that clients can ask about
  delivered   \* the jobs whose archive a client has received

lifecycle == <<now, status, startedAt, listed, delivered>>

Init ==
  /\ now = 0
  /\ status = [j \in Jobs |-> "none"]
  /\ startedAt = [j \in Jobs |-> 0]
  /\ listed = {}
  /\ delivered = {}

Accept(j) ==
  /\ status[j] = "none"
  /\ status' = [status EXCEPT ![j] = "running"]
  /\ startedAt' = [startedAt EXCEPT ![j] = now]
  /\ listed' = listed \cup {j}
  /\ UNCHANGED <<now, delivered>>

Finish(j, outcome) ==
  /\ j \in listed
  /\ status[j] = "running"
  /\ status' = [status EXCEPT ![j] = outcome]
  /\ UNCHANGED <<now, startedAt, listed, delivered>>

Forget(gone) ==
  /\ gone # {} /\ gone \subseteq listed
  /\ \A j \in gone : status[j] # "running" /\ startedAt[j] + Retention < now
  /\ listed' = listed \ gone
  /\ UNCHANGED <<now, status, startedAt, delivered>>

(* A download that was granted may outlive the entry.                      *)
Deliver(j) ==
  /\ status[j] = "complete"
  /\ delivered' = delivered \cup {j}
  /\ UNCHANGED <<now, status, startedAt, listed>>

Restart ==
  /\ listed' = {}
  /\ UNCHANGED <<now, status, startedAt, delivered>>

Tick ==
  /\ now' = now + 1
  /\ UNCHANGED <<status, startedAt, listed, delivered>>

Next ==
  \/ \E j \in Jobs : Accept(j) \/ Deliver(j)
  \/ \E j \in Jobs, outcome \in {"complete", "failed"} : Finish(j, outcome)
  \/ \E gone \in SUBSET Jobs : Forget(gone)
  \/ Restart
  \/ Tick

Spec == Init /\ [][Next]_lifecycle
=============================================================================
