-------------------------- MODULE RemoteLifecycle --------------------------
(***************************************************************************)
(* What the hub promises about remote gathers, with no agent, no network   *)
(* and no files: a job is registered once, moves forward through its       *)
(* phases while it is listed, and never comes back when it was deleted or  *)
(* forgotten.  Once it is being anonymized it cannot fail any more.        *)
(***************************************************************************)
CONSTANT Tasks

VARIABLES
  phase,   \* the phase of each job, "none" before it is registered
  listed   \* the jobs that clients see

Moves ==
  {<<"gathering", "downloading">>, <<"gathering", "failed">>,
   <<"downloading", "anonymizing">>, <<"downloading", "complete">>,
   <<"downloading", "failed">>, <<"anonymizing", "complete">>}

Init ==
  /\ phase = [t \in Tasks |-> "none"]
  /\ listed = {}

Register(t) ==
  /\ phase[t] = "none"
  /\ phase' = [phase EXCEPT ![t] = "gathering"]
  /\ listed' = listed \cup {t}

Move(t) ==
  /\ t \in listed
  /\ \E m \in Moves : phase[t] = m[1] /\ phase' = [phase EXCEPT ![t] = m[2]]
  /\ UNCHANGED listed

Delete(t) ==
  /\ t \in listed
  /\ listed' = listed \ {t}
  /\ UNCHANGED phase

Restart ==
  /\ listed' = {}
  /\ UNCHANGED phase

Next ==
  \/ \E t \in Tasks : Register(t) \/ Move(t) \/ Delete(t)
  \/ Restart

Spec == Init /\ [][Next]_<<phase, listed>>
=============================================================================
