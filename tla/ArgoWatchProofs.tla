-------------------------- MODULE ArgoWatchProofs --------------------------
(***************************************************************************)
(* Proofs about ArgoWatch, for any set of applications and any limit.      *)
(* TypeOK, DriftIsUnbroken and DeletionRestartsTime are each preserved by  *)
(* every step, the last two with the types as a hypothesis.                *)
(***************************************************************************)
EXTENDS ArgoWatch, TLAPS

Times == UNION {[S -> Ages] : S \in SUBSET Apps}
Shown == UNION {[S -> [status : Statuses, age : Ages]] : S \in SUBSET Apps}

(* A member of a union of function sets is a function on its domain.       *)
LEMMA TimesAreFunctions ==
  \A f \in Times : DOMAIN f \subseteq Apps /\ f \in [DOMAIN f -> Ages]
PROOF BY DEF Times

LEMMA ShownAreFunctions ==
  \A f \in Shown : /\ DOMAIN f \subseteq Apps
                  /\ f \in [DOMAIN f -> [status : Statuses, age : Ages]]
PROOF BY DEF Shown

LEMMA ListsAreFunctions ==
  \A f \in Lists : DOMAIN f \subseteq Apps /\ f \in [DOMAIN f -> Statuses]
PROOF BY DEF Lists

(* Growing older keeps the order of two ages and stays within the limit.   *)
LEMMA OlderIsMonotone ==
  ASSUME NEW x \in Ages, NEW y \in Ages
  PROVE  Older(x) \in Ages /\ (x <= y => Older(x) <= Older(y))
PROOF BY LimitAssumption DEF Ages, Older

LEMMA ZeroIsAnAge == 0 \in Ages /\ \A x \in Ages : 0 <= x
PROOF BY LimitAssumption DEF Ages

(* The type invariant holds at first and every step keeps it.              *)
LEMMA TypeInitially == Init => TypeOK
<1> SUFFICES ASSUME Init PROVE TypeOK OBVIOUS
<1>1. since \in Times /\ shown \in Shown
  <2>1. since \in [{} -> Ages] BY DEF Init
  <2>2. shown \in [{} -> [status : Statuses, age : Ages]] BY DEF Init
  <2> QED BY <2>1, <2>2 DEF Times, Shown
<1>2. poll \in [step : {"idle", "store"}, list : Lists, age : Ages] BY ZeroIsAnAge DEF Init
<1>3. sampled \in [Apps -> Ages] /\ forgotten \in [Apps -> Ages] BY ZeroIsAnAge DEF Init
<1> QED BY <1>1, <1>2, <1>3 DEF Init, TypeOK, Times, Shown

LEMMA StoredTimes ==
  ASSUME TypeOK, StorePoll
  PROVE  /\ since' \in [Drifted(poll.list) -> Ages] /\ Drifted(poll.list) \subseteq Apps
         /\ shown' \in [DOMAIN poll.list -> [status : Statuses, age : Ages]]
         /\ DOMAIN poll.list \subseteq Apps
<1>1. since \in [DOMAIN since -> Ages] BY TimesAreFunctions DEF TypeOK, Times
<1>2. poll.list \in Lists BY DEF TypeOK
<1>3. DOMAIN poll.list \subseteq Apps /\ poll.list \in [DOMAIN poll.list -> Statuses]
  BY <1>2, ListsAreFunctions
<1>4. since' \in [Drifted(poll.list) -> Ages] BY <1>1, ZeroIsAnAge DEF StorePoll
<1>5. \A a \in DOMAIN poll.list : (IF a \in DOMAIN since' THEN since'[a] ELSE 0) \in Ages
  BY <1>4, ZeroIsAnAge
<1>6. shown' \in [DOMAIN poll.list -> [status : Statuses, age : Ages]]
  BY <1>3, <1>5 DEF StorePoll
<1> QED BY <1>3, <1>4, <1>6 DEF Drifted

LEMMA TypePreserved == TypeOK /\ [Next]_vars => TypeOK'
<1> SUFFICES ASSUME TypeOK, [Next]_vars PROVE TypeOK' OBVIOUS
<1> USE DEF TypeOK
<1>1. CASE AppsChange BY <1>1 DEF AppsChange, clientVars
<1>2. CASE Tick
  <2>1. since' \in Times
    <3>1. since \in [DOMAIN since -> Ages] /\ DOMAIN since \subseteq Apps
      BY TimesAreFunctions DEF Times
    <3>2. since' \in [DOMAIN since -> Ages] BY <1>2, <3>1, OlderIsMonotone DEF Tick
    <3> QED BY <3>1, <3>2 DEF Times
  <2>2. shown' \in Shown
    <3>1. shown \in [DOMAIN shown -> [status : Statuses, age : Ages]] /\ DOMAIN shown \subseteq Apps
      BY ShownAreFunctions DEF Shown
    <3>2. \A a \in DOMAIN shown : [shown[a] EXCEPT !.age = Older(@)] \in [status : Statuses, age : Ages]
      <4> TAKE a \in DOMAIN shown
      <4>1. shown[a] \in [status : Statuses, age : Ages] BY <3>1
      <4>2. Older(shown[a].age) \in Ages BY <4>1, OlderIsMonotone
      <4> QED BY <4>1, <4>2
    <3>3. shown' \in [DOMAIN shown -> [status : Statuses, age : Ages]]
      BY <1>2, <3>2 DEF Tick
    <3> QED BY <3>1, <3>3 DEF Shown
  <2>3. poll' \in [step : {"idle", "store"}, list : Lists, age : Ages]
    BY <1>2, OlderIsMonotone DEF Tick
  <2>4. sampled' \in [Apps -> Ages] /\ forgotten' \in [Apps -> Ages]
    BY <1>2, OlderIsMonotone DEF Tick
  <2> QED BY <1>2, <2>1, <2>2, <2>3, <2>4 DEF Tick, Times, Shown
<1>3. CASE FetchArgoApps BY <1>3, ZeroIsAnAge DEF FetchArgoApps
<1>4. CASE StorePoll
  <2>1. since' \in Times /\ shown' \in Shown BY <1>4, StoredTimes DEF Times, Shown
  <2>2. poll' \in [step : {"idle", "store"}, list : Lists, age : Ages] BY <1>4 DEF StorePoll
  <2>3. sampled' \in [Apps -> Ages] BY <1>4 DEF StorePoll
  <2> QED BY <1>4, <2>1, <2>2, <2>3 DEF StorePoll, Times, Shown
<1>5. ASSUME NEW a \in Apps, DeleteApp(a) PROVE TypeOK'
  <2>1. [b \in DOMAIN live \ {a} |-> live[b]] \in Lists
    <3>1. live \in [DOMAIN live -> Statuses] /\ DOMAIN live \subseteq Apps BY ListsAreFunctions
    <3>2. [b \in DOMAIN live \ {a} |-> live[b]] \in [DOMAIN live \ {a} -> Statuses] BY <3>1
    <3> QED BY <3>1, <3>2 DEF Lists
  <2>2. live' \in Lists BY <1>5, <2>1 DEF DeleteApp
  <2> QED BY <1>5, <2>2 DEF DeleteApp, clientVars
<1>6. ASSUME NEW a \in Apps, ForgetApp(a) PROVE TypeOK'
  <2>1. since \in [DOMAIN since -> Ages] /\ DOMAIN since \subseteq Apps
    BY TimesAreFunctions DEF Times
  <2>2. since' \in [DOMAIN since \ {a} -> Ages] BY <1>6, <2>1 DEF ForgetApp
  <2>3. since' \in Times BY <2>1, <2>2 DEF Times
  <2>4. forgotten' \in [Apps -> Ages] BY <1>6, ZeroIsAnAge DEF ForgetApp
  <2> QED BY <1>6, <2>3, <2>4 DEF ForgetApp, Times
<1>7. ASSUME NEW a \in Apps, DeleteFails(a) PROVE TypeOK' BY <1>7 DEF DeleteFails, clientVars
<1>8. CASE UNCHANGED vars BY <1>8 DEF vars, clientVars
<1> QED BY <1>1, <1>2, <1>3, <1>4, <1>5, <1>6, <1>7, <1>8 DEF Next

(* Every reachable state is well typed.                                    *)
THEOREM ArgoTypeCorrect == Spec => []TypeOK
<1> QED BY TypeInitially, TypePreserved, PTL DEF Spec

(* A step keeps the reported times below the age of the last list without  *)
(* a drift: only StorePoll writes both, from one list.                     *)
LEMMA DriftPreserved ==
  TypeOK /\ DriftIsUnbroken /\ [Next]_vars => DriftIsUnbroken'
<1> SUFFICES ASSUME TypeOK, DriftIsUnbroken, [Next]_vars PROVE DriftIsUnbroken' OBVIOUS
<1> USE DEF DriftIsUnbroken
<1>a. since \in [DOMAIN since -> Ages] /\ DOMAIN since \subseteq Apps
  BY TimesAreFunctions DEF Times, TypeOK
<1>b. shown \in [DOMAIN shown -> [status : Statuses, age : Ages]] /\ DOMAIN shown \subseteq Apps
  BY ShownAreFunctions DEF Shown, TypeOK
<1>c. sampled \in [Apps -> Ages] BY DEF TypeOK
<1>1. CASE Tick
  <2>1. ASSUME NEW a \in DOMAIN since' PROVE since'[a] <= sampled'[a]
    <3>1. a \in DOMAIN since /\ since'[a] = Older(since[a]) /\ sampled'[a] = Older(sampled[a])
      BY <1>1, <2>1, <1>a DEF Tick
    <3> QED BY <3>1, <1>a, <1>c, OlderIsMonotone
  <2>2. ASSUME NEW a \in DOMAIN shown', shown'[a].status # "Synced" PROVE shown'[a].age <= sampled'[a]
    <3>1. /\ a \in DOMAIN shown /\ sampled'[a] = Older(sampled[a])
          /\ shown'[a].age = Older(shown[a].age) /\ shown'[a].status = shown[a].status
      BY <1>1, <2>2, <1>b DEF Tick
    <3> QED BY <2>2, <3>1, <1>b, <1>c, OlderIsMonotone
  <2> QED BY <2>1, <2>2
<1>2. CASE StorePoll
  <2>1. /\ since' \in [Drifted(poll.list) -> Ages] /\ Drifted(poll.list) \subseteq Apps
        /\ DOMAIN poll.list \subseteq Apps
    BY <1>2, StoredTimes
  <2>2. ASSUME NEW a \in DOMAIN since' PROVE since'[a] <= sampled'[a]
    <3>1. a \in Drifted(poll.list) /\ a \in Apps /\ sampled'[a] = sampled[a]
      BY <1>2, <2>1, <2>2 DEF StorePoll
    <3>2. since'[a] = IF a \in DOMAIN since THEN since[a] ELSE 0 BY <1>2, <3>1 DEF StorePoll
    <3> QED BY <3>1, <3>2, <1>c, ZeroIsAnAge
  <2>3. ASSUME NEW a \in DOMAIN shown', shown'[a].status # "Synced" PROVE shown'[a].age <= sampled'[a]
    <3>1. a \in DOMAIN poll.list /\ poll.list[a] # "Synced" BY <1>2, <2>3 DEF StorePoll
    <3>2. a \in DOMAIN since' BY <2>1, <3>1 DEF Drifted
    <3>3. shown'[a].age = since'[a] BY <1>2, <3>1, <3>2 DEF StorePoll
    <3> QED BY <2>2, <3>2, <3>3
  <2> QED BY <2>2, <2>3
<1>3. ASSUME NEW a \in Apps, ForgetApp(a) PROVE DriftIsUnbroken'
  BY <1>3 DEF ForgetApp
<1>4. CASE AppsChange \/ FetchArgoApps \/ \E a \in Apps : DeleteApp(a) \/ DeleteFails(a)
  BY <1>4 DEF AppsChange, FetchArgoApps, DeleteApp, DeleteFails, clientVars
<1>5. CASE UNCHANGED vars BY <1>5 DEF vars, clientVars
<1> QED BY <1>1, <1>2, <1>3, <1>4, <1>5 DEF Next

(* An application is reported out of sync for no longer than the polls     *)
(* have found it so without a break.                                       *)
THEOREM DriftIsAlwaysUnbroken == Spec => []DriftIsUnbroken
<1>1. Init => DriftIsUnbroken BY DEF Init, DriftIsUnbroken
<1> QED BY <1>1, DriftPreserved, ArgoTypeCorrect, PTL DEF Spec

(* A step keeps the times below the age of the last deletion.              *)
LEMMA RestartPreserved ==
  TypeOK /\ DeletionRestartsTime /\ [Next]_vars => DeletionRestartsTime'
<1> SUFFICES ASSUME TypeOK, DeletionRestartsTime, [Next]_vars PROVE DeletionRestartsTime' OBVIOUS
<1> USE DEF DeletionRestartsTime
<1>a. since \in [DOMAIN since -> Ages] /\ DOMAIN since \subseteq Apps
  BY TimesAreFunctions DEF Times, TypeOK
<1>b. forgotten \in [Apps -> Ages] BY DEF TypeOK
<1>1. CASE Tick
  <2> SUFFICES ASSUME NEW a \in DOMAIN since' PROVE since'[a] <= forgotten'[a] OBVIOUS
  <2>1. a \in DOMAIN since /\ since'[a] = Older(since[a]) /\ forgotten'[a] = Older(forgotten[a])
    BY <1>1, <1>a DEF Tick
  <2> QED BY <2>1, <1>a, <1>b, OlderIsMonotone
<1>2. CASE StorePoll
  <2> SUFFICES ASSUME NEW a \in DOMAIN since' PROVE since'[a] <= forgotten'[a] OBVIOUS
  <2>1. a \in Drifted(poll.list) /\ a \in Apps /\ forgotten' = forgotten
    BY <1>2, StoredTimes DEF StorePoll
  <2>2. since'[a] = IF a \in DOMAIN since THEN since[a] ELSE 0 BY <1>2, <2>1 DEF StorePoll
  <2> QED BY <2>1, <2>2, <1>b, ZeroIsAnAge
<1>3. ASSUME NEW a \in Apps, ForgetApp(a) PROVE DeletionRestartsTime'
  <2> SUFFICES ASSUME NEW b \in DOMAIN since' PROVE since'[b] <= forgotten'[b] OBVIOUS
  <2>1. b \in DOMAIN since /\ b # a /\ since'[b] = since[b] BY <1>3 DEF ForgetApp
  <2>2. forgotten'[b] = forgotten[b] BY <1>3, <2>1, <1>a, <1>b DEF ForgetApp
  <2> QED BY <2>1, <2>2
<1>4. CASE AppsChange \/ FetchArgoApps \/ \E a \in Apps : DeleteApp(a) \/ DeleteFails(a)
  BY <1>4 DEF AppsChange, FetchArgoApps, DeleteApp, DeleteFails, clientVars
<1>5. CASE UNCHANGED vars BY <1>5 DEF vars, clientVars
<1> QED BY <1>1, <1>2, <1>3, <1>4, <1>5 DEF Next

(* A deleted application that comes back does not inherit its time.        *)
THEOREM DeletionAlwaysRestartsTime == Spec => []DeletionRestartsTime
<1>1. Init => DeletionRestartsTime BY DEF Init, DeletionRestartsTime
<1> QED BY <1>1, RestartPreserved, ArgoTypeCorrect, PTL DEF Spec

=============================================================================
