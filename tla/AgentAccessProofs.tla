------------------------- MODULE AgentAccessProofs -------------------------
(***************************************************************************)
(* Theorems about the agent's work and the cached access, for any number   *)
(* of handlers, callers, polls, pods and changes of the annotation.        *)
(***************************************************************************)
EXTENDS AgentAccess, FiniteSetTheorems, TLAPS

USE BoundsAssumption, NoneAssumption

-----------------------------------------------------------------------------
(* The inductive invariant *)

(* The API server's side: a work that is gone has no version, and the      *)
(* token that is reported is the one that is accepted.                     *)
WorkOK ==
  /\ work.state = "absent" => work.rv = 0 /\ work.born = 0 /\ ~work.fed
  /\ work.state # "absent" => work.rv # 0 /\ work.born # 0
  /\ work.fed => secret = work.born
  /\ work.rv <= revision /\ work.asOf <= annotation

(* Whoever may still replace the work and has read the annotation has read *)
(* it after the work was written.                                          *)
ReadOK ==
  \A h \in Handlers :
    /\ handler[h].seen <= revision /\ handler[h].asOf <= annotation
    /\ handler[h].pc = "write" /\ handler[h].seen # 0 /\ handler[h].seen = work.rv
         /\ handler[h].read
         => handler[h].asOf >= work.asOf

(* An access that is about to be stored names a pod.                       *)
PodChosen == \A c \in Callers : call[c].pc = "store" => call[c].pod # 0

(* What a calm call has resolved so far is right ...                       *)
ResolvedOK(c) ==
  /\ call[c].pc # "error"
  /\ call[c].pc = "token" => call[c].polls = 0
  /\ call[c].pc \in {"pod", "store", "proxy"} => call[c].token = secret
  /\ call[c].pc = "store" => call[c].pod \in pods

(* ... and a second attempt does not start from the cache.                 *)
RetriedOK(c) ==
  call[c].retried =>
    /\ call[c].pc = "lookup" => cache = None
    /\ call[c].pc = "proxy" => call[c].pod \in pods

(* What calm means for the rest of the state.                              *)
CalmOK(c) ==
  calm[c] =>
    /\ work.state = "live" /\ work.fed
    /\ \E p : pods = {p}
    /\ cache # None => cache.token = secret
    /\ \A d \in Callers \ {c} : call[d].pc = "idle"
    /\ ResolvedOK(c) /\ RetriedOK(c)

AccessInv ==
  /\ TypeOK /\ WorkOK /\ ReadOK /\ PodChosen
  /\ \A c \in Callers : CalmOK(c)

LEMMA AccessInitial == Init => AccessInv
<1> SUFFICES ASSUME Init
             PROVE  AccessInv
  OBVIOUS
<1>1. /\ Absent \in Works /\ Absent.state = "absent" /\ Absent.rv = 0 /\ Absent.born = 0
      /\ Absent.fed = FALSE /\ Absent.asOf = 0
  BY DEF Absent, Works
<1>2. /\ Deployed \in Works /\ Deployed.state = "live" /\ Deployed.rv = 1 /\ Deployed.born = 1
      /\ Deployed.fed = FALSE /\ Deployed.asOf = 0
  BY <1>1 DEF Deployed, Absent, Works
<1>3. work \in Works /\ work.rv \in Nat
  BY <1>1, <1>2 DEF Init
<1>4. TypeOK
  BY <1>3 DEF Init, TypeOK, Requests, Ops, HandlerSteps, Deploying, Calls, CallSteps
<1>5. WorkOK
  BY <1>1, <1>2 DEF Init, WorkOK
<1>6. ReadOK /\ PodChosen /\ \A c \in Callers : CalmOK(c)
  BY <1>3 DEF Init, ReadOK, PodChosen, CalmOK
<1> QED
  BY <1>4, <1>5, <1>6 DEF AccessInv

-----------------------------------------------------------------------------
(* Types *)

LEMMA RequestType ==
  ASSUME TypeOK, NEW h \in Handlers, NEW r \in Requests, handler' = [handler EXCEPT ![h] = r]
  PROVE  handler' \in [Handlers -> Requests]
BY DEF TypeOK

LEMMA CallStepType ==
  ASSUME TypeOK, NEW c \in Callers, NEW r \in Calls, NEW pc, Step(c, pc, r),
         cache' \in Accesses \cup {None}, calm' \in [Callers -> BOOLEAN]
  PROVE  TypeOK'
BY DEF TypeOK, Step, clusterVars

LEMMA ExternalType ==
  ASSUME TypeOK, External \/ AccessExpires
  PROVE  TypeOK'
<1> USE DEF TypeOK, Disturb
<1>1. CASE ApplyWork
  <2>0. work \in Works /\ revision + 1 \in Nat
    OBVIOUS
  <2>1. work' \in Works
    BY <1>1, <2>0 DEF ApplyWork, Works
  <2>2. pods' \subseteq 1..created'
    BY <1>1 DEF ApplyWork
  <2>3. secret' \in Nat
    BY <1>1 DEF ApplyWork, Works
  <2> QED
    BY <1>1, <2>1, <2>2, <2>3 DEF ApplyWork
<1>2. CASE FinishDeletion
  BY <1>2 DEF FinishDeletion, Absent, Works
<1>3. CASE ReplacePod
  BY <1>3 DEF ReplacePod
<1>4. CASE PodTerminates
  BY <1>4 DEF PodTerminates
<1>5. CASE Annotate
  BY <1>5 DEF Annotate
<1>6. CASE AccessExpires
  BY <1>6 DEF AccessExpires, clusterVars, Accesses
<1> QED
  BY <1>1, <1>2, <1>3, <1>4, <1>5, <1>6 DEF External

LEMMA HandlerType ==
  ASSUME TypeOK, NEW h \in Handlers, Request(h) \/ Handle(h)
  PROVE  TypeOK'
<1>0. handler[h] \in Requests
  BY DEF TypeOK
<1>1. ASSUME NEW pc \in HandlerSteps, Goto(h, pc)
      PROVE  handler' \in [Handlers -> Requests]
  <2> DEFINE r == [op |-> handler[h].op, pc |-> pc, seen |-> 0, asOf |-> 0,
                   read |-> FALSE, polls |-> 0]
  <2>1. r \in Requests
    BY <1>0 DEF Requests
  <2>2. handler' = [handler EXCEPT ![h] = r]
    BY <1>1 DEF Goto
  <2> QED
    BY <2>1, <2>2, RequestType
<1>2. {"delete", "forget", "wait", "ok", "failed", "get", "image", "write"} \subseteq HandlerSteps
  BY DEF HandlerSteps, Deploying
<1>3. CASE Request(h)
  <2>1. PICK op \in Ops :
          handler' = [handler EXCEPT ![h] = [handler[h] EXCEPT
            !.op = op, !.pc = IF op = "deploy" THEN "get" ELSE "delete"]]
    BY <1>3 DEF Request
  <2> QED
    BY <1>0, <1>2, <1>3, <2>1 DEF Request, Requests, TypeOK, clusterVars
<1>4. CASE DeleteWork(h)
  <2>1. handler' \in [Handlers -> Requests]
    BY <1>1, <1>2, <1>4 DEF DeleteWork
  <2>2. work \in Works /\ revision + 1 \in Nat
    BY DEF TypeOK
  <2>3. [work EXCEPT !.state = "leaving", !.rv = revision + 1] \in Works
    BY <2>2 DEF Works
  <2>4. work' \in Works
    BY <1>4, <2>2, <2>3 DEF DeleteWork
  <2>5. revision' \in Nat
    BY <1>4 DEF DeleteWork, TypeOK
  <2> QED
    BY <1>4, <2>1, <2>4, <2>5 DEF DeleteWork, TypeOK, Disturb
<1>5. CASE ForgetAgent(h)
  <2>1. handler' \in [Handlers -> Requests]
    BY <1>1, <1>2, <1>5 DEF ForgetAgent
  <2> QED
    BY <1>5, <2>1 DEF ForgetAgent, TypeOK, Disturb, clusterVars
<1>6. CASE PollDeletion(h)
  <2>1. handler' \in [Handlers -> Requests]
    <3>1. CASE Goto(h, "get")
      BY <1>1, <1>2, <3>1
    <3>2. CASE handler' = [handler EXCEPT ![h].polls = @ + 1]
      BY <1>0, <3>2 DEF TypeOK, Requests
    <3> QED
      BY <1>6, <3>1, <3>2 DEF PollDeletion
  <2> QED
    BY <1>6, <2>1 DEF PollDeletion, TypeOK, clusterVars
<1>7. CASE GetWork(h)
  <2>1. PICK rv \in {work.rv, 0} :
          handler' = [handler EXCEPT ![h] = [handler[h] EXCEPT !.pc = "image", !.seen = rv]]
    BY <1>7 DEF GetWork
  <2>2. rv \in Nat
    BY DEF TypeOK, Works
  <2>3. [handler[h] EXCEPT !.pc = "image", !.seen = rv] \in Requests
    BY <1>0, <1>2, <2>2 DEF Requests
  <2>4. handler' \in [Handlers -> Requests]
    BY <2>1, <2>3, RequestType
  <2> QED
    BY <1>7, <2>4 DEF GetWork, TypeOK, clusterVars
<1>8. CASE ChooseImage(h)
  <2>0. PICK read \in BOOLEAN :
          handler' = [handler EXCEPT ![h] = [handler[h] EXCEPT
            !.pc = "write", !.read = read, !.asOf = IF read THEN annotation ELSE 0]]
    BY <1>8 DEF ChooseImage
  <2> DEFINE r == [handler[h] EXCEPT !.pc = "write", !.read = read,
                                     !.asOf = IF read THEN annotation ELSE 0]
  <2>1. r \in Requests
    BY <1>0, <1>2 DEF Requests, TypeOK
  <2>2. handler' = [handler EXCEPT ![h] = r]
    BY <2>0
  <2>3. handler' \in [Handlers -> Requests]
    BY <2>1, <2>2, RequestType
  <2> QED
    BY <1>8, <2>3 DEF ChooseImage, TypeOK, clusterVars
<1>9. CASE WriteWork(h)
  <2>1. handler' \in [Handlers -> Requests]
    BY <1>1, <1>2, <1>9 DEF WriteWork
  <2> DEFINE asOf == IF handler[h].read THEN handler[h].asOf ELSE work.asOf
  <2>2. work \in Works /\ revision + 1 \in Nat /\ handler[h].read \in BOOLEAN /\ asOf \in Nat
    BY <1>0 DEF Requests, Works, TypeOK
  <2>3. [work EXCEPT !.asOf = asOf, !.read = handler[h].read, !.rv = revision + 1] \in Works
    BY <2>2 DEF Works
  <2>4. Written(h) \in Works
    BY <2>2, <2>3 DEF Written, Works
  <2> QED
    BY <1>9, <2>1, <2>4 DEF WriteWork, TypeOK, Disturb
<1> QED
  BY <1>3, <1>4, <1>5, <1>6, <1>7, <1>8, <1>9 DEF Handle

LEMMA CallType ==
  ASSUME TypeOK, PodChosen, NEW c \in Callers, BeginCall(c) \/ Proxy(c) \/ RequestFails(c)
  PROVE  TypeOK'
<1>0. call[c] \in Calls /\ cache \in Accesses \cup {None} /\ calm \in [Callers -> BOOLEAN]
  BY DEF TypeOK
<1>1. \A pc \in CallSteps : [Ended EXCEPT !.pc = pc] \in Calls
  BY DEF Ended, Calls
<1>2. Ended \in Calls
  BY DEF Ended, Calls, CallSteps
<1>3. CASE BeginCall(c)
  <2>1. calm' \in [Callers -> BOOLEAN]
    BY <1>3 DEF BeginCall, Calm
  <2> QED
    BY <1>0, <1>1, <1>3, <2>1, CallStepType DEF BeginCall, CallSteps
<1>4. CASE Cached(c)
  <2> DEFINE r == [call[c] EXCEPT !.pc = "proxy", !.token = cache.token, !.pod = cache.pod]
  <2>1. r \in Calls
    BY <1>0, <1>4 DEF Cached, Usable, Calls, CallSteps, Accesses
  <2>2. Step(c, "lookup", r) /\ UNCHANGED <<cache, calm>>
    BY <1>4 DEF Cached
  <2> QED
    BY <1>0, <2>1, <2>2, CallStepType
<1>5. CASE NotCached(c)
  <2> DEFINE r == [call[c] EXCEPT !.pc = "token", !.polls = 0]
  <2>1. r \in Calls
    BY <1>0 DEF Calls, CallSteps, Resolving
  <2>2. Step(c, "lookup", r) /\ UNCHANGED <<cache, calm>>
    BY <1>5 DEF NotCached
  <2> QED
    BY <1>0, <2>1, <2>2, CallStepType
<1>6. CASE ReadToken(c)
  <2> DEFINE r == [call[c] EXCEPT !.pc = "pod", !.token = work.born]
             s == [call[c] EXCEPT !.polls = @ + 1]
  <2>1. work.born \in Nat
    BY DEF TypeOK, Works
  <2>2. r \in Calls
    BY <1>0, <2>1 DEF Calls, CallSteps, Resolving
  <2>3. s \in Calls
    BY <1>0 DEF Calls
  <2>4. Step(c, "token", r) \/ Step(c, "token", s)
    BY <1>6 DEF ReadToken
  <2>5. UNCHANGED <<cache, calm>>
    BY <1>6 DEF ReadToken
  <2> QED
    BY <1>0, <2>2, <2>3, <2>4, <2>5, CallStepType
<1>7. CASE FindPod(c)
  <2>1. PICK p \in pods : Step(c, "pod", [call[c] EXCEPT !.pc = "store", !.pod = p])
    BY <1>7 DEF FindPod
  <2>2. p \in Nat
    BY DEF TypeOK
  <2>3. [call[c] EXCEPT !.pc = "store", !.pod = p] \in Calls
    BY <1>0, <2>2 DEF Calls, CallSteps, Resolving
  <2>4. UNCHANGED <<cache, calm>>
    BY <1>7 DEF FindPod
  <2> QED
    BY <1>0, <2>1, <2>3, <2>4, CallStepType
<1>8. CASE Invalidate(c)
  <2> DEFINE r == [call[c] EXCEPT !.pc = "lookup", !.retried = TRUE]
  <2>1. r \in Calls
    BY <1>0 DEF Calls, CallSteps
  <2>2. Step(c, "proxy", r) /\ cache' = None /\ UNCHANGED calm
    BY <1>8 DEF Invalidate
  <2> QED
    BY <1>0, <2>1, <2>2, CallStepType
<1>9. CASE NoToken(c) \/ NoPod(c) \/ Refused(c)
  <2>1. \E pc : Step(c, pc, [Ended EXCEPT !.pc = "error"])
    BY <1>9 DEF NoToken, NoPod, Refused
  <2>2. UNCHANGED <<cache, calm>>
    BY <1>9 DEF NoToken, NoPod, Refused
  <2> QED
    BY <1>0, <1>1, <2>1, <2>2, CallStepType DEF CallSteps
<1>10. CASE Answered(c) \/ ReturnError(c) \/ RequestFails(c)
  <2>1. \E pc : Step(c, pc, Ended)
    BY <1>10 DEF Answered, ReturnError, RequestFails
  <2>2. cache' = cache /\ calm' = [calm EXCEPT ![c] = FALSE]
    BY <1>10 DEF Answered, ReturnError, RequestFails
  <2> QED
    BY <1>0, <1>2, <2>1, <2>2, CallStepType
<1>11. CASE StoreAccess(c)
  <2> DEFINE r == [call[c] EXCEPT !.pc = "proxy"]
             a == [token |-> call[c].token, pod |-> call[c].pod, fresh |-> TRUE]
  <2>1. r \in Calls
    BY <1>0 DEF Calls, CallSteps
  <2>2. Step(c, "store", r) /\ cache' = a /\ UNCHANGED calm
    BY <1>11 DEF StoreAccess
  <2>3. a \in Accesses
    BY <1>0, <2>2 DEF PodChosen, Step, Calls, Accesses
  <2> QED
    BY <1>0, <2>1, <2>2, <2>3, CallStepType
<1> QED
  BY <1>3, <1>4, <1>5, <1>6, <1>7, <1>8, <1>9, <1>10, <1>11 DEF Proxy

LEMMA TypeStep == TypeOK /\ PodChosen /\ [Next]_vars => TypeOK'
<1> SUFFICES ASSUME TypeOK, PodChosen, [Next]_vars
             PROVE  TypeOK'
  OBVIOUS
<1>1. CASE UNCHANGED vars
  BY <1>1 DEF TypeOK, vars, clusterVars
<1> QED
  BY <1>1, ExternalType, HandlerType, CallType DEF Next

-----------------------------------------------------------------------------
(* The work *)

LEMMA HandlerStepsOnlyWrite ==
  ASSUME TypeOK, NEW h \in Handlers, Request(h) \/ Handle(h), ~DeleteWork(h), ~WriteWork(h)
  PROVE  UNCHANGED clusterVars
BY DEF Handle, Request, ForgetAgent, PollDeletion, GetWork, ChooseImage

LEMMA CallsOnlyRead ==
  ASSUME NEW c \in Callers, BeginCall(c) \/ Proxy(c) \/ RequestFails(c)
  PROVE  UNCHANGED <<clusterVars, handler>>
BY DEF BeginCall, Proxy, RequestFails, Step, Cached, NotCached, ReadToken, NoToken, FindPod,
       NoPod, StoreAccess, Answered, Invalidate, Refused, ReturnError, clusterVars

(* The versions of what a handler writes.                                  *)
LEMMA WrittenFields ==
  ASSUME TypeOK, NEW h \in Handlers
  PROVE  /\ Written(h).rv = revision + 1
         /\ Written(h).asOf = IF handler[h].read THEN handler[h].asOf ELSE work.asOf
         /\ Written(h).read = handler[h].read
         /\ Written(h).fed = work.fed
         /\ handler[h].seen = 0 => Written(h).born = revision + 1 /\ Written(h).state = "live"
         /\ handler[h].seen # 0 => Written(h).born = work.born /\ Written(h).state = work.state
BY DEF Written, TypeOK, Works, Requests

LEMMA WorkStep == TypeOK /\ ReadOK /\ WorkOK /\ [Next]_vars => WorkOK'
<1> SUFFICES ASSUME TypeOK, ReadOK, WorkOK, [Next]_vars
             PROVE  WorkOK'
  OBVIOUS
<1>0. work \in Works /\ revision \in Nat /\ annotation \in Nat
  BY DEF TypeOK
<1>1. CASE UNCHANGED clusterVars
  BY <1>1 DEF WorkOK, clusterVars
<1>2. CASE ApplyWork
  BY <1>0, <1>2 DEF ApplyWork, WorkOK, Works
<1>3. CASE FinishDeletion
  BY <1>0, <1>3 DEF FinishDeletion, WorkOK, Absent
<1>4. CASE ReplacePod \/ PodTerminates
  BY <1>4 DEF ReplacePod, PodTerminates, WorkOK
<1>5. CASE Annotate
  BY <1>0, <1>5 DEF Annotate, WorkOK, Works
<1>6. ASSUME NEW h \in Handlers, DeleteWork(h)
      PROVE  WorkOK'
  <2>1. CASE UNCHANGED work
    BY <1>0, <1>6, <2>1 DEF DeleteWork, WorkOK, Works
  <2>2. CASE work' = [work EXCEPT !.state = "leaving", !.rv = revision + 1]
             /\ work.state = "live"
    <3>1. /\ work'.state = "leaving" /\ work'.rv = revision + 1
          /\ work'.born = work.born /\ work'.fed = work.fed /\ work'.asOf = work.asOf
      BY <1>0, <2>2 DEF Works
    <3>2. work.rv # revision + 1
      BY <1>0 DEF WorkOK, Works
    <3>3. revision' = revision + 1 /\ UNCHANGED <<annotation, secret>>
      BY <1>6, <3>1, <3>2 DEF DeleteWork
    <3> QED
      BY <1>0, <2>2, <3>1, <3>3 DEF WorkOK
  <2> QED
    BY <1>6, <2>1, <2>2 DEF DeleteWork
<1>7. ASSUME NEW h \in Handlers, WriteWork(h)
      PROVE  WorkOK'
  <2>1. CASE UNCHANGED <<work, revision>>
    BY <1>7, <2>1 DEF WriteWork, WorkOK
  <2>2. CASE Accepted(h) /\ work' = Written(h) /\ revision' = revision + 1
    <3>1. UNCHANGED <<annotation, secret>>
      BY <1>7 DEF WriteWork
    <3>2. handler[h].asOf <= annotation
      BY DEF ReadOK
    <3> QED
      BY <1>0, <2>2, <3>1, <3>2, WrittenFields DEF Accepted, WorkOK, Works
  <2> QED
    BY <1>7, <2>1, <2>2 DEF WriteWork
<1>8. CASE AccessExpires \/ UNCHANGED vars
  BY <1>1, <1>8 DEF AccessExpires, vars
<1> QED
  BY <1>1, <1>2, <1>3, <1>4, <1>5, <1>6, <1>7, <1>8, HandlerStepsOnlyWrite, CallsOnlyRead
     DEF Next, External

(* A step that changes the work gives it a version nobody has read, or none. *)
LEMMA WorkVersions ==
  ASSUME TypeOK, WorkOK, [Next]_vars
  PROVE  /\ revision' >= revision /\ annotation' >= annotation
         /\ \/ work'.rv = work.rv /\ work'.asOf = work.asOf
            \/ work'.rv = revision + 1
            \/ work'.rv = 0
         /\ work'.born = work.born => work'.asOf = work.asOf
              \/ \E h \in Handlers : WriteWork(h) /\ Accepted(h) /\ handler[h].seen # 0
                                    /\ handler[h].read /\ work'.asOf = handler[h].asOf
<1>0. work \in Works /\ revision \in Nat /\ annotation \in Nat
  BY DEF TypeOK
<1>1. CASE UNCHANGED clusterVars
  BY <1>0, <1>1 DEF clusterVars
<1>2. CASE ApplyWork
  BY <1>0, <1>2 DEF ApplyWork, Works
<1>3. CASE FinishDeletion
  BY <1>0, <1>3 DEF FinishDeletion, Absent, WorkOK
<1>4. CASE ReplacePod \/ PodTerminates \/ Annotate
  BY <1>0, <1>4 DEF ReplacePod, PodTerminates, Annotate
<1>5. ASSUME NEW h \in Handlers, DeleteWork(h)
      PROVE  /\ revision' >= revision /\ annotation' = annotation /\ work'.asOf = work.asOf
             /\ work'.rv = work.rv \/ work'.rv = revision + 1
  BY <1>0, <1>5 DEF DeleteWork, Works
<1>6. ASSUME NEW h \in Handlers, WriteWork(h)
      PROVE  /\ annotation' = annotation
             /\ \/ UNCHANGED <<work, revision>>
                \/ /\ Accepted(h) /\ work'.rv = revision + 1 /\ revision' = revision + 1
                   /\ work'.asOf = work.asOf \/ (handler[h].read /\ work'.asOf = handler[h].asOf)
                   /\ handler[h].seen # 0 \/ work'.born # work.born
  <2>1. CASE UNCHANGED <<work, revision>>
    BY <1>6, <2>1 DEF WriteWork
  <2>2. CASE Accepted(h) /\ work' = Written(h) /\ revision' = revision + 1
    <3>1. handler[h].seen = 0 => work.born = 0
      BY <2>2 DEF Accepted, WorkOK
    <3>2. annotation' = annotation
      BY <1>6 DEF WriteWork
    <3>3. work'.rv = revision + 1
          /\ work'.asOf = IF handler[h].read THEN handler[h].asOf ELSE work.asOf
      BY <2>2, WrittenFields
    <3>4. handler[h].seen = 0 => work'.born # work.born
      <4>1. handler[h].seen = 0 => work'.born = revision + 1
        BY <2>2, WrittenFields
      <4> QED
        BY <1>0, <3>1, <4>1
    <3>5. work'.asOf = work.asOf \/ (handler[h].read /\ work'.asOf = handler[h].asOf)
      <4>1. CASE handler[h].read
        BY <3>3, <4>1
      <4>2. CASE ~handler[h].read
        BY <3>3, <4>2
      <4> QED
        BY <4>1, <4>2
    <3>6. Accepted(h) /\ revision' = revision + 1
      BY <2>2
    <3> QED
      BY <3>2, <3>3, <3>4, <3>5, <3>6
  <2> QED
    BY <1>6, <2>1, <2>2 DEF WriteWork
<1>7. CASE AccessExpires \/ UNCHANGED vars
  BY <1>1, <1>7 DEF AccessExpires, vars
<1> QED
  BY <1>0, <1>1, <1>2, <1>3, <1>4, <1>5, <1>6, <1>7, HandlerStepsOnlyWrite, CallsOnlyRead
     DEF Next, External

(* What a step makes of the handlers.                                      *)
LEMMA HandlersRead ==
  ASSUME TypeOK, WorkOK, ReadOK, [Next]_vars, NEW h \in Handlers
  PROVE  \/ handler'[h] = handler[h]
         \/ /\ handler'[h].pc # "write"
            /\ handler'[h].seen \in {handler[h].seen, work.rv, 0}
            /\ handler'[h].asOf \in {handler[h].asOf, 0}
         \/ /\ UNCHANGED clusterVars
            /\ handler'[h].seen = handler[h].seen /\ handler'[h].asOf \in {annotation, 0}
            /\ handler'[h].read => handler'[h].asOf = annotation
<1>0. handler \in [Handlers -> Requests]
  BY DEF TypeOK
<1>1. CASE UNCHANGED handler
  BY <1>1
<1>2. ASSUME NEW g \in Handlers, NEW pc, Goto(g, pc), pc # "write"
      PROVE  \/ handler'[h] = handler[h]
             \/ /\ handler'[h].pc # "write" /\ handler'[h].seen = 0 /\ handler'[h].asOf = 0
  BY <1>0, <1>2 DEF Goto
<1>3. ASSUME NEW g \in Handlers, Request(g) \/ GetWork(g) \/ PollDeletion(g), h = g,
             ~\E pc : pc # "write" /\ Goto(g, pc)
      PROVE  /\ handler'[h].pc # "write"
             /\ handler'[h].seen \in {handler[h].seen, work.rv, 0}
             /\ handler'[h].asOf = handler[h].asOf
  <2>0. handler[h] \in Requests
    BY <1>0
  <2>1. CASE Request(h)
    <3>1. PICK pc \in {"get", "delete"}, op \in Ops :
            handler' = [handler EXCEPT ![h] = [handler[h] EXCEPT !.op = op, !.pc = pc]]
      BY <2>1 DEF Request
    <3> QED
      BY <1>0, <2>0, <3>1 DEF Requests
  <2>2. CASE GetWork(h)
    BY <1>0, <2>0, <2>2 DEF GetWork, Requests
  <2>3. CASE PollDeletion(h)
    <3>1. handler[h].pc = "wait"
          /\ handler' = [handler EXCEPT ![h] = [handler[h] EXCEPT !.polls = @ + 1]]
      BY <1>3, <2>3 DEF PollDeletion
    <3> QED
      BY <1>0, <2>0, <3>1 DEF Requests
  <2> QED
    BY <1>3, <2>1, <2>2, <2>3
<1>4. ASSUME NEW g \in Handlers, Request(g) \/ GetWork(g) \/ PollDeletion(g), h # g
      PROVE  handler'[h] = handler[h]
  BY <1>0, <1>4 DEF Request, GetWork, PollDeletion, Goto
<1>5. ASSUME NEW g \in Handlers, ChooseImage(g)
      PROVE  \/ handler'[h] = handler[h]
             \/ /\ UNCHANGED clusterVars
                /\ handler'[h].seen = handler[h].seen /\ handler'[h].asOf \in {annotation, 0}
                /\ handler'[h].read => handler'[h].asOf = annotation
  BY <1>0, <1>5 DEF ChooseImage, Requests
<1>6. ASSUME NEW g \in Handlers, DeleteWork(g) \/ ForgetAgent(g) \/ WriteWork(g)
      PROVE  \E pc : pc # "write" /\ Goto(g, pc)
  BY <1>6 DEF DeleteWork, ForgetAgent, WriteWork
<1>7. External \/ AccessExpires \/ UNCHANGED vars => UNCHANGED handler
  BY DEF External, ApplyWork, FinishDeletion, ReplacePod, PodTerminates, Annotate, AccessExpires,
         vars
<1> QED
  BY <1>1, <1>2, <1>3, <1>4, <1>5, <1>6, <1>7, CallsOnlyRead DEF Next, Handle

LEMMA ReadStep == TypeOK /\ PodChosen /\ WorkOK /\ ReadOK /\ [Next]_vars => ReadOK'
<1> SUFFICES ASSUME TypeOK, PodChosen, WorkOK, ReadOK, [Next]_vars, NEW h \in Handlers
             PROVE  /\ handler'[h].seen <= revision' /\ handler'[h].asOf <= annotation'
                    /\ handler'[h].pc = "write" /\ handler'[h].seen # 0
                         /\ handler'[h].seen = work'.rv /\ handler'[h].read
                         => handler'[h].asOf >= work'.asOf
  BY DEF ReadOK
<1>1. /\ handler[h].seen \in Nat /\ handler[h].asOf \in Nat /\ work.rv \in Nat /\ work.asOf \in Nat
      /\ revision \in Nat /\ annotation \in Nat /\ revision' \in Nat /\ annotation' \in Nat
  BY TypeStep DEF TypeOK, Requests, Works
<1>2. CASE handler'[h] = handler[h]
  BY <1>1, <1>2, WorkVersions DEF ReadOK
<1>3. CASE /\ handler'[h].pc # "write"
           /\ handler'[h].seen \in {handler[h].seen, work.rv, 0}
           /\ handler'[h].asOf \in {handler[h].asOf, 0}
  BY <1>1, <1>3, WorkVersions DEF ReadOK, WorkOK
<1>4. CASE /\ UNCHANGED clusterVars
           /\ handler'[h].seen = handler[h].seen /\ handler'[h].asOf \in {annotation, 0}
           /\ handler'[h].read => handler'[h].asOf = annotation
  BY <1>1, <1>4 DEF ReadOK, WorkOK, clusterVars
<1> QED
  BY <1>2, <1>3, <1>4, HandlersRead

-----------------------------------------------------------------------------
(* The calls *)

LEMMA StepResult ==
  ASSUME TypeOK, NEW c \in Callers, NEW pc, NEW r, Step(c, pc, r)
  PROVE  /\ call[c] \in Calls /\ call[c].pc = pc /\ call'[c] = r
         /\ \A d \in Callers \ {c} : call'[d] = call[d]
         /\ UNCHANGED <<clusterVars, handler>>
BY DEF TypeOK, Step

(* What a step of a call reads and leaves behind.                          *)
Resolves(now, next) ==
  \/ now.pc = "lookup" /\ next.pc = "proxy" /\ cache # None /\ next.token = cache.token
  \/ now.pc = "lookup" /\ next.pc = "token" /\ next.polls = 0
  \/ now.pc = "token" /\ next.pc = "pod" /\ work.fed /\ next.token = work.born
  \/ now.pc = "token" /\ next.pc = "token" /\ ~work.fed
  \/ now.pc = "pod" /\ next.pc = "store" /\ next.token = now.token /\ next.pod \in pods

Fails(now, next) ==
  /\ next.pc = "error"
  /\ \/ now.pc = "token" /\ (work.state = "absent" \/ now.polls = MaxTokenPolls)
     \/ now.pc = "pod" /\ (now.token # secret \/ pods = {})
     \/ now.pc = "proxy" /\ (now.token # secret \/ (now.retried /\ now.pod \notin pods))

LEMMA BeginOutcome ==
  ASSUME TypeOK, NEW c \in Callers, BeginCall(c)
  PROVE  call[c].pc = "idle" /\ call'[c].pc = "lookup" /\ ~call'[c].retried
BY StepResult DEF BeginCall, Ended

LEMMA ResolveOutcome ==
  ASSUME TypeOK, NEW c \in Callers,
         Cached(c) \/ NotCached(c) \/ ReadToken(c) \/ FindPod(c)
  PROVE  Resolves(call[c], call'[c]) /\ call'[c].retried = call[c].retried
         /\ UNCHANGED <<cache, calm>>
<1>0. call[c] \in Calls
  BY DEF TypeOK
<1>1. CASE Cached(c)
  <2> DEFINE r == [call[c] EXCEPT !.pc = "proxy", !.token = cache.token, !.pod = cache.pod]
  <2>1. call[c].pc = "lookup" /\ call'[c] = r /\ cache # None /\ UNCHANGED <<cache, calm>>
    BY <1>1, StepResult DEF Cached, Usable
  <2>2. r.pc = "proxy" /\ r.token = cache.token /\ r.retried = call[c].retried
    BY <1>0 DEF Calls
  <2> QED
    BY <2>1, <2>2 DEF Resolves
<1>2. CASE NotCached(c)
  <2> DEFINE r == [call[c] EXCEPT !.pc = "token", !.polls = 0]
  <2>1. call[c].pc = "lookup" /\ call'[c] = r /\ UNCHANGED <<cache, calm>>
    BY <1>2, StepResult DEF NotCached
  <2>2. r.pc = "token" /\ r.polls = 0 /\ r.retried = call[c].retried
    BY <1>0 DEF Calls
  <2> QED
    BY <2>1, <2>2 DEF Resolves
<1>3. CASE ReadToken(c)
  <2>1. CASE work.fed
    <3> DEFINE r == [call[c] EXCEPT !.pc = "pod", !.token = work.born]
    <3>1. call[c].pc = "token" /\ call'[c] = r /\ UNCHANGED <<cache, calm>>
      BY <1>3, <2>1, StepResult DEF ReadToken
    <3>2. r.pc = "pod" /\ r.token = work.born /\ r.retried = call[c].retried
      BY <1>0 DEF Calls
    <3> QED
      BY <2>1, <3>1, <3>2 DEF Resolves
  <2>2. CASE ~work.fed
    <3> DEFINE r == [call[c] EXCEPT !.polls = @ + 1]
    <3>1. call[c].pc = "token" /\ call'[c] = r /\ UNCHANGED <<cache, calm>>
      BY <1>3, <2>2, StepResult DEF ReadToken
    <3>2. r.pc = call[c].pc /\ r.retried = call[c].retried
      BY <1>0 DEF Calls
    <3> QED
      BY <2>2, <3>1, <3>2 DEF Resolves
  <2> QED
    BY <2>1, <2>2
<1>4. CASE FindPod(c)
  <2>1. PICK p \in pods : Step(c, "pod", [call[c] EXCEPT !.pc = "store", !.pod = p])
    BY <1>4 DEF FindPod
  <2> DEFINE r == [call[c] EXCEPT !.pc = "store", !.pod = p]
  <2>2. call[c].pc = "pod" /\ call'[c] = r
    BY <2>1, StepResult
  <2>3. r.pc = "store" /\ r.pod = p /\ r.token = call[c].token /\ r.retried = call[c].retried
    BY <1>0 DEF Calls
  <2> QED
    BY <1>4, <2>2, <2>3 DEF FindPod, Resolves
<1> QED
  BY <1>1, <1>2, <1>3, <1>4

LEMMA FailOutcome ==
  ASSUME TypeOK, NEW c \in Callers, NoToken(c) \/ NoPod(c) \/ Refused(c)
  PROVE  Fails(call[c], call'[c]) /\ UNCHANGED <<cache, calm>>
<1> DEFINE r == [Ended EXCEPT !.pc = "error"]
<1>1. r.pc = "error"
  BY DEF Ended
<1>2. ASSUME NEW pc, Step(c, pc, r)
      PROVE  call[c].pc = pc /\ call'[c].pc = "error"
  <2>1. call[c].pc = pc /\ call'[c] = r
    BY <1>2, StepResult
  <2> QED
    BY <1>1, <2>1
<1>3. CASE NoToken(c)
  <2>1. Step(c, "token", r) /\ UNCHANGED <<cache, calm>>
    BY <1>3 DEF NoToken
  <2> QED
    BY <1>2, <1>3, <2>1 DEF NoToken, Fails
<1>4. CASE NoPod(c)
  <2>1. Step(c, "pod", r) /\ UNCHANGED <<cache, calm>>
    BY <1>4 DEF NoPod
  <2> QED
    BY <1>2, <1>4, <2>1 DEF NoPod, Fails
<1>5. CASE Refused(c)
  <2>1. Step(c, "proxy", r) /\ UNCHANGED <<cache, calm>>
    BY <1>5 DEF Refused
  <2>2. call[c].pc = "proxy" /\ call'[c].pc = "error"
    BY <1>2, <2>1
  <2> QED
    BY <1>5, <2>1, <2>2 DEF Refused, NotFound, Fails
<1> QED
  BY <1>3, <1>4, <1>5

LEMMA StoreOutcome ==
  ASSUME TypeOK, NEW c \in Callers, StoreAccess(c)
  PROVE  /\ call[c].pc = "store" /\ call'[c].pc = "proxy" /\ UNCHANGED calm
         /\ call'[c].token = call[c].token /\ call'[c].pod = call[c].pod
         /\ cache' # None => cache'.token = call[c].token
BY StepResult DEF StoreAccess, Calls

LEMMA InvalidateOutcome ==
  ASSUME TypeOK, NEW c \in Callers, Invalidate(c)
  PROVE  call[c].pc = "proxy" /\ call'[c].pc = "lookup" /\ cache' = None /\ UNCHANGED calm
<1> DEFINE r == [call[c] EXCEPT !.pc = "lookup", !.retried = TRUE]
<1>1. call[c] \in Calls /\ call[c].pc = "proxy" /\ call'[c] = r
  BY StepResult DEF Invalidate
<1>2. r.pc = "lookup"
  BY <1>1 DEF Calls
<1> QED
  BY <1>1, <1>2 DEF Invalidate

LEMMA EndOutcome ==
  ASSUME TypeOK, NEW c \in Callers, Answered(c) \/ ReturnError(c) \/ RequestFails(c)
  PROVE  call'[c].pc = "idle" /\ ~calm'[c]
<1>1. \E pc : Step(c, pc, Ended)
  BY DEF Answered, ReturnError, RequestFails
<1>2. calm' = [calm EXCEPT ![c] = FALSE]
  BY DEF Answered, ReturnError, RequestFails
<1> QED
  BY <1>1, <1>2, StepResult DEF Ended, TypeOK

LEMMA OthersKeep ==
  ASSUME TypeOK, NEW c \in Callers, BeginCall(c) \/ Proxy(c) \/ RequestFails(c)
  PROVE  \A d \in Callers \ {c} : call'[d] = call[d]
<1>1. \E pc, r : Step(c, pc, r)
  BY DEF BeginCall, Proxy, RequestFails, Cached, NotCached, ReadToken, NoToken, FindPod, NoPod,
         StoreAccess, Answered, Invalidate, Refused, ReturnError
<1> QED
  BY <1>1, StepResult

LEMMA OthersDoNotCall ==
  ASSUME \/ External \/ AccessExpires \/ UNCHANGED vars
         \/ \E h \in Handlers : Request(h) \/ Handle(h)
  PROVE  UNCHANGED call
BY DEF External, ApplyWork, FinishDeletion, ReplacePod, PodTerminates, Annotate, AccessExpires,
       vars, Handle, Request, DeleteWork, ForgetAgent, PollDeletion, GetWork, ChooseImage, WriteWork

LEMMA PodStep == TypeOK /\ PodChosen /\ [Next]_vars => PodChosen'
<1> SUFFICES ASSUME TypeOK, PodChosen, [Next]_vars
             PROVE  PodChosen'
  OBVIOUS
<1>1. CASE UNCHANGED call
  BY <1>1 DEF PodChosen
<1>2. ASSUME NEW c \in Callers, BeginCall(c) \/ Proxy(c) \/ RequestFails(c)
      PROVE  PodChosen'
  <2>1. 0 \notin pods
    BY DEF TypeOK
  <2>2. call'[c].pc = "store" => call'[c].pod # 0
    BY <1>2, <2>1, BeginOutcome, ResolveOutcome, FailOutcome, StoreOutcome, InvalidateOutcome,
       EndOutcome DEF Proxy, Resolves, Fails
  <2> QED
    BY <1>2, <2>2, OthersKeep DEF PodChosen
<1> QED
  BY <1>1, <1>2, OthersDoNotCall DEF Next

-----------------------------------------------------------------------------
(* Calm calls *)

LEMMA Disturbed ==
  ASSUME TypeOK, NEW c \in Callers,
         External \/ (\E h \in Handlers : DeleteWork(h) \/ ForgetAgent(h) \/ WriteWork(h)),
         ~Annotate
  PROVE  ~calm'[c]
BY DEF External, ApplyWork, FinishDeletion, ReplacePod, PodTerminates, DeleteWork, ForgetAgent,
       WriteWork, Disturb

LEMMA CalmStep ==
  ASSUME AccessInv, [Next]_vars, NEW c \in Callers
  PROVE  CalmOK(c)'
<1> USE DEF AccessInv
<1>1. ASSUME UNCHANGED <<work, pods, secret, call, calm>>, cache' # None => cache'.token = cache.token,
             cache' # None => cache # None, cache = None => cache' = None
      PROVE  CalmOK(c)'
  BY <1>1 DEF CalmOK, ResolvedOK, RetriedOK
<1>2. CASE UNCHANGED <<work, pods, secret, call, calm, cache>>
  BY <1>1, <1>2
<1>3. CASE AccessExpires
  BY <1>1, <1>3 DEF AccessExpires, clusterVars, TypeOK, Accesses
<1>4. ASSUME NEW h \in Handlers, Request(h) \/ PollDeletion(h) \/ GetWork(h) \/ ChooseImage(h)
      PROVE  CalmOK(c)'
  BY <1>2, <1>4 DEF Request, PollDeletion, GetWork, ChooseImage, clusterVars
<1>5. CASE Annotate
  BY <1>2, <1>5 DEF Annotate
<1>6. CASE External \/ \E h \in Handlers : DeleteWork(h) \/ ForgetAgent(h) \/ WriteWork(h)
  BY <1>5, <1>6, Disturbed DEF CalmOK
<1>7. ASSUME NEW d \in Callers, BeginCall(d)
      PROVE  CalmOK(c)'
  <2>1. CASE ~(c = d /\ Calm)
    BY <1>7, <2>1 DEF BeginCall, CalmOK
  <2>2. CASE c = d /\ Calm
    <3>1. UNCHANGED <<clusterVars, cache>>
      BY <1>7, <2>2, CallsOnlyRead DEF BeginCall
    <3>2. \E p : pods = {p}
      <4>1. IsFiniteSet(1..created)
        BY FS_Interval DEF TypeOK
      <4>2. IsFiniteSet(pods)
        BY <4>1, FS_Subset DEF TypeOK
      <4> QED
        BY <2>2, <4>2, FS_Singleton DEF Calm
    <3>3. \A e \in Callers \ {c} : call'[e].pc = "idle"
      BY <1>7, <2>2, OthersKeep DEF Calm
    <3>4. call'[c].pc = "lookup" /\ ~call'[c].retried
      BY <1>7, <2>2, BeginOutcome
    <3> QED
      BY <2>2, <3>1, <3>2, <3>3, <3>4 DEF Calm, CalmOK, ResolvedOK, RetriedOK, clusterVars
  <2> QED
    BY <2>1, <2>2
<1>8. ASSUME NEW d \in Callers, Proxy(d) \/ RequestFails(d), calm'[c]
      PROVE  CalmOK(c)'
  <2>1. UNCHANGED clusterVars /\ calm[c]
    <3>1. UNCHANGED clusterVars
      BY <1>8, CallsOnlyRead
    <3>2. calm' = calm \/ calm' = [calm EXCEPT ![d] = FALSE]
      BY <1>8 DEF Proxy, RequestFails, Cached, NotCached, ReadToken, NoToken, FindPod, NoPod,
           StoreAccess, Answered, Invalidate, Refused, ReturnError
    <3> QED
      BY <1>8, <3>1, <3>2 DEF TypeOK
  <2>2. call[d].pc # "idle"
    <3>1. \E pc, r : pc # "idle" /\ Step(d, pc, r)
      BY <1>8 DEF Proxy, RequestFails, Cached, NotCached, ReadToken, NoToken, FindPod,
         NoPod, StoreAccess, Answered, Invalidate, Refused, ReturnError
    <3> QED
      BY <3>1, StepResult
  <2>3. c = d
    BY <2>1, <2>2 DEF CalmOK
  <2>4. \A e \in Callers \ {c} : call'[e].pc = "idle"
    BY <1>8, <2>1, <2>3, OthersKeep DEF CalmOK
  <2>5. /\ work.state = "live" /\ work.fed /\ secret = work.born /\ (\E p : pods = {p})
        /\ cache # None => cache.token = secret
        /\ ResolvedOK(c) /\ RetriedOK(c)
    BY <2>1 DEF CalmOK, WorkOK
  <2>6. CASE Cached(c) \/ NotCached(c) \/ ReadToken(c) \/ FindPod(c)
    BY <2>1, <2>4, <2>5, <2>6, ResolveOutcome
       DEF CalmOK, ResolvedOK, RetriedOK, Resolves, clusterVars
  <2>7. ~(NoToken(c) \/ NoPod(c) \/ Refused(c))
    BY <2>5, FailOutcome DEF Fails, ResolvedOK, RetriedOK
  <2>8. CASE StoreAccess(c)
    BY <2>1, <2>4, <2>5, <2>8, StoreOutcome DEF CalmOK, ResolvedOK, RetriedOK, clusterVars
  <2>9. CASE Invalidate(c)
    BY <2>1, <2>4, <2>5, <2>9, InvalidateOutcome DEF CalmOK, ResolvedOK, RetriedOK, clusterVars
  <2>10. ~(Answered(c) \/ ReturnError(c) \/ RequestFails(c))
    BY <1>8, EndOutcome
  <2> QED
    BY <1>8, <2>3, <2>6, <2>7, <2>8, <2>9, <2>10 DEF Proxy
<1>9. ASSUME NEW d \in Callers, Proxy(d) \/ RequestFails(d)
      PROVE  CalmOK(c)'
  BY <1>8, <1>9 DEF CalmOK
<1>10. CASE UNCHANGED vars
  BY <1>2, <1>10 DEF vars, clusterVars
<1> QED
  BY <1>3, <1>4, <1>6, <1>7, <1>9, <1>10 DEF Next, Handle

-----------------------------------------------------------------------------
(* Theorems *)

LEMMA AccessStep == AccessInv /\ [Next]_vars => AccessInv'
BY TypeStep, WorkStep, ReadStep, PodStep, CalmStep DEF AccessInv

(* Work, handlers, cache and calls agree in every reachable state.         *)
THEOREM AccessIsConsistent == Spec => []AccessInv
BY AccessInitial, AccessStep, PTL DEF Spec

(* Every reachable state is one the types of acm.go allow.                 *)
THEOREM AccessTypeCorrect == Spec => []TypeOK
<1>1. AccessInv => TypeOK
  BY DEF AccessInv
<1> QED
  BY <1>1, AccessIsConsistent, PTL

(* The replacement of a pod is not seen by a caller that is not disturbed  *)
(* by anything else.                                                       *)
THEOREM ReplacementIsMasked == Spec => []PodReplacementIsMasked
<1>1. AccessInv => PodReplacementIsMasked
  BY DEF AccessInv, CalmOK, ResolvedOK, PodReplacementIsMasked
<1> QED
  BY <1>1, AccessIsConsistent, PTL

(* No deployment that has read the annotation overwrites one whose image   *)
(* was chosen later.                                                       *)
THEOREM ImagesAdvance == Spec => NoOlderImage
<1>1. AccessInv /\ [Next]_vars => [work'.born = work.born /\ work'.read => work'.asOf >= work.asOf]_vars
  <2> SUFFICES ASSUME AccessInv, [Next]_vars, work'.born = work.born
               PROVE  work'.asOf >= work.asOf
    OBVIOUS
  <2>1. work \in Works /\ handler \in [Handlers -> Requests]
    BY DEF AccessInv, TypeOK
  <2>2. CASE work'.asOf = work.asOf
    BY <2>1, <2>2 DEF Works
  <2>3. ASSUME NEW h \in Handlers, WriteWork(h), Accepted(h), handler[h].seen # 0,
               handler[h].read, work'.asOf = handler[h].asOf
        PROVE  work'.asOf >= work.asOf
    BY <2>3 DEF AccessInv, ReadOK, WriteWork, Accepted
  <2> QED
    BY <2>2, <2>3, WorkVersions DEF AccessInv
<1> QED
  BY <1>1, AccessIsConsistent, PTL DEF Spec, NoOlderImage
=============================================================================
