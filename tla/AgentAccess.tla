---------------------------- MODULE AgentAccess ----------------------------
(***************************************************************************)
(* The agent of one managed cluster as the hub sees it                     *)
(* (src/internal/acm/acm.go): its ManifestWork, which DeployAgent,         *)
(* RemoveAgent and RedeployAgent write, and the cached access (token and   *)
(* pod name) that getAgentAccess resolves for the calls proxied to the     *)
(* agent.  Everything here is keyed by the cluster name, so one cluster    *)
(* stands for all.  The map of deployed agents (c.agents) is left out:     *)
(* only EnsureAgents reads it, which nothing calls.                        *)
(*                                                                         *)
(* A handler does every request to the API server without holding a lock,  *)
(* so each request is a step of its own.  The controllers of the hub and   *)
(* of the managed cluster (applying the work, finishing its deletion,      *)
(* replacing pods) are external and act at any time.                       *)
(***************************************************************************)
EXTENDS Naturals, FiniteSets

CONSTANTS
  Handlers,      \* requests that deploy, remove or redeploy the agent
  Callers,       \* handlers whose calls are proxied to the agent
  MaxDeletionPolls, \* 30 in RedeployAgent
  MaxTokenPolls,    \* 15 in getAgentToken
  MaxImages,     \* bound: changes of the agent-image annotation
  MaxPods,       \* bound: agent pods that are ever created
  None

ASSUME BoundsAssumption ==
  /\ MaxDeletionPolls \in Nat /\ MaxImages \in Nat /\ MaxPods \in Nat
  /\ MaxTokenPolls \in Nat \ {0}
ASSUME NoneAssumption == None \notin [token : Nat, pod : Nat, fresh : BOOLEAN]

VARIABLES
  work,        \* the ManifestWork on the hub
  revision,    \* the API server's resource version counter
  annotation,  \* version of the agent-image annotation, 0 when there is none
  secret,      \* the life of the work whose token the cluster accepts, 0: none
  pods,        \* the agent's pods whose phase is Running
  created,     \* agent pods created so far; they are numbered
  cache,       \* c.accessCache[clusterName]
  handler,     \* the requests that write the work
  call,        \* the proxied calls
  calm         \* history: nothing but this call happened since it began

clusterVars == <<work, revision, annotation, secret, pods, created>>
vars == <<clusterVars, cache, handler, call, calm>>

Ops == {"deploy", "remove", "redeploy"}
Deploying == {"get", "image", "write"}
HandlerSteps == {"idle", "delete", "forget", "wait", "ok", "failed"} \cup Deploying
Resolving == {"token", "pod", "store"}
CallSteps == {"idle", "lookup", "proxy", "error"} \cup Resolving

(* A work that does not exist has revision 0.  born is the revision it was *)
(* created with; read when the cluster's annotation decided on its image,  *)
(* not read when that is the global image because nobody got to read the   *)
(* annotation; asOf the newest version of the annotation that has decided  *)
(* on an image of this work; fed when the feedback carries the token.      *)
Absent == [state |-> "absent", born |-> 0, rv |-> 0, asOf |-> 0, read |-> FALSE, fed |-> FALSE]

Deployed == [Absent EXCEPT !.state = "live", !.born = 1, !.rv = 1]

(* The hub starts; an agent may have been deployed before that.            *)
Init ==
  /\ work \in {Absent, Deployed}
  /\ revision = work.rv
  /\ annotation = 0
  /\ secret = 0 /\ pods = {} /\ created = 0
  /\ cache = None
  /\ handler = [h \in Handlers |->
       [op |-> "deploy", pc |-> "idle", seen |-> 0, asOf |-> 0, read |-> FALSE, polls |-> 0]]
  /\ call = [c \in Callers |-> [pc |-> "idle", token |-> 0, pod |-> 0, retried |-> FALSE, polls |-> 0]]
  /\ calm = [c \in Callers |-> FALSE]

(* Whatever happens outside a call, or goes wrong in it, ends its calm.    *)
Disturb == calm' = [c \in Callers |-> FALSE]

-----------------------------------------------------------------------------
(* The controllers, the users of the clusters and time                     *)

(* The work agent applies a work: the token secret exists, a pod runs and  *)
(* the feedback rules have reported the token.                             *)
ApplyWork ==
  /\ work.state = "live" /\ ~work.fed /\ created < MaxPods
  /\ revision' = revision + 1
  /\ work' = [work EXCEPT !.fed = TRUE, !.rv = revision + 1]
  /\ secret' = work.born
  /\ created' = created + 1 /\ pods' = {created + 1}
  /\ Disturb
  /\ UNCHANGED <<annotation, cache, handler, call>>

(* Foreground deletion: the work goes when the agent's resources are gone. *)
FinishDeletion ==
  /\ work.state = "leaving"
  /\ work' = Absent
  /\ secret' = 0 /\ pods' = {}
  /\ Disturb
  /\ UNCHANGED <<revision, annotation, created, cache, handler, call>>

(* The Deployment replaces its pod; the old one is listed as Running until *)
(* it has terminated.                                                      *)
ReplacePod ==
  /\ pods # {} /\ created < MaxPods
  /\ created' = created + 1 /\ pods' = pods \cup {created + 1}
  /\ Disturb
  /\ UNCHANGED <<work, revision, annotation, secret, cache, handler, call>>

PodTerminates ==
  /\ \E p \in pods : p # created /\ pods' = pods \ {p}
  /\ Disturb
  /\ UNCHANGED <<work, revision, annotation, secret, created, cache, handler, call>>

Annotate ==
  /\ annotation < MaxImages
  /\ annotation' = annotation + 1
  /\ UNCHANGED <<work, revision, secret, pods, created, cache, handler, call, calm>>

(* Ten minutes have passed since the entry was stored.                     *)
AccessExpires ==
  /\ cache # None /\ cache.fresh
  /\ cache' = [cache EXCEPT !.fresh = FALSE]
  /\ UNCHANGED <<clusterVars, handler, call, calm>>

-----------------------------------------------------------------------------
(* DeployAgent, RemoveAgent, RedeployAgent *)

(* What a request has read is forgotten when it is no longer needed.       *)
Goto(h, pc) ==
  handler' = [handler EXCEPT ![h] = [op |-> @.op, pc |-> pc, seen |-> 0, asOf |-> 0,
                                     read |-> FALSE, polls |-> 0]]

Request(h) ==
  /\ handler[h].pc = "idle"
  /\ \E op \in Ops :
       handler' = [handler EXCEPT ![h].op = op,
                                  ![h].pc = IF op = "deploy" THEN "get" ELSE "delete"]
  /\ UNCHANGED <<clusterVars, cache, call, calm>>

(* RemoveAgent: the DELETE.  404 is as good as success; on any other error *)
(* the handler fails, also when the request was carried out and only its   *)
(* answer was lost.                                                        *)
DeleteWork(h) ==
  /\ handler[h].pc = "delete"
  /\ \E carriedOut, answered \in BOOLEAN :
       /\ answered => carriedOut
       /\ work' = IF carriedOut /\ work.state = "live"
                  THEN [work EXCEPT !.state = "leaving", !.rv = revision + 1]
                  ELSE work
       /\ Goto(h, IF answered THEN "forget" ELSE "failed")
  /\ revision' = IF work' # work THEN revision + 1 ELSE revision
  /\ Disturb
  /\ UNCHANGED <<annotation, secret, pods, created, cache, call>>

(* RemoveAgent: the critical section.                                      *)
ForgetAgent(h) ==
  /\ handler[h].pc = "forget"
  /\ cache' = None
  /\ Goto(h, IF handler[h].op = "redeploy" THEN "wait" ELSE "ok")
  /\ Disturb
  /\ UNCHANGED <<clusterVars, call>>

(* RedeployAgent: a poll for the 404.  Any other answer, or none, counts   *)
(* as still there, and after the last poll it deploys all the same.        *)
PollDeletion(h) ==
  /\ handler[h].pc = "wait"
  /\ \/ /\ handler[h].polls < MaxDeletionPolls
        /\ \/ work.state = "absent" /\ Goto(h, "get")
           \/ handler' = [handler EXCEPT ![h].polls = @ + 1]
     \/ handler[h].polls = MaxDeletionPolls /\ Goto(h, "get")
  /\ UNCHANGED <<clusterVars, cache, call, calm>>

(* DeployAgent: the GET.  A failing one looks like a missing work.         *)
GetWork(h) ==
  /\ handler[h].pc = "get"
  /\ \E rv \in {work.rv, 0} :
       handler' = [handler EXCEPT ![h].pc = "image", ![h].seen = rv]
  /\ UNCHANGED <<clusterVars, cache, call, calm>>

(* clusterAgentImage: the annotation decides, by naming an image or by not *)
(* being there; when its GET fails the global image is taken, silently.    *)
ChooseImage(h) ==
  /\ handler[h].pc = "image"
  /\ \E read \in BOOLEAN :
       handler' = [handler EXCEPT ![h].pc = "write", ![h].read = read,
                                  ![h].asOf = IF read THEN annotation ELSE 0]
  /\ UNCHANGED <<clusterVars, cache, call, calm>>

(* Wrong: the PUT carries no resource version.                             *)
AcceptedAnyVersion(h) ==
  IF handler[h].seen = 0 THEN work.state = "absent" ELSE work.state # "absent"

(* PUT with the resource version that was read, which any other write in   *)
(* between makes fail, or POST, which fails when there is a work.          *)
Accepted(h) ==
  IF handler[h].seen = 0 THEN work.state = "absent" ELSE work.rv = handler[h].seen

Written(h) ==
  LET chosen == [work EXCEPT !.asOf = IF handler[h].read THEN handler[h].asOf ELSE @,
                             !.read = handler[h].read, !.rv = revision + 1]
  IN  IF handler[h].seen = 0
      THEN [chosen EXCEPT !.state = "live", !.born = revision + 1]
      ELSE chosen

WriteWork(h) ==
  /\ handler[h].pc = "write"
  /\ \/ /\ Accepted(h)
        /\ work' = Written(h) /\ revision' = revision + 1
        /\ \E pc \in {"ok", "failed"} : Goto(h, pc)   \* failed: the answer is lost
     \/ Goto(h, "failed") /\ UNCHANGED <<work, revision>>
  /\ Disturb
  /\ UNCHANGED <<annotation, secret, pods, created, cache, call>>

Handle(h) ==
  \/ DeleteWork(h) \/ ForgetAgent(h) \/ PollDeletion(h)
  \/ GetWork(h) \/ ChooseImage(h) \/ WriteWork(h)

-----------------------------------------------------------------------------
(* getAgentAccess and proxyAgentGetRaw *)

(* One GET through the API server; failing disturbs the call.              *)
Step(c, pc, next) ==
  /\ call[c].pc = pc
  /\ call' = [call EXCEPT ![c] = next]
  /\ UNCHANGED <<clusterVars, handler>>

(* The call ends, with an answer or an error; the fields are local.        *)
Ended == [pc |-> "idle", token |-> 0, pod |-> 0, retried |-> FALSE, polls |-> 0]

(* A call begins.  It is calm while the agent runs, its token has been     *)
(* reported, no handler is writing and no other call is under way; the     *)
(* token in the cache, if any, is current.                                 *)
Calm ==
  /\ work.state = "live" /\ work.fed /\ Cardinality(pods) = 1
  /\ \A h \in Handlers : handler[h].pc \in {"idle", "ok", "failed"}
  /\ \A d \in Callers : call[d].pc = "idle"
  /\ cache # None => cache.token = secret

BeginCall(c) ==
  /\ Step(c, "idle", [Ended EXCEPT !.pc = "lookup"])
  /\ calm' = [d \in Callers |-> d = c /\ Calm]
  /\ UNCHANGED cache

(* Wrong: the expiry time is not looked at.                                *)
UsableForEver == cache # None

(* A cached access is used until it expires.                               *)
Usable == cache # None /\ cache.fresh

Cached(c) ==
  /\ Usable
  /\ Step(c, "lookup", [call[c] EXCEPT !.pc = "proxy", !.token = cache.token, !.pod = cache.pod])
  /\ UNCHANGED <<cache, calm>>

NotCached(c) ==
  /\ ~Usable
  /\ Step(c, "lookup", [call[c] EXCEPT !.pc = "token", !.polls = 0])
  /\ UNCHANGED <<cache, calm>>

(* The URL of the cluster does not change, so its GET is one more request  *)
(* that may fail.  getAgentToken: up to MaxTokenPolls reads of the work's  *)
(* feedback.                                                               *)
ReadToken(c) ==
  /\ work.state # "absent" /\ call[c].polls < MaxTokenPolls
  /\ IF work.fed
     THEN Step(c, "token", [call[c] EXCEPT !.pc = "pod", !.token = work.born])
     ELSE Step(c, "token", [call[c] EXCEPT !.polls = @ + 1])
  /\ UNCHANGED <<cache, calm>>

(* The last poll is over, or there is no work.                             *)
NoToken(c) ==
  /\ work.state = "absent" \/ call[c].polls = MaxTokenPolls
  /\ Step(c, "token", [Ended EXCEPT !.pc = "error"])
  /\ UNCHANGED <<cache, calm>>

(* Wrong: the loop's "not found" is stored as an empty pod name.           *)
FindAnyPod(c) ==
  /\ call[c].token = secret
  /\ \E p \in pods \cup {0} : Step(c, "pod", [call[c] EXCEPT !.pc = "store", !.pod = p])
  /\ UNCHANGED <<cache, calm>>

(* findAgentPod: the first pod that is Running, be it on its way out.      *)
FindPod(c) ==
  /\ call[c].token = secret
  /\ \E p \in pods : Step(c, "pod", [call[c] EXCEPT !.pc = "store", !.pod = p])
  /\ UNCHANGED <<cache, calm>>

(* The critical section at the end of getAgentAccess: unconditional.       *)
StoreAccess(c) ==
  /\ Step(c, "store", [call[c] EXCEPT !.pc = "proxy"])
  /\ cache' = [token |-> call[c].token, pod |-> call[c].pod, fresh |-> TRUE]
  /\ UNCHANGED calm

(* proxyAgentGetRaw: the agent answers ...                                 *)
Answered(c) ==
  /\ call[c].token = secret /\ call[c].pod \in pods
  /\ Step(c, "proxy", Ended)
  /\ calm' = [calm EXCEPT ![c] = FALSE]
  /\ UNCHANGED cache

(* ... or the API server says that there is no such pod: the first time    *)
(* the access is invalidated and resolved again, ...                       *)
NotFound(c) == call[c].token = secret /\ call[c].pod \notin pods

(* Wrong: resolved again without being invalidated.                        *)
InvalidateNothing(c) ==
  /\ NotFound(c) /\ ~call[c].retried
  /\ Step(c, "proxy", [call[c] EXCEPT !.pc = "lookup", !.retried = TRUE])
  /\ UNCHANGED <<cache, calm>>

Invalidate(c) ==
  /\ NotFound(c) /\ ~call[c].retried
  /\ Step(c, "proxy", [call[c] EXCEPT !.pc = "lookup", !.retried = TRUE])
  /\ cache' = None
  /\ UNCHANGED calm

(* ... the second time, and after any other error (the token is refused),  *)
(* the call fails; the cached access stays.                                *)
Refused(c) ==
  /\ (NotFound(c) /\ call[c].retried) \/ call[c].token # secret
  /\ Step(c, "proxy", [Ended EXCEPT !.pc = "error"])
  /\ UNCHANGED <<cache, calm>>

(* The cluster answers no pod, or refuses the token, when it is asked for  *)
(* the pods.                                                               *)
NoPod(c) ==
  /\ call[c].token # secret \/ pods = {}
  /\ Step(c, "pod", [Ended EXCEPT !.pc = "error"])
  /\ UNCHANGED <<cache, calm>>

(* The error is returned to the browser, which may ask again.              *)
ReturnError(c) ==
  /\ Step(c, "error", Ended)
  /\ calm' = [calm EXCEPT ![c] = FALSE]
  /\ UNCHANGED cache

(* A request of the call is lost or times out.                             *)
RequestFails(c) ==
  /\ \E pc \in {"token", "pod", "proxy"} : Step(c, pc, Ended)
  /\ calm' = [calm EXCEPT ![c] = FALSE]
  /\ UNCHANGED cache

Proxy(c) ==
  \/ Cached(c) \/ NotCached(c) \/ ReadToken(c) \/ NoToken(c)
  \/ FindPod(c) \/ NoPod(c) \/ StoreAccess(c)
  \/ Answered(c) \/ Invalidate(c) \/ Refused(c) \/ ReturnError(c)

-----------------------------------------------------------------------------
External == ApplyWork \/ FinishDeletion \/ ReplacePod \/ PodTerminates \/ Annotate

Next ==
  \/ External
  \/ AccessExpires
  \/ \E h \in Handlers : Request(h) \/ Handle(h)
  \/ \E c \in Callers : BeginCall(c) \/ Proxy(c) \/ RequestFails(c)

Spec == Init /\ [][Next]_vars

(* Time passes, and a call goes on: every request has a timeout of 30 s    *)
(* (src/internal/k8s/client.go) and every loop a last poll.                *)
Fairness ==
  /\ WF_vars(AccessExpires)
  /\ \A c \in Callers : WF_vars(Proxy(c) \/ RequestFails(c))

FairSpec == Spec /\ Fairness

-----------------------------------------------------------------------------
Works == [state : {"absent", "live", "leaving"}, born : Nat, rv : Nat, asOf : Nat,
          read : BOOLEAN, fed : BOOLEAN]
Accesses == [token : Nat, pod : Nat \ {0}, fresh : BOOLEAN]
Requests == [op : Ops, pc : HandlerSteps, seen : Nat, asOf : Nat, read : BOOLEAN, polls : Nat]
Calls == [pc : CallSteps, token : Nat, pod : Nat, retried : BOOLEAN, polls : Nat]

(* The variables have the types of acm.go; an access names a pod.          *)
TypeOK ==
  /\ revision \in Nat /\ annotation \in Nat /\ created \in Nat /\ secret \in Nat
  /\ work \in Works
  /\ pods \subseteq 1..created
  /\ cache \in Accesses \cup {None}
  /\ handler \in [Handlers -> Requests]
  /\ call \in [Callers -> Calls]
  /\ calm \in [Callers -> BOOLEAN]

(* Of two deployments that overlap and have read the annotation, the one   *)
(* whose image was chosen from an older annotation never overwrites the    *)
(* other's, because the image is chosen after the work was read and the    *)
(* work is replaced only at the version that was read; nor does an older   *)
(* image come back after a deployment that could not read the annotation.  *)
(* Such a deployment itself puts the global image in (AnnotatedImageStays).*)
NoOlderImage ==
  [][work'.born = work.born /\ work'.read => work'.asOf >= work.asOf]_vars

(* "If the ManagedCluster has an ocp-support-web/agent-image annotation,   *)
(* that value is used": while a work whose image the annotation named is   *)
(* not deleted, no deployment gives it the global image instead.           *)
AnnotatedImageStays ==
  [][work'.born = work.born /\ work.read /\ work.asOf # 0 => work'.read]_vars

(* When a pod was replaced since its name was cached, and nothing else     *)
(* happens during the call, the caller does not notice: the 404 makes      *)
(* proxyAgentGetRaw drop the cached access and resolve it anew, and what   *)
(* that finds is the pod that runs.                                        *)
PodReplacementIsMasked == \A c \in Callers : calm[c] => call[c].pc # "error"

(* A call that began before the agent was removed or redeployed may store  *)
(* its access afterwards, with a token that is no longer accepted.  Only   *)
(* the ten minutes of the cache get rid of it; then no call uses it again. *)
StaleTokenIsForgotten ==
  <>[](Usable => cache.token = secret)

(* "RedeployAgent removes and redeploys the agent": once it has answered   *)
(* that the agent is redeployed, there is one that stays, when nobody else *)
(* changes the work.                                                       *)
RedeployedIsDeployed ==
  \A h \in Handlers :
    handler[h].op = "redeploy" /\ handler[h].pc = "ok" => work.state = "live"
=============================================================================
