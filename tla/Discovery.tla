------------------------------- MODULE Discovery -------------------------------
(***************************************************************************)
(* The manager's picture of the ZigBee network: m_mapNodesPhysical and     *)
(* m_mapNodesLogical of zib_manager/ZiBManager.cpp, the two jobs that walk *)
(* them (DiscoveryStart, AttributeHandleStart) on the main thread, and the *)
(* CONF handlers that fill them on ThreadProcessInMsg.                     *)
(*                                                                         *)
(* The jobs hold m_csNetDiscovery while they walk and release it around    *)
(* each request, with map iterators in hand.  Requests follow RequestLink: *)
(* an answer may be handled long after its request timed out, in the       *)
(* window of another one, and a request may return the opposite of what    *)
(* became of its wait.                                                     *)
(*                                                                         *)
(* A path of the nested logical map exists or not: m_mapNodesLogical[n] in *)
(* nodes, [n][e] in eps, [n][e][c] in clusters.  An attribute's value is   *)
(* the number of the request whose answer stored it; 0 is the empty string *)
(* or no entry.  A MAC address is named by the node's network address, and *)
(* is zero for an entry operator[] made.  The thresholds and alarms of     *)
(* AttributeHandleStart are in ManagerJobs.                                *)
(***************************************************************************)
EXTENDS RequestLink, FiniteSets, SequencesExt

CONSTANTS Addr,        \* network addresses, ordered as std::map orders them
          Ep,          \* endpoints but 0, which both jobs leave without clusters
          Cluster,
          Attr,        \* the attributes m_mapClusterAttributes gives a cluster
          MaxJobs,     \* bound: the jobs run
          MaxStray,    \* bound: old answers still to come when a request is sent
          MaxFaults    \* bound: outcomes overwritten and row updates lost

ASSUME DiscoveryAssumption ==
    /\ \A S \in {Addr, Ep, Cluster, Attr} : S \subseteq Nat \ {0}
    /\ MaxJobs \in Nat /\ MaxStray \in Nat /\ MaxFaults \in Nat

VARIABLES
    nodes, eps, clusters,   \* m_mapNodesLogical, by depth
    value,                  \* its innermost maps
    physical,               \* m_mapNodesPhysical: "absent", "zero" or "real"
    locked,                 \* the main thread is inside m_csNetDiscovery
    pc,                     \* the main thread in its job
    at,                     \* the key each loop is at, 0 before its first
    dangling,               \* the loops whose iterator's map was replaced
    asked,                  \* what each request asked for
    handling,               \* the answer a handler is storing, and what is left
    rows,                   \* t_nodes: no row, "offline" or "online"
    attrRows,               \* t_attributes
    recorded,               \* the last row of t_attributes_history
    refused,                \* history: the database refused an insertion
    jobs,                   \* jobs started
    stray,                  \* history: an answer outlived its request
    askedNodes,             \* history: nodes this discovery asked for endpoints
    repliedNodes,           \* history: nodes whose EP_LIST_CONF it has handled
    excused,                \* history: nodes whose EpListReq returned success without
                            \* a CONF, or whose online update was lost
    faults                  \* outcomes overwritten and updates lost

mapVars == <<nodes, eps, clusters, value, physical>>
dbVars == <<rows, attrRows, recorded, refused>>
mainVars == <<locked, pc, at, jobs, askedNodes>>
handlerVars == <<handling, repliedNodes, dangling>>
faultVars == <<excused, faults>>
historyVars == <<asked, stray, faultVars>>
vars == <<requestVars, mapVars, dbVars, mainVars, handlerVars, historyVars>>

--------------------------------------------------------------------------------

Path == Addr \X Ep \X Cluster \X Attr

NoRequest == [kind |-> "NONE", path |-> <<0, 0, 0, 0>>]
NotHandling == [id |-> 0, items |-> {}]
NoRecord == [path |-> <<0, 0, 0, 0>>, answer |-> 0, request |-> 0, truthful |-> FALSE]
Before == [node |-> 0, ep |-> 0, cluster |-> 0, attr |-> 0]
Here == <<at.node, at.ep, at.cluster, at.attr>>

(* The keys of a std::map after k, and the first of them. *)
After(S, k) == {x \in S : x > k}
First(S) == CHOOSE x \in S : \A y \in S : x <= y

EpsOf(n) == {e \in Ep : <<n, e>> \in eps}
ClustersOf(n, e) == {c \in Cluster : <<n, e, c>> \in clusters}

(* The prefix of length k of a path, as a set: empty if the path is shorter. *)
UpTo(x, k) == IF Len(x) >= k THEN {SubSeq(x, 1, k)} ELSE {}

(* The last request returned what became of its wait. *)
Truthful == outcome = IF answered THEN "SUCCESS" ELSE "FAILED"

(* Rows of t_attributes and of its history refer to t_nodes by MAC address. *)
HasRow(n) == physical[n] = "real" /\ rows[n] # "none"

Init ==
    /\ LinkInit
    /\ nodes = {} /\ eps = {} /\ clusters = {}
    /\ value = [p \in Path |-> 0]
    /\ physical = [n \in Addr |-> "absent"]
    /\ locked = FALSE /\ pc = "idle" /\ at = Before
    /\ dangling = {}
    /\ asked = [r \in Requests |-> NoRequest]
    /\ handling = NotHandling
    /\ rows = [n \in Addr |-> "none"] /\ attrRows = {} /\ recorded = NoRecord
    /\ refused = FALSE
    /\ jobs = 0 /\ stray = FALSE
    /\ askedNodes = {} /\ repliedNodes = {} /\ excused = {} /\ faults = 0

--------------------------------------------------------------------------------
(* Requests of the main thread: Ask starts one, EndWait ends its wait, and *)
(* Return the request.                                                     *)

Ask(kind, from, to) ==
    /\ pc = from
    /\ Start
    /\ asked' = [asked EXCEPT ![cur + 1] = [kind |-> kind, path |-> Here]]
    /\ pc' = to
    /\ UNCHANGED <<mapVars, dbVars, locked, at, jobs, handlerVars, stray, faultVars>>

AskPanId == Ask("PAN_ID", "askPanId", "panId") /\ UNCHANGED askedNodes
AskNodeList == Ask("NODE_LIST", "askNodeList", "nodeList") /\ UNCHANGED askedNodes
AskEpList == Ask("EP_LIST", "askEpList", "epList")
             /\ askedNodes' = askedNodes \cup {at.node}
AskClusterList == Ask("CLUSTER_LIST", "askClusterList", "clusterList")
                  /\ UNCHANGED askedNodes
AskAttribute == Ask("ATTRIBUTE", "askAttribute", "attribute") /\ UNCHANGED askedNodes

(* The gateway answers two kinds from its memory, the rest by radio.        *)
(* MaxStray bounds the answers to come, never what the main thread does.   *)
SendRequest ==
    /\ Send
    /\ cur \in once' <=> cur \in open' /\ asked[cur].kind \in {"PAN_ID", "NODE_LIST"}
    /\ Cardinality(open') <= MaxStray + 1
    /\ UNCHANGED <<mapVars, dbVars, mainVars, handlerVars, historyVars>>

(* Seeded fault: the wait for the answer has no timeout. *)
EndWaitNeverTimesOut ==
    /\ Succeed
    /\ UNCHANGED <<mapVars, dbVars, mainVars, handlerVars, historyVars>>

EndWait ==
    /\ Succeed \/ GiveUp
    /\ UNCHANGED <<mapVars, dbVars, mainVars, handlerVars, historyVars>>

Resume == [panId |-> "askNodeList", nodeList |-> "storeNodes", epList |-> "gotEpList",
           clusterList |-> "gotClusterList", attribute |-> "gotAttribute"]

(* A request that returns while its answer, or the signal of one, is still *)
(* to come leaves a stray behind.                                          *)
Return ==
    /\ \/ ReturnTrue /\ UNCHANGED faults
       \/ ReturnOverwritten /\ faults < MaxFaults /\ faults' = faults + 1
    /\ stray' = (stray \/ cur \in open \/ parsed # 0)
    /\ asked' = IF cur \in open THEN asked ELSE [asked EXCEPT ![cur] = NoRequest]
    /\ pc' = Resume[pc]
    /\ UNCHANGED <<mapVars, dbVars, locked, at, jobs, askedNodes, handlerVars, excused>>

--------------------------------------------------------------------------------
(* DiscoveryStart. *)

(* Seeded fault: the logical map survives DiscoveryClear. *)
StartDiscoveryKeepsLogical ==
    /\ pc = "idle" /\ jobs < MaxJobs
    /\ physical' = [n \in Addr |-> "absent"]
    /\ pc' = "askPanId" /\ jobs' = jobs + 1
    /\ askedNodes' = {} /\ repliedNodes' = {} /\ excused' = {}
    /\ UNCHANGED <<requestVars, nodes, eps, clusters, value, dbVars, locked, at, handling,
                   dangling, asked, stray, faults>>

(* ProcessJobsTimer runs DiscoveryClear first, then DiscoveryStart. *)
StartDiscovery ==
    /\ pc = "idle" /\ jobs < MaxJobs
    /\ nodes' = {} /\ eps' = {} /\ clusters' = {}
    /\ value' = [p \in Path |-> 0]
    /\ physical' = [n \in Addr |-> "absent"]
    /\ pc' = "askPanId" /\ jobs' = jobs + 1
    /\ askedNodes' = {} /\ repliedNodes' = {} /\ excused' = {}
    /\ UNCHANGED <<requestVars, dbVars, locked, at, handling, dangling, asked, stray, faults>>

(* Every physical node gets a row, or keeps its row and its online status; *)
(* a failed insertion goes unnoticed.                                      *)
StoreNodes ==
    /\ pc = "storeNodes"
    /\ locked' = TRUE
    /\ \E lost \in SUBSET {n \in Addr : physical[n] = "real" /\ rows[n] = "none"} :
          /\ rows' = [n \in Addr |-> IF physical[n] = "real" /\ rows[n] = "none" /\ n \notin lost
                                     THEN "offline" ELSE rows[n]]
          /\ refused' = (refused \/ lost # {})
    /\ pc' = "nextNode" /\ at' = Before
    /\ UNCHANGED <<requestVars, mapVars, attrRows, recorded, jobs, askedNodes, handlerVars,
                   historyVars>>

(* Seeded fault: the loop moves its iterator on twice. *)
NextNodeSkips ==
    /\ pc = "nextNode"
    /\ locked' = FALSE
    /\ IF After(nodes, at.node + 1) = {}
       THEN pc' = "idle" /\ at' = Before
       ELSE pc' = "askEpList" /\ at' = [Before EXCEPT !.node = First(After(nodes, at.node + 1))]
    /\ UNCHANGED <<requestVars, mapVars, dbVars, jobs, askedNodes, handlerVars, historyVars>>

NextNode ==
    /\ pc = "nextNode"
    /\ locked' = FALSE
    /\ IF After(nodes, at.node) = {}
       THEN pc' = "idle" /\ at' = Before
       ELSE pc' = "askEpList" /\ at' = [Before EXCEPT !.node = First(After(nodes, at.node))]
    /\ UNCHANGED <<requestVars, mapVars, dbVars, jobs, askedNodes, handlerVars, historyVars>>

(* Seeded fault: the return code of EpListReq is ignored. *)
GotEpListOnline ==
    /\ pc = "gotEpList"
    /\ locked' = TRUE
    /\ physical' = [physical EXCEPT ![at.node] = IF @ = "absent" THEN "zero" ELSE @]
    /\ rows' = IF HasRow(at.node) THEN [rows EXCEPT ![at.node] = "online"] ELSE rows
    /\ pc' = "nextEp"
    /\ UNCHANGED <<requestVars, nodes, eps, clusters, value, attrRows, recorded, refused, at,
                   jobs, askedNodes, handlerVars, historyVars>>

(* The online field is updated with the return code of EpListReq, by MAC   *)
(* address: operator[] adds a node of MAC zero if there was none.  Nobody  *)
(* looks whether FindNode or UpdateNode failed.                            *)
GotEpList ==
    /\ pc = "gotEpList"
    /\ locked' = TRUE
    /\ physical' = [physical EXCEPT ![at.node] = IF @ = "absent" THEN "zero" ELSE @]
    /\ \/ /\ LET status == IF outcome = "SUCCESS" THEN "online" ELSE "offline"
             IN  rows' = IF HasRow(at.node) THEN [rows EXCEPT ![at.node] = status] ELSE rows
          /\ excused' = IF outcome = "SUCCESS" /\ ~answered THEN excused \cup {at.node}
                        ELSE excused
          /\ UNCHANGED faults
       \/ /\ HasRow(at.node) /\ UNCHANGED rows
          /\ excused' = excused \cup {at.node}
          /\ faults < MaxFaults /\ faults' = faults + 1
    /\ pc' = "nextEp"
    /\ UNCHANGED <<requestVars, nodes, eps, clusters, value, attrRows, recorded, refused, at,
                   jobs, askedNodes, handlerVars, asked, stray>>

(* Seeded fault: the lock is not released before ClusterListReq. *)
WalkKeepsLock(from, S, it, into, back) ==
    /\ pc = from
    /\ \/ /\ it \in dangling
          /\ pc' = "undefined" /\ UNCHANGED at
       \/ /\ it \notin dangling
          /\ IF After(S, at[it]) = {}
             THEN pc' = back /\ at' = [at EXCEPT ![it] = 0]
             ELSE pc' = into /\ at' = [at EXCEPT ![it] = First(After(S, at[it]))]
    /\ locked' = (pc' \notin {"idle", "askAttribute"})
    /\ UNCHANGED <<requestVars, mapVars, dbVars, jobs, askedNodes, handlerVars, historyVars>>

(* A loop of a walk: on to the next key, or back to the loop around it.    *)
(* Incrementing an iterator whose map was replaced is undefined behaviour. *)
Walk(from, S, it, into, back) ==
    /\ pc = from
    /\ \/ /\ it \in dangling
          /\ pc' = "undefined" /\ UNCHANGED at
       \/ /\ it \notin dangling
          /\ IF After(S, at[it]) = {}
             THEN pc' = back /\ at' = [at EXCEPT ![it] = 0]
             ELSE pc' = into /\ at' = [at EXCEPT ![it] = First(After(S, at[it]))]
    /\ locked' = (pc' \notin {"idle", "askClusterList", "askAttribute"})
    /\ UNCHANGED <<requestVars, mapVars, dbVars, jobs, askedNodes, handlerVars, historyVars>>

NextEp == Walk("nextEp", EpsOf(at.node), "ep", "askClusterList", "nextNode")

(* Rows for the attributes of each cluster found. *)
GotClusterList ==
    /\ pc = "gotClusterList"
    /\ locked' = TRUE
    /\ nodes' = nodes \cup {at.node} /\ eps' = eps \cup {<<at.node, at.ep>>}
    /\ LET new == {p \in Path : SubSeq(p, 1, 2) = <<at.node, at.ep>> /\ SubSeq(p, 1, 3) \in clusters}
                  \ attrRows
       IN  \E lost \in {IF HasRow(at.node) THEN {} ELSE new, new} :
              /\ attrRows' = attrRows \cup (new \ lost)
              /\ refused' = (refused \/ lost # {})
    /\ pc' = "nextEp"
    /\ UNCHANGED <<requestVars, clusters, value, physical, rows, recorded, at, jobs,
                   askedNodes, handlerVars, historyVars>>

--------------------------------------------------------------------------------
(* AttributeHandleStart. *)

StartAttributes ==
    /\ pc = "idle" /\ 0 < jobs /\ jobs < MaxJobs
    /\ pc' = "attrNode" /\ jobs' = jobs + 1
    /\ locked' = TRUE /\ at' = Before
    /\ UNCHANGED <<requestVars, mapVars, dbVars, askedNodes, handlerVars, historyVars>>

AttrNode == Walk("attrNode", nodes, "node", "attrEp", "idle")
AttrEp == Walk("attrEp", EpsOf(at.node), "ep", "attrCluster", "attrNode")
AttrCluster == Walk("attrCluster", ClustersOf(at.node, at.ep), "cluster", "attrAttr", "attrEp")
AttrAttr == Walk("attrAttr", Attr, "attr", "askAttribute", "attrCluster")

(* Seeded fault: the return code of AttributeValueReq is ignored. *)
GotAttributeUnchecked ==
    /\ pc = "gotAttribute"
    /\ locked' = TRUE /\ pc' = "attrAttr"
    /\ recorded' = IF HasRow(at.node) /\ value[Here] # 0
                   THEN [path |-> Here, answer |-> value[Here], request |-> cur,
                         truthful |-> Truthful]
                   ELSE recorded
    /\ UNCHANGED <<requestVars, mapVars, at, rows, attrRows, refused, jobs, askedNodes,
                   handlerVars, historyVars>>

(* A failed request, or an empty value, ends the sweep of this cluster.    *)
(* Otherwise the value in the map is taken for the answer, and recorded if *)
(* the database takes it.  Looking a value up adds what is missing of its  *)
(* path.                                                                   *)
GotAttribute ==
    /\ pc = "gotAttribute"
    /\ locked' = TRUE
    /\ \/ /\ outcome # "SUCCESS"
          /\ pc' = "attrCluster" /\ at' = [at EXCEPT !.attr = 0]
          /\ UNCHANGED <<mapVars, recorded>>
       \/ /\ outcome = "SUCCESS"
          /\ nodes' = nodes \cup {at.node} /\ eps' = eps \cup UpTo(Here, 2)
          /\ clusters' = clusters \cup UpTo(Here, 3)
          /\ UNCHANGED value
          /\ \/ /\ value[Here] = 0
                /\ pc' = "attrCluster" /\ at' = [at EXCEPT !.attr = 0]
                /\ UNCHANGED <<physical, recorded>>
             \/ /\ value[Here] # 0
                /\ physical' = [physical EXCEPT ![at.node] = IF @ = "absent" THEN "zero" ELSE @]
                /\ \/ /\ HasRow(at.node)
                      /\ recorded' = [path |-> Here, answer |-> value[Here], request |-> cur,
                                      truthful |-> Truthful]
                   \/ UNCHANGED recorded
                /\ pc' = "attrAttr" /\ UNCHANGED at
    /\ UNCHANGED <<requestVars, rows, attrRows, refused, jobs, askedNodes, handlerVars,
                   historyVars>>

--------------------------------------------------------------------------------
(* The CONF handlers, on ThreadProcessInMsg. *)

(* What an answer may hold.  A list with an error status holds nothing; a  *)
(* value is only ever sent with success (ZiBGateway.c).                    *)
Items(q) ==
    CASE q.kind = "NODE_LIST" -> {<<n>> : n \in Addr}
      [] q.kind = "EP_LIST" -> {<<q.path[1], e>> : e \in Ep}
      [] q.kind = "CLUSTER_LIST" -> {<<q.path[1], q.path[2], c>> : c \in Cluster}
      [] q.kind = "ATTRIBUTE" -> {q.path}
      [] OTHER -> {}

BeginHandle(r) ==
    /\ parsed = 0 /\ handling.id = 0 /\ r \in open /\ \A l \in once : r <= l
    /\ \E S \in SUBSET Items(asked[r]) :
          /\ asked[r].kind = "ATTRIBUTE" => S # {}
          /\ handling' = [id |-> r, items |-> S]
    /\ UNCHANGED <<requestVars, mapVars, dbVars, mainVars, repliedNodes, dangling, historyVars>>

(* Seeded fault: an attribute's value replaces the map of its cluster. *)
StoreItemReplacesCluster(x) ==
    /\ x \in handling.items /\ ~locked
    /\ handling' = [handling EXCEPT !.items = @ \ {x}]
    /\ nodes' = nodes \cup {x[1]}
    /\ eps' = {y \in eps : ~IsPrefix(x, y)} \cup UpTo(x, 2)
    /\ clusters' = {y \in clusters : ~IsPrefix(x, y)} \cup UpTo(x, 3)
    /\ value' = [p \in Path |-> IF p = x THEN handling.id
                               ELSE IF \E y \in {x} \cup UpTo(x, 2) : IsPrefix(y, p) THEN 0 ELSE value[p]]
    /\ physical' = IF Len(x) = 1 THEN [physical EXCEPT ![x[1]] = "real"] ELSE physical
    /\ dangling' = dangling \cup {it \in {"cluster"} :
                        at.cluster # 0 /\ IsPrefix(<<at.node, at.ep>>, x)}
    /\ UNCHANGED <<requestVars, dbVars, mainVars, repliedNodes, historyVars>>

(* Seeded fault: a listed node keeps the clusters it had. *)
StoreItemKeepsClusters(x) ==
    /\ x \in handling.items /\ ~locked
    /\ handling' = [handling EXCEPT !.items = @ \ {x}]
    /\ nodes' = nodes \cup {x[1]}
    /\ eps' = {y \in eps : ~IsPrefix(x, y)} \cup UpTo(x, 2)
    /\ clusters' = clusters \cup UpTo(x, 3)
    /\ value' = [p \in Path |-> IF p = x THEN handling.id ELSE value[p]]
    /\ physical' = IF Len(x) = 1 THEN [physical EXCEPT ![x[1]] = "real"] ELSE physical
    /\ UNCHANGED <<requestVars, dbVars, mainVars, repliedNodes, dangling, historyVars>>

(* The handlers store item by item, each under the lock.  An item replaces *)
(* what the map holds below its path: iterators into that are lost.        *)
StoreItem(x) ==
    /\ x \in handling.items /\ ~locked
    /\ handling' = [handling EXCEPT !.items = @ \ {x}]
    /\ nodes' = nodes \cup {x[1]}
    /\ eps' = {y \in eps : ~IsPrefix(x, y)} \cup UpTo(x, 2)
    /\ clusters' = {y \in clusters : ~IsPrefix(x, y)} \cup UpTo(x, 3)
    /\ \E v \in {0, handling.id} :
          value' = [p \in Path |-> IF ~IsPrefix(x, p) THEN value[p] ELSE IF p = x THEN v ELSE 0]
    /\ physical' = IF Len(x) = 1 THEN [physical EXCEPT ![x[1]] = "real"] ELSE physical
    /\ dangling' = dangling \cup {it \in {"ep", "cluster"} :
                        at[it] # 0 /\ IsPrefix(x, IF it = "ep" THEN <<at.node>> ELSE <<at.node, at.ep>>)}
    /\ UNCHANGED <<requestVars, dbVars, mainVars, repliedNodes, historyVars>>

EndHandle ==
    /\ handling.id # 0 /\ handling.items = {}
    /\ Handle(handling.id)
    /\ handling' = NotHandling
    /\ LET q == asked[handling.id]
       IN  repliedNodes' = IF q.kind = "EP_LIST" THEN repliedNodes \cup {q.path[1]}
                           ELSE repliedNodes
    /\ asked' = IF handling.id \in open' \/ (handling.id = cur /\ phase # "idle")
                THEN asked ELSE [asked EXCEPT ![handling.id] = NoRequest]
    /\ UNCHANGED <<mapVars, dbVars, mainVars, dangling, stray, faultVars>>

SignalConf ==
    /\ Signal
    /\ UNCHANGED <<mapVars, dbVars, mainVars, handlerVars, historyVars>>

--------------------------------------------------------------------------------

JobStep == \/ AskPanId \/ AskNodeList \/ AskEpList \/ AskClusterList \/ AskAttribute
           \/ SendRequest \/ EndWait \/ Return
           \/ StoreNodes \/ NextNode \/ GotEpList \/ NextEp \/ GotClusterList
           \/ AttrNode \/ AttrEp \/ AttrCluster \/ AttrAttr \/ GotAttribute

HandlerStep == \/ \E r \in Requests : BeginHandle(r)
               \/ \E x \in handling.items : StoreItem(x)
               \/ EndHandle \/ SignalConf

(* The bounded jobs are over, or the program's behaviour is undefined. *)
Finished == (pc = "undefined" \/ (pc = "idle" /\ jobs = MaxJobs)) /\ UNCHANGED vars

Next == StartDiscovery \/ StartAttributes \/ JobStep \/ HandlerStep \/ Finished

Spec == Init /\ [][Next]_vars

(* The main thread is a running thread and every wait of it has a timeout; *)
(* nothing is assumed of the network, nor of the handlers.                 *)
FairSpec == Spec /\ WF_vars(JobStep)

--------------------------------------------------------------------------------
(* Properties. *)

(* Types, and the shape of the nested map: every path's prefixes exist.    *)
TypeOK ==
    /\ nodes \subseteq Addr /\ eps \subseteq Addr \X Ep /\ clusters \subseteq Addr \X Ep \X Cluster
    /\ value \in [Path -> 0 .. MaxReq]
    /\ physical \in [Addr -> {"absent", "zero", "real"}]
    /\ locked \in BOOLEAN /\ refused \in BOOLEAN /\ stray \in BOOLEAN
    /\ at.node \in Addr \cup {0} /\ at.ep \in Ep \cup {0}
    /\ at.cluster \in Cluster \cup {0} /\ at.attr \in Attr \cup {0}
    /\ handling.id \in open \cup {0} /\ parsed \in 0 .. MaxReq /\ open \subseteq Requests
    /\ once \subseteq open /\ excused \subseteq Addr /\ faults \in 0 .. MaxFaults
    /\ rows \in [Addr -> {"none", "offline", "online"}] /\ attrRows \subseteq Path
    /\ \A y \in eps : y[1] \in nodes
    /\ \A y \in clusters : SubSeq(y, 1, 2) \in eps
    /\ \A p \in Path : value[p] # 0 => SubSeq(p, 1, 3) \in clusters

(* As long as no answer outlives its request, a value recorded for a read  *)
(* was stored by that read's own answer, and not by an earlier pass over   *)
(* the same attribute (AttributeHandleStart reads the map after the wait), *)
(* unless the read's return code was overwritten.                          *)
HistoryIsFresh == ~stray /\ recorded.truthful => recorded.answer = recorded.request

(* As long as no answer outlives its request, a node this discovery has    *)
(* asked for its endpoints is online in t_nodes only if it answered, if    *)
(* its request returned success without an answer, or if the update that   *)
(* was to put it offline was lost.                                         *)
OnlineMeansAnswered ==
    ~stray /\ pc \notin {"epList", "gotEpList"} =>
        \A n \in askedNodes \ excused : HasRow(n) /\ rows[n] = "online" => n \in repliedNodes

(* As long as no answer outlives its request, every node of the logical    *)
(* map has its MAC address in the physical one: rows are keyed by it.      *)
LogicalIsPhysical == ~stray => \A n \in nodes : physical[n] = "real"

(* As long as no answer outlives its request, no loop of either job uses   *)
(* an iterator after a handler replaced the map under it.                  *)
IteratorsValidWhenPrompt == ~stray => pc # "undefined"

(* m_mapNodesLogical is "to be critical section protected" (ZiBManager.h): *)
(* the lock is meant to keep handlers away from a walk, answers however    *)
(* late.                                                                   *)
NoDanglingUse == pc # "undefined"

(* When a job has ended, without strays and refused insertions, every node *)
(* listed was asked for its endpoints and every attribute of a cluster     *)
(* found has its row in t_attributes.                                      *)
DiscoveryComplete ==
    pc = "idle" /\ ~stray /\ ~refused =>
        /\ nodes \subseteq askedNodes
        /\ \A p \in Path : SubSeq(p, 1, 3) \in clusters => p \in attrRows

(* The main thread never waits for an answer while it holds the lock the   *)
(* answer's handler needs: every such wait would last its full timeout.    *)
NoWaitUnderLock == phase # "idle" => ~locked

(* A job that started ends, whatever the network does: every wait has a    *)
(* timeout and late answers cannot prolong a walk for ever.                *)
JobEnds == pc # "idle" ~> pc \in {"idle", "undefined"}

================================================================================
