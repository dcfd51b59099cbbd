----------------------------- MODULE Directory -----------------------------
(***************************************************************************)
(* Probes and probe groups of the Amon master: the API of                   *)
(* master/lib/probes.js, probegroups.js and agentprobes.js over             *)
(* ufdsmodel.js, and the caches master/lib/app.js keeps of UFDS and CNAPI.   *)
(*                                                                          *)
(* A handler is a chain of calls to UFDS, CNAPI or VMAPI.  A call is sent,   *)
(* runs at the service at some later moment, and is answered later still;    *)
(* the calls of different requests overlap in any order (they are messages   *)
(* of one LDAP connection, or HTTP requests).  Between two calls a handler   *)
(* is synchronous: a cache that hits is no step of its own.                  *)
(*                                                                          *)
(* A dn names its model and its user; an item is the raw data of its entry.  *)
(* Invalid entries of UFDS, contacts and a probe's config are data that the  *)
(* properties do not tell apart, and are left out.                           *)
(***************************************************************************)
EXTENDS Integers, FiniteSets

CONSTANTS
  Requests,    \* API requests, each used once
  Asks,        \* what clients ask for in this instance
  Users,       \* users that clients name
  Known,       \* the users UFDS has
  Admin,       \* config.adminUuid
  Probes,      \* dns of probes
  Groups,      \* dns of probe groups
  Owner,       \* the user a dn is under
  Agents,      \* machines and servers
  VmOwner,     \* the owner of each virtual machine, None for what is none
  Operators,   \* the operators at first
  Servers,     \* the servers at first
  Stored,      \* the entries of UFDS at first
  Names,       \* what tells two versions of an item apart
  None,        \* no entry, or an attribute an entry does not have
  Miss,        \* nothing cached
  Failures,    \* the kinds of failure tried in this instance
  MaxErrors,   \* bound: calls that fail
  MaxChanges   \* bound: changes of operators and servers, and cached entries gone

Dns == Probes \cup Groups
Item == [type: {"group", "local", "remote", "vmhost"},
         agent: Agents \cup {None}, machine: Agents \cup {None},
         group: Groups \cup {None}, name: Names]
Ask == [kind: {"post", "put", "get", "list", "delete", "head", "agentprobes"},
        user: Users, dn: Dns, data: Item, skip: BOOLEAN]

ASSUME DirectoryAssumption ==
  /\ Asks \subseteq Ask /\ Asks # {}
  /\ \A a \in Asks :
       /\ Owner[a.dn] = a.user
       /\ a.dn \in Groups <=> a.data.type = "group"
       /\ a.kind \in {"head", "agentprobes"} => a.data.agent \in Agents
  /\ Stored \in [Dns -> {None} \cup Item]
  /\ Owner \in [Dns -> Users] /\ VmOwner \in [Agents -> Users \cup {None}]
  /\ Known \subseteq Users /\ Admin \in Users /\ Operators \subseteq Users
  /\ Servers \subseteq {a \in Agents : VmOwner[a] = None}
  /\ Probes \cap Groups = {}
  /\ None \notin Agents \cup Groups \cup Users
  /\ \A i \in Item : None # i
  /\ \A v \in {None} \cup Item \cup BOOLEAN \cup SUBSET Agents : Miss # v
  /\ Failures \subseteq {"refuse", "lose"}
  /\ MaxErrors \in Nat /\ MaxChanges \in Nat

VARIABLES
  ufds,       \* the entries of UFDS
  operators,  \* the members of cn=operators
  servers,    \* what CNAPI lists
  cache,      \* userCache, isOperatorCache, cnapiServersCache, _cacheFromScope
  req,        \* per request: its handler's state
  past,       \* history: the states UFDS has been in
  was,        \* history: who has been an operator, what has been a server
  tainted,    \* history: cached entries that a write did not drop
  errors,     \* calls failed so far
  changes     \* changes of operators, servers and caches so far

vars == <<ufds, operators, servers, cache, req, past, was, tainted, errors,
          changes>>

----------------------------------------------------------------------------
\* Reading UFDS.

ModelOf(dn) == IF dn \in Probes THEN "Probe" ELSE "ProbeGroup"
Lists == {"Probe", "ProbeGroup"} \X Users
ListOf(dn) == <<ModelOf(dn), Owner[dn]>>
\* modelList: the children of the user's dn with the model's objectclass.
ReadList(db, l) == [dn \in {d \in Dns : ListOf(d) = l} |-> db[dn]]
\* findProbes: sorted, so two equal sets of probes have one Content-MD5.
ReadAgent(db, a) ==
  {<<dn, db[dn]>> : dn \in {p \in Probes : db[p] # None /\ db[p].agent = a}}

\* Probe.validate fills the agent from the machine and back for a runLocally type.
Inferred(d) ==
  IF d.type \notin {"local", "vmhost"} THEN d
  ELSE [d EXCEPT !.agent = IF @ = None THEN d.machine ELSE @,
                 !.machine = IF @ = None THEN d.agent ELSE @]
Valid(d) ==
  /\ d.agent # None
  /\ d.type \in {"local", "vmhost"} => d.agent = d.machine
\* ufdsModify replaces the attributes it is given.
Modified(old, new) ==
  [f \in DOMAIN old |-> IF new[f] = None THEN old[f] ELSE new[f]]

\* Cached entries, and the ones an entry's change from `old` to `new` concerns.
Keys == ({"get"} \X Dns) \cup ({"list"} \X Lists) \cup ({"head"} \X Agents)
Concerned(dn, old, new) ==
  {<<"get", dn>>, <<"list", ListOf(dn)>>}
  \cup {<<"head", i.agent>> : i \in {j \in {old, new} : j # None /\ j.agent # None}}
Cached(k) == cache[k[1]][k[2]]
Current(k) ==
  CASE k[1] = "get"  -> ufds[k[2]]
    [] k[1] = "list" -> ReadList(ufds, k[2])
    [] k[1] = "head" -> ReadAgent(ufds, k[2])

NoCache ==
  [user |-> [u \in Users |-> Miss], operator |-> [u \in Users |-> Miss],
   servers |-> Miss, get |-> [dn \in Dns |-> Miss],
   list |-> [l \in Lists |-> Miss], head |-> [a \in Agents |-> Miss]]

PC == {"idle", "user", "group", "servers", "operator", "operator3", "vm",
       "machine", "write", "get", "fetch", "erase", "list", "head",
       "agentprobes", "done"}
NoAnswer == [status |-> 0, value |-> None]
NoAsk == CHOOSE a \in Asks : TRUE
Idle == [pc |-> "idle", ask |-> NoAsk, ran |-> FALSE, reply |-> None,
         item |-> None, touched |-> {}, answer |-> NoAnswer]

Entry == {None} \cup Item
Listing(l) == [{d \in Dns : ListOf(d) = l} -> Entry]
Content == SUBSET (Probes \X Item)
CacheOK ==
  /\ DOMAIN cache = DOMAIN NoCache
  /\ cache.user \in [Users -> {Miss} \cup BOOLEAN]
  /\ cache.operator \in [Users -> {Miss} \cup BOOLEAN]
  /\ cache.servers \in {Miss} \cup SUBSET Agents
  /\ cache.get \in [Dns -> {Miss} \cup Entry]
  /\ DOMAIN cache.list = Lists
  /\ \A l \in Lists : cache.list[l] \in {Miss} \cup Listing(l)
  /\ cache.head \in [Agents -> {Miss} \cup Content]

\* What a call may bring back, and what a request may be answered.
Replies(h) ==
  CASE h.pc \in {"group", "get", "fetch"} -> Entry
    [] h.pc = "servers" -> SUBSET Agents
    [] h.pc = "list" -> Listing(ListOf(h.ask.dn))
    [] h.pc \in {"head", "agentprobes"} -> Content
    [] OTHER -> BOOLEAN
Answers200(q) ==
  CASE q.kind = "list" -> Listing(ListOf(q.dn))
    [] q.kind \in {"head", "agentprobes"} -> Content
    [] OTHER -> Item
HandlerOK(h) ==
  /\ DOMAIN h = DOMAIN Idle
  /\ h.pc \in PC /\ h.ask \in Asks /\ h.ran \in BOOLEAN
  /\ h.item \in Entry /\ (h.pc = "erase" => h.item # None)
  /\ h.touched \subseteq Keys
  /\ IF h.ran THEN h.reply \in Replies(h) ELSE h.reply = None /\ h.touched = {}
  /\ h.pc \in {"idle", "done"} => ~h.ran
  /\ h.answer.status \in {0, 200, 204, 404, 409, 422, 500, 503}
  /\ IF h.answer.status = 200 THEN h.answer.value \in Answers200(h.ask)
     ELSE h.answer.value = None

TypeOK ==
  /\ ufds \in [Dns -> Item \cup {None}]
  /\ operators \in SUBSET Users
  /\ servers \in SUBSET Agents
  /\ CacheOK
  /\ DOMAIN req = Requests /\ \A r \in Requests : HandlerOK(req[r])
  /\ past \in SUBSET [Dns -> Item \cup {None}]
  /\ was \in [operators: SUBSET Users, servers: SUBSET Agents]
  /\ tainted \in SUBSET Keys
  /\ errors \in 0..MaxErrors
  /\ changes \in 0..MaxChanges

Init ==
  /\ ufds = Stored
  /\ operators = Operators
  /\ servers = Servers
  /\ cache = NoCache
  /\ req = [r \in Requests |-> Idle]
  /\ past = {ufds}
  /\ was = [operators |-> operators, servers |-> servers]
  /\ tainted = {}
  /\ errors = 0 /\ changes = 0

----------------------------------------------------------------------------
\* Where a handler goes next: to the call it waits for, or to its answer.  `c`
\* is the caches as they are then, `q` what was asked for.

Wait(pc) == [pc |-> pc, answer |-> NoAnswer]
Reply(status, value) == [pc |-> "done", answer |-> [status |-> status, value |-> value]]
Found(item) == Reply(IF item = None THEN 404 ELSE 200, item)

\* userIsOperatorOrErr, and the same check for a physical machine.
AfterOperator(yes) == IF yes THEN Wait("write") ELSE Reply(409, None)
AtOperator(c, q, pc) ==
  IF c.operator[q.user] = Miss THEN Wait(pc) ELSE AfterOperator(c.operator[q.user])
\* isRunInVmHostOrErr, when the user does not own the machine.
AfterVm(q, owned) ==
  IF owned THEN Wait("write")
  ELSE IF q.data.type = "vmhost" THEN Wait("machine") ELSE Reply(409, None)
AfterServers(c, q, list) ==
  IF Inferred(q.data).agent \in list THEN AtOperator(c, q, "operator") ELSE Wait("vm")
\* Mutant: skipauthz is honoured for every user.
AtAuthorizeBug(c, q) ==
  IF q.dn \in Groups \/ q.skip THEN Wait("write")
  ELSE IF c.servers = Miss THEN Wait("servers") ELSE AfterServers(c, q, c.servers)
\* Probe.authorizeWrite and ProbeGroup.authorizeWrite.
AtAuthorize(c, q) ==
  IF q.dn \in Groups \/ (q.skip /\ q.user = Admin) THEN Wait("write")
  ELSE IF c.servers = Miss THEN Wait("servers") ELSE AfterServers(c, q, c.servers)
AtProbe(c, q) ==
  IF Valid(Inferred(q.data)) THEN AtAuthorize(c, q) ELSE Reply(422, None)
AfterGroup(c, q, group) ==
  IF group = None THEN Reply(404, None) ELSE AtProbe(c, q)
\* Probe.create, Probe.update and ProbeGroup.create; there is no ProbeGroup.update.
AtModel(c, q) ==
  IF q.dn \in Groups
  THEN IF q.kind = "put" THEN Reply(500, None) ELSE AtAuthorize(c, q)
  ELSE IF q.data.group = None THEN AtProbe(c, q)
  ELSE IF c.get[q.data.group] = Miss THEN Wait("group")
  ELSE AfterGroup(c, q, c.get[q.data.group])
\* requestCreate, requestPut, requestGet, requestList and requestDelete.
AfterUser(c, q) ==
  CASE q.kind \in {"post", "put"} -> AtModel(c, q)
    [] q.kind = "get" -> IF c.get[q.dn] = Miss THEN Wait("get") ELSE Found(c.get[q.dn])
    [] q.kind = "list" -> IF c.list[ListOf(q.dn)] = Miss THEN Wait("list")
                          ELSE Reply(200, c.list[ListOf(q.dn)])
    [] q.kind = "delete" -> Wait("fetch")
AtUser(c, q) ==
  IF c.user[q.user] = Miss THEN Wait("user")
  ELSE IF c.user[q.user] THEN AfterUser(c, q) ELSE Reply(404, None)
\* listAgentProbes and headAgentProbes are not under a user.
AtRequest(c, q) ==
  CASE q.kind = "agentprobes" -> Wait("agentprobes")
    [] q.kind = "head" -> IF c.head[q.data.agent] = Miss THEN Wait("head")
                          ELSE Reply(200, c.head[q.data.agent])
    [] OTHER -> AtUser(c, q)

\* The handler of r goes on with the caches c and the item i it remembers.
Proceed(r, c, i, out) ==
  /\ cache' = c
  /\ req' = [req EXCEPT ![r].pc = out.pc, ![r].answer = out.answer, ![r].item = i,
                        ![r].ran = FALSE, ![r].reply = None, ![r].touched = {}]
External == <<ufds, operators, servers, past, was, changes>>
Spend == changes < MaxChanges /\ changes' = changes + 1

----------------------------------------------------------------------------
\* A request arrives.  A POST makes an id of its own.
Receive(r, a) ==
  LET out == AtRequest(cache, a) IN
  /\ req[r].pc = "idle"
  /\ a.kind = "post" =>
       \A s \in Requests : req[s].pc = "idle" \/ req[s].ask.kind # "post"
                           \/ req[s].ask.dn # a.dn
  /\ req' = [req EXCEPT ![r].pc = out.pc, ![r].answer = out.answer, ![r].ask = a]
  /\ UNCHANGED <<External, cache, tainted, errors>>

\* What a call that only reads finds.
ReadFor(h) ==
  LET q == h.ask IN
  CASE h.pc = "user"     -> q.user \in Known
    [] h.pc = "group"    -> ufds[q.data.group]
    [] h.pc = "servers"  -> servers
    [] h.pc \in {"operator", "operator3"} -> q.user \in operators
    [] h.pc = "vm"       -> VmOwner[Inferred(q.data).agent] = q.user
    [] h.pc = "machine"  -> VmOwner[Inferred(q.data).machine] # None
    [] h.pc \in {"get", "fetch"} -> ufds[q.dn]
    [] h.pc = "list"     -> ReadList(ufds, ListOf(q.dn))
    [] h.pc \in {"head", "agentprobes"} -> ReadAgent(ufds, q.data.agent)
Reads == PC \ {"idle", "write", "erase", "done"}
RunRead(r) ==
  /\ req[r].pc \in Reads /\ ~req[r].ran
  /\ req' = [req EXCEPT ![r].ran = TRUE, ![r].reply = ReadFor(req[r])]
  /\ UNCHANGED <<External, cache, tainted, errors>>

\* The cached entry a call fills.
Fills(h) ==
  CASE h.pc = "group" -> {<<"get", h.ask.data.group>>}
    [] h.pc = "get"   -> {<<"get", h.ask.dn>>}
    [] h.pc = "list"  -> {<<"list", ListOf(h.ask.dn)>>}
    [] h.pc = "head"  -> {<<"head", h.ask.data.agent>>}
    [] OTHER          -> {}
\* UFDS changes an entry, while other calls are on their way back.
Change(r, dn, new, ok) ==
  LET touched == IF ok THEN Concerned(dn, ufds[dn], new) ELSE {} IN
  /\ ufds' = IF ok THEN [ufds EXCEPT ![dn] = new] ELSE ufds
  /\ past' = past \cup {ufds'}
  /\ req' = [s \in Requests |->
               IF s = r THEN [req[r] EXCEPT !.ran = TRUE, !.reply = ok,
                                            !.touched = touched]
               ELSE IF req[s].ran
               THEN [req[s] EXCEPT !.touched = @ \cup (Fills(req[s]) \cap touched)]
               ELSE req[s]]
  /\ UNCHANGED <<operators, servers, was, changes, cache, tainted, errors>>

\* ufdsAdd and ufdsModify at UFDS.
RunWrite(r) ==
  LET q == req[r].ask
      new == Inferred(q.data) IN
  /\ req[r].pc = "write" /\ ~req[r].ran
  /\ IF q.kind = "post" THEN Change(r, q.dn, new, ufds[q.dn] = None)
     ELSE Change(r, q.dn, IF ufds[q.dn] = None THEN None ELSE Modified(ufds[q.dn], new),
                 ufds[q.dn] # None)
\* ufdsDelete at UFDS.
RunErase(r) ==
  LET q == req[r].ask IN
  /\ req[r].pc = "erase" /\ ~req[r].ran
  /\ Change(r, q.dn, None, ufds[q.dn] # None)

----------------------------------------------------------------------------
\* Answers of UFDS, CNAPI and VMAPI: the callbacks.

Answering(r, pc) == req[r].pc = pc /\ req[r].ran
\* The entry filled is tainted if it was written to since it was read.
Fill(r) ==
  tainted' = IF req[r].touched = {} THEN tainted \ Fills(req[r])
             ELSE tainted \cup Fills(req[r])

AnswerUser(r) ==
  LET q == req[r].ask
      c == [cache EXCEPT !.user[q.user] = req[r].reply] IN
  /\ Answering(r, "user")
  /\ Proceed(r, c, None, IF req[r].reply THEN AfterUser(c, q) ELSE Reply(404, None))
  /\ UNCHANGED <<External, tainted, errors>>

\* ProbeGroup.get, by way of modelGet.
AnswerGroup(r) ==
  LET q == req[r].ask
      c == [cache EXCEPT !.get[q.data.group] = req[r].reply] IN
  /\ Answering(r, "group")
  /\ Proceed(r, c, None, AfterGroup(c, q, req[r].reply))
  /\ Fill(r)
  /\ UNCHANGED <<External, errors>>

AnswerServers(r) ==
  LET c == [cache EXCEPT !.servers = req[r].reply] IN
  /\ Answering(r, "servers")
  /\ Proceed(r, c, None, AfterServers(c, req[r].ask, req[r].reply))
  /\ UNCHANGED <<External, tainted, errors>>

AnswerOperator(r) ==
  /\ Answering(r, "operator") \/ Answering(r, "operator3")
  /\ Proceed(r, [cache EXCEPT !.operator[req[r].ask.user] = req[r].reply], None,
             AfterOperator(req[r].reply))
  /\ UNCHANGED <<External, tainted, errors>>

AnswerVm(r) ==
  /\ Answering(r, "vm")
  /\ Proceed(r, cache, None, AfterVm(req[r].ask, req[r].reply))
  /\ UNCHANGED <<External, tainted, errors>>

\* isExistingVmOrErr
AnswerMachine(r) ==
  /\ Answering(r, "machine")
  /\ Proceed(r, cache, None, IF req[r].reply THEN AtOperator(cache, req[r].ask, "operator3")
                             ELSE Reply(409, None))
  /\ UNCHANGED <<External, tainted, errors>>

\* Mutant: the head is left.
InvalidatedNoHeadBug(c, dn, item) ==
  [c EXCEPT !.list = [l \in Lists |-> IF l[1] = ModelOf(dn) THEN Miss ELSE @[l]],
            !.get[dn] = Miss]
\* cacheInvalidateWrite and cacheInvalidateDelete: all lists of the model, the
\* entry itself, and for a probe the head of the agent in the item at hand.
Invalidated(c, dn, item) ==
  [c EXCEPT !.list = [l \in Lists |-> IF l[1] = ModelOf(dn) THEN Miss ELSE @[l]],
            !.get[dn] = Miss,
            !.head = [a \in Agents |-> IF dn \in Probes /\ a = item.agent
                                       THEN Miss ELSE @[a]]]
Dropped(c) == {k \in Keys : c[k[1]][k[2]] = Miss}
\* Heads that are wrong for good: of the agent the probe was on, if it was another.
Moved(r, item) == {k \in req[r].touched : k[1] = "head" /\ k[2] # item.agent}

\* modelCreate and modelPut: the answer is the item as it was asked for.
AnswerWrite(r) ==
  LET q == req[r].ask
      item == Inferred(q.data)
      c == Invalidated(cache, q.dn, item) IN
  /\ Answering(r, "write")
  /\ IF req[r].reply
     THEN /\ Proceed(r, c, None, Reply(200, item))
          /\ tainted' = (tainted \cup Moved(r, item)) \ Dropped(c)
     ELSE /\ Proceed(r, cache, None, Reply(500, None))
          /\ UNCHANGED tainted
  /\ UNCHANGED <<External, errors>>

\* Mutant: ufdsDelete is called for what was not found.
AnswerFetchBug(r) ==
  /\ Answering(r, "fetch")
  /\ Proceed(r, cache, req[r].reply, Wait("erase"))
  /\ UNCHANGED <<External, tainted, errors>>
\* modelGet with skipCache, for modelDelete.
AnswerFetch(r) ==
  /\ Answering(r, "fetch")
  /\ Proceed(r, cache, req[r].reply,
             IF req[r].reply = None THEN Reply(404, None) ELSE Wait("erase"))
  /\ UNCHANGED <<External, tainted, errors>>

\* Mutant: no callback when the entry is gone already.
AnswerEraseBug(r) ==
  LET c == Invalidated(cache, req[r].ask.dn, req[r].item) IN
  /\ Answering(r, "erase") /\ req[r].reply
  /\ Proceed(r, c, None, Reply(204, None))
  /\ tainted' = (tainted \cup Moved(r, req[r].item)) \ Dropped(c)
  /\ UNCHANGED <<External, errors>>
AnswerErase(r) ==
  LET c == Invalidated(cache, req[r].ask.dn, req[r].item) IN
  /\ Answering(r, "erase")
  /\ IF req[r].reply
     THEN /\ Proceed(r, c, None, Reply(204, None))
          /\ tainted' = (tainted \cup Moved(r, req[r].item)) \ Dropped(c)
     ELSE /\ Proceed(r, cache, None, Reply(404, None))
          /\ UNCHANGED tainted
  /\ UNCHANGED <<External, errors>>

\* modelGet: an error that says there is no such entry is cached too.
AnswerGet(r) ==
  /\ Answering(r, "get")
  /\ Proceed(r, [cache EXCEPT !.get[req[r].ask.dn] = req[r].reply], None,
             Found(req[r].reply))
  /\ Fill(r)
  /\ UNCHANGED <<External, errors>>

AnswerList(r) ==
  /\ Answering(r, "list")
  /\ Proceed(r, [cache EXCEPT !.list[ListOf(req[r].ask.dn)] = req[r].reply], None,
             Reply(200, req[r].reply))
  /\ Fill(r)
  /\ UNCHANGED <<External, errors>>

AnswerHead(r) ==
  /\ Answering(r, "head")
  /\ Proceed(r, [cache EXCEPT !.head[req[r].ask.data.agent] = req[r].reply], None,
             Reply(200, req[r].reply))
  /\ Fill(r)
  /\ UNCHANGED <<External, errors>>

AnswerAgentProbes(r) ==
  /\ Answering(r, "agentprobes")
  /\ Proceed(r, cache, None, Reply(200, req[r].reply))
  /\ UNCHANGED <<External, tainted, errors>>

\* A call fails: it did not run, or its answer is lost.  No error of a service is
\* cached.  getVm's error is no machine to isExistingVmOrErr.
ErrorStatus(pc) ==
  CASE pc \in {"user", "group", "get", "fetch", "list"} -> 503
    [] pc \in {"operator3", "machine"} -> 409
    [] OTHER -> 500
CallFails(r) ==
  /\ req[r].pc \notin {"idle", "done"}
  /\ errors < MaxErrors /\ errors' = errors + 1
  /\ IF req[r].ran THEN "lose" \in Failures ELSE "refuse" \in Failures
  /\ Proceed(r, cache, None, Reply(ErrorStatus(req[r].pc), None))
  /\ tainted' = IF req[r].pc \in {"write", "erase"}
                THEN tainted \cup (req[r].touched \ Dropped(cache)) ELSE tainted
  /\ UNCHANGED External

----------------------------------------------------------------------------
\* An entry is five minutes old, or the least recently used of a full cache.
\* What headAgentProbes keeps does not expire.
Expire ==
  /\ Spend
  /\ \/ \E u \in Users : \/ cache' = [cache EXCEPT !.user[u] = Miss]
                         \/ cache' = [cache EXCEPT !.operator[u] = Miss]
     \/ cache' = [cache EXCEPT !.servers = Miss]
     \/ \E dn \in Dns : cache' = [cache EXCEPT !.get[dn] = Miss]
     \/ \E l \in Lists : cache' = [cache EXCEPT !.list[l] = Miss]
  /\ cache' # cache
  /\ tainted' = {k \in tainted : cache'[k[1]][k[2]] # Miss}
  /\ UNCHANGED <<ufds, operators, servers, past, was, req, errors>>

\* POST /state?action=dropcaches
DropCaches ==
  /\ Spend
  /\ cache # NoCache
  /\ cache' = NoCache
  /\ tainted' = {}
  /\ UNCHANGED <<ufds, operators, servers, past, was, req, errors>>

\* Someone becomes an operator or stops being one; a server is set up.
ChangeOperators(u) ==
  /\ Spend
  /\ operators' = IF u \in operators THEN operators \ {u} ELSE operators \cup {u}
  /\ was' = [was EXCEPT !.operators = @ \cup operators']
  /\ UNCHANGED <<ufds, servers, past, cache, req, tainted, errors>>
AddServer(a) ==
  /\ Spend
  /\ a \notin servers /\ VmOwner[a] = None
  /\ servers' = servers \cup {a}
  /\ was' = [was EXCEPT !.servers = @ \cup {a}]
  /\ UNCHANGED <<ufds, operators, past, cache, req, tainted, errors>>

Runs(r) == RunRead(r) \/ RunWrite(r) \/ RunErase(r)
Answers(r) ==
  \/ AnswerUser(r) \/ AnswerGroup(r) \/ AnswerServers(r) \/ AnswerOperator(r)
  \/ AnswerVm(r) \/ AnswerMachine(r) \/ AnswerWrite(r) \/ AnswerFetch(r)
  \/ AnswerErase(r) \/ AnswerGet(r) \/ AnswerList(r) \/ AnswerHead(r)
  \/ AnswerAgentProbes(r)

Next ==
  \/ \E r \in Requests : \/ \E a \in Asks : Receive(r, a)
                         \/ Runs(r) \/ Answers(r) \/ CallFails(r)
  \/ Expire \/ DropCaches
  \/ \E u \in Users : ChangeOperators(u)
  \/ \E a \in Agents : AddServer(a)

Spec == Init /\ [][Next]_vars
\* Every service runs the calls it gets, and its answer or an error comes back.
FairSpec == Spec /\ \A r \in Requests : WF_vars(Runs(r)) /\ WF_vars(Answers(r))

----------------------------------------------------------------------------
\* Properties.

\* What the caches hold of a get, a list or a head is what UFDS holds, unless a
\* write has run and its answer, which drops it, is still on its way: no error of
\* UFDS becomes a cached "not found", and every write drops all it concerns.
\* Excepted are entries read before a write and cached after it was answered, those
\* of a write whose answer was lost, and the head of the agent a probe moves from
\* (cacheInvalidateWrite, cacheInvalidateDelete).
CleanEntry(k) ==
  \/ Cached(k) \in {Miss, Current(k)}
  \/ k \in tainted
  \/ \E r \in Requests : req[r].pc \in {"write", "erase"} /\ k \in req[r].touched
CachesAreCurrent == \A k \in Keys : CleanEntry(k)

\* A probe is written only when its user may have it: the admin asked to skip the
\* check; its agent was a server and the user an operator; the user owns the
\* machine; or it runs in the host of a machine and the user was an operator.
\* Caches make "was" the best that authorizeWrite promises.
MayHave(user, d, skip) ==
  \/ skip /\ user = Admin
  \/ d.agent \in was.servers /\ user \in was.operators
  \/ VmOwner[d.agent] = user
  \/ d.type = "vmhost" /\ VmOwner[d.machine] # None /\ user \in was.operators

\* Whatever the caches hold and however requests overlap and fail, no probe is sent
\* to UFDS that has no agent, that its user may not have, or whose group, which
\* getGroup may know from the cache alone, was never there.
WritesWereChecked ==
  \A r \in Requests :
    LET q == req[r].ask
        d == Inferred(q.data) IN
    req[r].pc = "write" /\ q.dn \in Probes =>
      /\ Valid(d) /\ MayHave(q.user, d, q.skip)
      /\ d.group # None => \E db \in past : db[d.group] # None

\* Every request is answered.
RequestsAnswered ==
  \A r \in Requests : req[r].pc # "idle" ~> req[r].pc = "done"
============================================================================
