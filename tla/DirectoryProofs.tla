-------------------------- MODULE DirectoryProofs --------------------------
(* Theorems about Directory and their proofs, for every value of its constants. *)
EXTENDS Directory, TLAPS

USE DirectoryAssumption

----------------------------------------------------------------------------
(* What is known of a handler and of the caches *)

WriteKinds == {"post", "put"}
Target(q) == Inferred(q.data)
\* UFDS has had the group of a probe.
GroupSeen(q) == q.data.group # None => \E db \in past : db[q.data.group] # None
Checked(q) == q.dn \in Probes /\ Valid(Target(q)) /\ GroupSeen(q)
\* What a handler has found out by the time it waits for a call.
Stage(q, pc) ==
  /\ pc = "user" => q.kind \in {"post", "put", "get", "list", "delete"}
  /\ pc = "group" => q.kind \in WriteKinds /\ q.dn \in Probes /\ q.data.group \in Groups
  /\ pc \in {"servers", "operator", "operator3", "vm", "machine"} =>
       q.kind \in WriteKinds /\ Checked(q)
  /\ pc = "operator" => Target(q).agent \in was.servers
  /\ pc \in {"machine", "operator3"} => Target(q).type = "vmhost"
  /\ pc = "operator3" => VmOwner[Target(q).machine] # None
  /\ pc = "write" => /\ q.kind \in WriteKinds
                     /\ q.dn \in Probes => Checked(q) /\ MayHave(q.user, Target(q), q.skip)
  /\ pc \in {"fetch", "erase"} => q.kind = "delete"
  /\ pc \in {"get", "list", "head", "agentprobes"} => q.kind = pc
\* What an answer tells that the authorization of a write relies on.
Told(q, pc, reply) ==
  /\ pc = "group" /\ reply # None => \E db \in past : db[q.data.group] # None
  /\ pc = "get" /\ reply # None => \E db \in past : db[q.dn] # None
  /\ pc = "servers" => reply \subseteq was.servers
  /\ pc \in {"operator", "operator3"} /\ reply = TRUE => q.user \in was.operators
  /\ pc = "vm" /\ reply = TRUE => VmOwner[Target(q).agent] = q.user
  /\ pc = "machine" /\ reply = TRUE => VmOwner[Target(q).machine] # None

AnswerTyped(q, an) ==
  /\ an = [status |-> an.status, value |-> an.value]
  /\ an.status \in {0, 200, 204, 404, 409, 422, 500, 503}
  /\ IF an.status = 200 THEN an.value \in Answers200(q) ELSE an.value = None
Fields == {"pc", "ask", "ran", "reply", "item", "touched", "answer"}
Shaped(h) == h = [f \in Fields |-> h[f]]
HandlerInv(h) ==
  /\ Shaped(h)
  /\ h.pc \in PC /\ h.ask \in Asks /\ h.ran \in BOOLEAN
  /\ h.item \in Entry /\ (h.pc = "erase" => h.item # None)
  /\ h.touched \subseteq Keys
  /\ h.ran => h.reply \in Replies(h) /\ Told(h.ask, h.pc, h.reply)
  /\ ~h.ran => h.reply = None /\ h.touched = {}
  /\ h.pc \in {"idle", "done"} => ~h.ran
  /\ AnswerTyped(h.ask, h.answer)
  /\ Stage(h.ask, h.pc)

CacheShaped(c) ==
  c = [user |-> c.user, operator |-> c.operator, servers |-> c.servers,
       get |-> c.get, list |-> c.list, head |-> c.head]
CacheTyped(c) ==
  /\ CacheShaped(c)
  /\ c.user \in [Users -> {Miss} \cup BOOLEAN]
  /\ c.operator \in [Users -> {Miss} \cup BOOLEAN]
  /\ c.servers \in {Miss} \cup SUBSET Agents
  /\ c.get \in [Dns -> {Miss} \cup Entry]
  /\ c.list = [l \in Lists |-> c.list[l]]
  /\ \A l \in Lists : c.list[l] \in {Miss} \cup Listing(l)
  /\ c.head \in [Agents -> {Miss} \cup Content]
\* The caches never knew of a group, an operator or a server that was none.
CacheTold(c) ==
  /\ \A dn \in Dns : c.get[dn] \notin {Miss, None} => \E db \in past : db[dn] # None
  /\ c.servers # Miss => c.servers \subseteq was.servers
  /\ \A u \in Users : c.operator[u] = TRUE => u \in was.operators
CacheInv(c) == CacheTyped(c) /\ CacheTold(c)

WorldInv ==
  /\ ufds \in [Dns -> Entry] /\ ufds \in past /\ past \in SUBSET [Dns -> Entry]
  /\ operators \in SUBSET Users /\ servers \in SUBSET Agents
  /\ was \in [operators: SUBSET Users, servers: SUBSET Agents]
  /\ operators \subseteq was.operators /\ servers \subseteq was.servers
CountInv == tainted \in SUBSET Keys /\ errors \in 0..MaxErrors /\ changes \in 0..MaxChanges
ReqInv ==
  /\ req = [r \in Requests |-> req[r]]
  /\ \A r \in Requests : \A h : req[r] = h => HandlerInv(h)
CachesInv == \A c : cache = c => CacheInv(c)
Inv == WorldInv /\ CountInv /\ ReqInv /\ CachesInv

LEMMA InvIsTyped == Inv => TypeOK
<1> SUFFICES ASSUME Inv PROVE TypeOK
  OBVIOUS
<1>1. CacheOK
  <2>1. CacheTyped(cache)
    BY DEF Inv, CachesInv, CacheInv
  <2>2. DOMAIN cache = DOMAIN NoCache /\ DOMAIN cache.list = Lists
    BY <2>1 DEF CacheTyped, CacheShaped, NoCache
  <2>3. QED
    BY <2>1, <2>2 DEF CacheTyped, CacheOK
<1>2. ASSUME NEW r \in Requests PROVE HandlerOK(req[r])
  <2>1. HandlerInv(req[r])
    BY DEF Inv, ReqInv
  <2>2. DOMAIN req[r] = DOMAIN Idle
    BY <2>1 DEF HandlerInv, Shaped, Fields, Idle
  <2>3. QED
    BY <2>1, <2>2 DEF HandlerInv, HandlerOK, AnswerTyped
<1>3. QED
  BY <1>1, <1>2 DEF Inv, WorldInv, CountInv, ReqInv, TypeOK, Entry

LEMMA InvIsChecked == Inv => WritesWereChecked
<1> SUFFICES ASSUME Inv, NEW r \in Requests,
                    req[r].pc = "write", req[r].ask.dn \in Probes
             PROVE  /\ Valid(Target(req[r].ask))
                    /\ MayHave(req[r].ask.user, Target(req[r].ask), req[r].ask.skip)
                    /\ Target(req[r].ask).group # None =>
                         \E db \in past : db[Target(req[r].ask).group] # None
  BY DEF WritesWereChecked, Target
<1>1. Checked(req[r].ask) /\ MayHave(req[r].ask.user, Target(req[r].ask), req[r].ask.skip)
      /\ req[r].ask \in Asks
  BY DEF Inv, ReqInv, HandlerInv, Stage
<1>2. req[r].ask.data \in Item
  BY <1>1 DEF Ask
<1>3. Target(req[r].ask).group = req[r].ask.data.group
  BY <1>2 DEF Target, Inferred, Item
<1>4. QED
  BY <1>1, <1>3 DEF Checked, GroupSeen

----------------------------------------------------------------------------
(* Where a handler goes *)

LEMMA InferredIs ==
  ASSUME NEW d \in Item
  PROVE  /\ Inferred(d) \in Item /\ Inferred(d).type = d.type /\ Inferred(d).group = d.group
         /\ Valid(Inferred(d)) => Inferred(d).agent \in Agents
<1>1. CASE d.type \notin {"local", "vmhost"}
  BY <1>1 DEF Inferred, Item, Valid
<1>2. CASE d.type \in {"local", "vmhost"}
  <2> DEFINE a == IF d.agent = None THEN d.machine ELSE d.agent
             m == IF d.machine = None THEN d.agent ELSE d.machine
  <2>1. a \in Agents \cup {None} /\ m \in Agents \cup {None}
    BY DEF Item
  <2>2. Inferred(d) = [d EXCEPT !.agent = a, !.machine = m]
    BY <1>2 DEF Inferred, Item
  <2> HIDE DEF a, m
  <2>3. Inferred(d) \in Item
    BY <2>1, <2>2 DEF Item
  <2>4. Inferred(d).type = d.type /\ Inferred(d).group = d.group /\ Inferred(d).agent = a
    BY <2>2 DEF Item
  <2>5. Valid(Inferred(d)) => a # None
    BY <2>4 DEF Valid
  <2>6. QED
    BY <2>1, <2>3, <2>4, <2>5
<1>3. QED
  BY <1>1, <1>2

\* An outcome: the call that is waited for, or the answer.
Outcome(q, i, out) ==
  /\ out = [pc |-> out.pc, answer |-> out.answer]
  /\ out.pc \in PC \ {"idle"} /\ (out.pc = "erase" => i # None)
  /\ Stage(q, out.pc) /\ AnswerTyped(q, out.answer)

LEMMA WaitOutcome ==
  ASSUME NEW q, NEW i, NEW pc \in PC \ {"idle"}, Stage(q, pc), pc # "erase" \/ i # None
  PROVE  Outcome(q, i, Wait(pc))
BY DEF Outcome, Wait, AnswerTyped, NoAnswer

LEMMA ErrorOutcome ==
  ASSUME NEW q, NEW i, NEW status \in {204, 404, 409, 422, 500, 503}
  PROVE  Outcome(q, i, Reply(status, None))
BY DEF Outcome, Reply, AnswerTyped, Stage, PC

LEMMA OkOutcome ==
  ASSUME NEW q, NEW i, NEW value \in Answers200(q)
  PROVE  Outcome(q, i, Reply(200, value))
BY DEF Outcome, Reply, AnswerTyped, Stage, PC

LEMMA FoundOutcome ==
  ASSUME NEW q, NEW i, NEW item \in Entry, q.kind \in {"post", "put", "get", "delete"}
  PROVE  Outcome(q, i, Found(item))
<1>1. CASE item = None
  BY <1>1, ErrorOutcome DEF Found
<1>2. CASE item # None
  BY <1>2, OkOutcome DEF Found, Entry, Answers200
<1>3. QED
  BY <1>1, <1>2

LEMMA AfterOperatorOutcome ==
  ASSUME NEW q, NEW i, NEW yes \in BOOLEAN, q.kind \in WriteKinds, Checked(q),
         yes => MayHave(q.user, Target(q), q.skip)
  PROVE  Outcome(q, i, AfterOperator(yes))
<1>1. CASE yes
  <2>1. Stage(q, "write")
    BY <1>1 DEF Stage
  <2>2. QED
    BY <1>1, <2>1, WaitOutcome DEF AfterOperator, PC
<1>2. CASE ~yes
  BY <1>2, ErrorOutcome DEF AfterOperator
<1>3. QED
  BY <1>1, <1>2

\* Whose request waits for the operators may have the probe if it is one.
LEMMA OperatorMayHave ==
  ASSUME NEW q, NEW pc \in {"operator", "operator3"}, Stage(q, pc), q.user \in was.operators
  PROVE  MayHave(q.user, Target(q), q.skip)
BY DEF Stage, MayHave

LEMMA AtOperatorOutcome ==
  ASSUME NEW c, CacheInv(c), NEW q \in Asks, NEW i,
         NEW pc \in {"operator", "operator3"}, Stage(q, pc)
  PROVE  Outcome(q, i, AtOperator(c, q, pc))
<1>1. q.user \in Users
  BY DEF Ask
<1>2. CASE c.operator[q.user] = Miss
  BY <1>2, WaitOutcome DEF AtOperator, PC
<1>3. CASE c.operator[q.user] # Miss
  <2>1. c.operator[q.user] \in BOOLEAN
        /\ (c.operator[q.user] = TRUE => q.user \in was.operators)
    BY <1>1, <1>3 DEF CacheInv, CacheTyped, CacheTold
  <2>2. PICK yes \in BOOLEAN : yes = c.operator[q.user]
    BY <2>1
  <2>3. yes => MayHave(q.user, Target(q), q.skip)
    BY <2>1, <2>2, OperatorMayHave
  <2>4. Outcome(q, i, AfterOperator(yes))
    BY <2>3, AfterOperatorOutcome DEF Stage
  <2>5. QED
    BY <1>3, <2>2, <2>4 DEF AtOperator
<1>4. QED
  BY <1>2, <1>3

LEMMA AfterVmOutcome ==
  ASSUME NEW q, NEW i, NEW owned \in BOOLEAN, Stage(q, "vm"), q.data \in Item,
         owned => VmOwner[Target(q).agent] = q.user
  PROVE  Outcome(q, i, AfterVm(q, owned))
<1>0. Target(q).type = q.data.type
  BY InferredIs DEF Target
<1>1. CASE owned
  <2>1. Stage(q, "write")
    BY <1>1 DEF Stage, MayHave
  <2>2. QED
    BY <1>1, <2>1, WaitOutcome DEF AfterVm, PC
<1>2. CASE ~owned /\ q.data.type = "vmhost"
  <2>1. Stage(q, "machine")
    BY <1>0, <1>2 DEF Stage
  <2>2. QED
    BY <1>2, <2>1, WaitOutcome DEF AfterVm, PC
<1>3. CASE ~owned /\ q.data.type # "vmhost"
  BY <1>3, ErrorOutcome DEF AfterVm
<1>4. QED
  BY <1>1, <1>2, <1>3

LEMMA AfterServersOutcome ==
  ASSUME NEW c, CacheInv(c), NEW q \in Asks, NEW i, NEW list \in SUBSET was.servers,
         q.kind \in WriteKinds, Checked(q)
  PROVE  Outcome(q, i, AfterServers(c, q, list))
<1>1. CASE Target(q).agent \in list
  <2>1. Stage(q, "operator")
    BY <1>1 DEF Stage
  <2>2. QED
    BY <1>1, <2>1, AtOperatorOutcome DEF AfterServers, Target
<1>2. CASE Target(q).agent \notin list
  <2>1. Stage(q, "vm")
    BY DEF Stage
  <2>2. QED
    BY <1>2, <2>1, WaitOutcome DEF AfterServers, Target, PC
<1>3. QED
  BY <1>1, <1>2

LEMMA AtAuthorizeOutcome ==
  ASSUME NEW c, CacheInv(c), NEW q \in Asks, NEW i,
         q.kind \in WriteKinds, q.dn \in Probes => Checked(q)
  PROVE  Outcome(q, i, AtAuthorize(c, q))
<1>0. q.dn \in Dns
  BY DEF Ask
<1>1. CASE q.dn \in Groups \/ (q.skip /\ q.user = Admin)
  <2>1. Stage(q, "write")
    BY <1>1 DEF Stage, MayHave
  <2>2. QED
    BY <1>1, <2>1, WaitOutcome DEF AtAuthorize, PC
<1>2. CASE ~(q.dn \in Groups \/ (q.skip /\ q.user = Admin))
  <2>1. Checked(q)
    BY <1>0, <1>2 DEF Dns
  <2>2. CASE c.servers = Miss
    <3>1. Stage(q, "servers")
      BY <2>1 DEF Stage
    <3>2. QED
      BY <1>2, <2>2, <3>1, WaitOutcome DEF AtAuthorize, PC
  <2>3. CASE c.servers # Miss
    <3>1. c.servers \in SUBSET was.servers
      BY <2>3 DEF CacheInv, CacheTold
    <3>2. QED
      BY <1>2, <2>1, <2>3, <3>1, AfterServersOutcome DEF AtAuthorize
  <2>4. QED
    BY <2>2, <2>3
<1>3. QED
  BY <1>1, <1>2

LEMMA AfterGroupOutcome ==
  ASSUME NEW c, CacheInv(c), NEW q \in Asks, NEW i, NEW group,
         q.kind \in WriteKinds, q.dn \in Probes, group # None => GroupSeen(q)
  PROVE  /\ GroupSeen(q) => Outcome(q, i, AtProbe(c, q))
         /\ Outcome(q, i, AfterGroup(c, q, group))
<1>1. ASSUME GroupSeen(q) PROVE Outcome(q, i, AtProbe(c, q))
  <2>1. CASE Valid(Target(q))
    <3>1. Checked(q)
      BY <1>1, <2>1 DEF Checked
    <3>2. QED
      BY <2>1, <3>1, AtAuthorizeOutcome DEF AtProbe, Target
  <2>2. CASE ~Valid(Target(q))
    BY <2>2, ErrorOutcome DEF AtProbe, Target
  <2>3. QED
    BY <2>1, <2>2
<1>2. Outcome(q, i, AfterGroup(c, q, group))
  <2>1. CASE group = None
    BY <2>1, ErrorOutcome DEF AfterGroup
  <2>2. CASE group # None
    BY <1>1, <2>2 DEF AfterGroup
  <2>3. QED
    BY <2>1, <2>2
<1>3. QED
  BY <1>1, <1>2

LEMMA AtModelOutcome ==
  ASSUME NEW c, CacheInv(c), NEW q \in Asks, NEW i, q.kind \in WriteKinds
  PROVE  Outcome(q, i, AtModel(c, q))
<1>0. q.dn \in Dns /\ q.data \in Item /\ q.data.group \in Groups \cup {None}
  BY DEF Ask, Item
<1>1. CASE q.dn \in Groups
  <2>1. q.dn \notin Probes
    BY <1>1
  <2>2. CASE q.kind = "put"
    BY <1>1, <2>2, ErrorOutcome DEF AtModel
  <2>3. CASE q.kind # "put"
    BY <1>1, <2>1, <2>3, AtAuthorizeOutcome DEF AtModel
  <2>4. QED
    BY <2>2, <2>3
<1>2. CASE q.dn \in Probes
  <2>0. q.dn \notin Groups
    BY <1>2
  <2>1. CASE q.data.group = None
    <3>1. GroupSeen(q)
      BY <2>1 DEF GroupSeen
    <3>2. Outcome(q, i, AtProbe(c, q))
      BY <1>2, <3>1, AfterGroupOutcome
    <3>3. QED
      BY <2>0, <2>1, <3>2 DEF AtModel
  <2>2. CASE q.data.group # None /\ c.get[q.data.group] = Miss
    <3>1. Stage(q, "group")
      BY <1>0, <1>2, <2>2 DEF Stage
    <3>2. QED
      BY <2>0, <2>2, <3>1, WaitOutcome DEF AtModel, PC
  <2>3. CASE q.data.group # None /\ c.get[q.data.group] # Miss
    <3>1. q.data.group \in Dns
      BY <1>0, <2>3 DEF Dns
    <3>2. c.get[q.data.group] # None => GroupSeen(q)
      BY <2>3, <3>1 DEF CacheInv, CacheTold, GroupSeen
    <3>3. Outcome(q, i, AfterGroup(c, q, c.get[q.data.group]))
      BY <1>2, <3>2, AfterGroupOutcome
    <3>4. QED
      BY <2>0, <2>3, <3>3 DEF AtModel
  <2>4. QED
    BY <2>1, <2>2, <2>3
<1>3. QED
  BY <1>0, <1>1, <1>2 DEF Dns

LEMMA ListOfIn == \A q \in Asks : ListOf(q.dn) \in Lists
BY DEF Ask, ListOf, Lists, ModelOf, Dns

LEMMA AfterUserOutcome ==
  ASSUME NEW c, CacheInv(c), NEW q \in Asks, NEW i, Stage(q, "user")
  PROVE  Outcome(q, i, AfterUser(c, q))
<1>0. q.dn \in Dns
  BY DEF Ask
<1>1. CASE q.kind \in WriteKinds
  BY <1>1, AtModelOutcome DEF AfterUser, WriteKinds
<1>2. CASE q.kind = "get"
  <2>1. CASE c.get[q.dn] = Miss
    <3>1. Stage(q, "get") /\ AfterUser(c, q) = Wait("get")
      BY <1>2, <2>1 DEF Stage, AfterUser
    <3>2. QED
      BY <3>1, WaitOutcome DEF PC
  <2>2. CASE c.get[q.dn] # Miss
    <3>1. c.get[q.dn] \in Entry /\ AfterUser(c, q) = Found(c.get[q.dn])
      BY <1>0, <1>2, <2>2 DEF CacheInv, CacheTyped, AfterUser
    <3>2. QED
      BY <1>2, <3>1, FoundOutcome
  <2>3. QED
    BY <2>1, <2>2
<1>3. CASE q.kind = "list"
  <2>1. CASE c.list[ListOf(q.dn)] = Miss
    <3>1. Stage(q, "list") /\ AfterUser(c, q) = Wait("list")
      BY <1>3, <2>1 DEF Stage, AfterUser
    <3>2. QED
      BY <3>1, WaitOutcome DEF PC
  <2>2. CASE c.list[ListOf(q.dn)] # Miss
    <3>1. c.list[ListOf(q.dn)] \in Listing(ListOf(q.dn))
      BY <2>2, ListOfIn DEF CacheInv, CacheTyped
    <3>2. AfterUser(c, q) = Reply(200, c.list[ListOf(q.dn)])
      BY <1>3, <2>2 DEF AfterUser
    <3>3. Answers200(q) = Listing(ListOf(q.dn))
      BY <1>3 DEF Answers200
    <3>4. QED
      BY <3>1, <3>2, <3>3, OkOutcome
  <2>3. QED
    BY <2>1, <2>2
<1>4. CASE q.kind = "delete"
  <2>1. Stage(q, "fetch") /\ AfterUser(c, q) = Wait("fetch")
    BY <1>4 DEF Stage, AfterUser
  <2>2. QED
    BY <2>1, WaitOutcome DEF PC
<1>5. QED
  BY <1>1, <1>2, <1>3, <1>4 DEF Stage, WriteKinds

LEMMA AtRequestOutcome ==
  ASSUME NEW c, CacheInv(c), NEW q \in Asks, NEW i
  PROVE  Outcome(q, i, AtRequest(c, q))
<1>0. q.user \in Users /\ q.data \in Item /\ q.kind \in
        {"post", "put", "get", "list", "delete", "head", "agentprobes"}
  BY DEF Ask
<1>1. CASE q.kind = "agentprobes"
  <2>1. Stage(q, "agentprobes") /\ AtRequest(c, q) = Wait("agentprobes")
    BY <1>1 DEF Stage, AtRequest
  <2>2. QED
    BY <2>1, WaitOutcome DEF PC
<1>2. CASE q.kind = "head"
  <2>1. q.data.agent \in Agents
    BY <1>2
  <2>2. CASE c.head[q.data.agent] = Miss
    <3>1. Stage(q, "head") /\ AtRequest(c, q) = Wait("head")
      BY <1>2, <2>2 DEF Stage, AtRequest
    <3>2. QED
      BY <3>1, WaitOutcome DEF PC
  <2>3. CASE c.head[q.data.agent] # Miss
    <3>1. c.head[q.data.agent] \in Answers200(q)
      BY <1>2, <2>1, <2>3 DEF CacheInv, CacheTyped, Answers200
    <3>2. AtRequest(c, q) = Reply(200, c.head[q.data.agent])
      BY <1>2, <2>3 DEF AtRequest
    <3>3. QED
      BY <3>1, <3>2, OkOutcome
  <2>4. QED
    BY <2>2, <2>3
<1>3. CASE q.kind \in {"post", "put", "get", "list", "delete"}
  <2>1. Stage(q, "user") /\ AtRequest(c, q) = AtUser(c, q)
    BY <1>3 DEF Stage, AtRequest
  <2>2. CASE c.user[q.user] = Miss
    BY <2>1, <2>2, WaitOutcome DEF AtUser, PC
  <2>3. CASE c.user[q.user] # Miss
    <3>1. Outcome(q, i, AfterUser(c, q)) /\ Outcome(q, i, Reply(404, None))
      BY <2>1, AfterUserOutcome, ErrorOutcome
    <3>2. QED
      BY <2>1, <2>3, <3>1 DEF AtUser
  <2>4. QED
    BY <2>2, <2>3
<1>4. QED
  BY <1>0, <1>1, <1>2, <1>3

----------------------------------------------------------------------------
(* Pieces of the steps *)

\* What was known stays known: history only grows.
LEMMA Grown ==
  ASSUME past \subseteq past', was.operators \subseteq was'.operators,
         was.servers \subseteq was'.servers
  PROVE  /\ \A h : HandlerInv(h) => HandlerInv(h)'
         /\ \A c : CacheInv(c) => CacheInv(c)'
<1>1. \A q : GroupSeen(q) => GroupSeen(q)'
  BY DEF GroupSeen
<1>2. \A q : Checked(q) => Checked(q)'
  BY <1>1 DEF Checked
<1>3. \A u, d, s : MayHave(u, d, s) => MayHave(u, d, s)'
  BY DEF MayHave
<1>4. \A q, pc : Stage(q, pc) => Stage(q, pc)'
  BY <1>2, <1>3 DEF Stage
<1>5. \A q, pc, v : Told(q, pc, v) => Told(q, pc, v)'
  BY DEF Told
<1>6. \A h : HandlerInv(h) => HandlerInv(h)'
  BY <1>4, <1>5 DEF HandlerInv
<1>7. \A c : CacheTold(c) => CacheTold(c)'
  BY DEF CacheTold
<1>8. QED
  BY <1>6, <1>7 DEF CacheInv

LEMMA HandlerIn ==
  ASSUME Inv, NEW r \in Requests
  PROVE  /\ HandlerInv(req[r]) /\ req[r].ask \in Asks /\ req[r].ask \in Ask
         /\ req[r].ask.dn \in Dns /\ req[r].ask.user \in Users /\ req[r].ask.data \in Item
BY DEF Inv, ReqInv, HandlerInv, Ask

\* Handlers but one stay, and that one is as it should be.
LEMMA ReqStep ==
  ASSUME Inv, NEW r \in Requests, NEW h, HandlerInv(h),
         req' = [req EXCEPT ![r] = h], UNCHANGED <<past, was>>
  PROVE  ReqInv'
<1>1. \A s \in Requests : \A g : req'[s] = g => HandlerInv(g)
  BY DEF Inv, ReqInv
<1>2. \A g : HandlerInv(g) => HandlerInv(g)'
  BY Grown
<1>3. req' = [s \in Requests |-> req'[s]]
  BY DEF Inv, ReqInv
<1>4. QED
  BY <1>1, <1>2, <1>3 DEF ReqInv

LEMMA Proceeded ==
  ASSUME Inv, NEW r \in Requests, NEW q, q = req[r].ask, NEW c, CacheInv(c),
         NEW i \in Entry, NEW out, Outcome(q, i, out),
         Proceed(r, c, i, out), UNCHANGED <<past, was>>
  PROVE  ReqInv' /\ CachesInv'
<1> PICK g : g = req[r]
  OBVIOUS
<1> DEFINE h == [g EXCEPT !.pc = out.pc, !.answer = out.answer, !.item = i,
                          !.ran = FALSE, !.reply = None, !.touched = {}]
<1>1. HandlerInv(g) /\ g.ask = q /\ q \in Asks
  BY HandlerIn
<1>2. req' = [req EXCEPT ![r] = h]
  BY DEF Proceed, Inv, ReqInv
<1>3. /\ h.pc = out.pc /\ h.answer = out.answer /\ h.item = i /\ h.ran = FALSE
      /\ h.reply = None /\ h.touched = {} /\ h.ask = q /\ Shaped(h)
  BY <1>1 DEF HandlerInv, Shaped, Fields
<1> HIDE DEF h
<1>4. HandlerInv(h)
  BY <1>1, <1>3 DEF HandlerInv, Outcome
<1>5. ReqInv'
  BY <1>2, <1>4, ReqStep
<1>6. CachesInv'
  BY Grown DEF Proceed, CachesInv
<1>7. QED
  BY <1>5, <1>6

\* A cache with one entry more, or less.
LEMMA CacheFilled ==
  ASSUME NEW c, CacheInv(c)
  PROVE  /\ \A u \in Users, b \in {Miss} \cup BOOLEAN : CacheInv([c EXCEPT !.user[u] = b])
         /\ \A u \in Users, b \in {Miss} \cup BOOLEAN :
              (b = TRUE => u \in was.operators) => CacheInv([c EXCEPT !.operator[u] = b])
         /\ \A l \in {Miss} \cup SUBSET Agents :
              (l # Miss => l \subseteq was.servers) => CacheInv([c EXCEPT !.servers = l])
         /\ \A dn \in Dns, v \in {Miss} \cup Entry :
              (v \notin {Miss, None} => \E db \in past : db[dn] # None)
                => CacheInv([c EXCEPT !.get[dn] = v])
         /\ \A l \in Lists : \A v \in {Miss} \cup Listing(l) :
              CacheInv([c EXCEPT !.list[l] = v])
         /\ \A a \in Agents, v \in {Miss} \cup Content :
              CacheInv([c EXCEPT !.head[a] = v])
<1> USE DEF CacheInv
<1>0. CacheTyped(c) /\ CacheTold(c)
  OBVIOUS
<1>1. ASSUME NEW u \in Users, NEW b \in {Miss} \cup BOOLEAN
      PROVE  CacheInv([c EXCEPT !.user[u] = b])
  <2> DEFINE d == [c EXCEPT !.user[u] = b]
  <2>1. d = [user |-> [c.user EXCEPT ![u] = b], operator |-> c.operator,
             servers |-> c.servers, get |-> c.get, list |-> c.list, head |-> c.head]
    BY <1>0 DEF CacheTyped, CacheShaped
  <2> HIDE DEF d
  <2>2. CacheTyped(d)
    BY <1>0, <2>1 DEF CacheTyped, CacheShaped
  <2>3. CacheTold(d)
    BY <1>0, <2>1 DEF CacheTold
  <2>4. QED
    BY <2>2, <2>3 DEF d
<1>2. ASSUME NEW u \in Users, NEW b \in {Miss} \cup BOOLEAN, b = TRUE => u \in was.operators
      PROVE  CacheInv([c EXCEPT !.operator[u] = b])
  <2> DEFINE d == [c EXCEPT !.operator[u] = b]
  <2>1. d = [user |-> c.user, operator |-> [c.operator EXCEPT ![u] = b],
             servers |-> c.servers, get |-> c.get, list |-> c.list, head |-> c.head]
    BY <1>0 DEF CacheTyped, CacheShaped
  <2> HIDE DEF d
  <2>2. CacheTyped(d)
    BY <1>0, <2>1 DEF CacheTyped, CacheShaped
  <2>3. CacheTold(d)
    BY <1>0, <1>2, <2>1 DEF CacheTold, CacheTyped
  <2>4. QED
    BY <2>2, <2>3 DEF d
<1>3. ASSUME NEW l \in {Miss} \cup SUBSET Agents, l # Miss => l \subseteq was.servers
      PROVE  CacheInv([c EXCEPT !.servers = l])
  <2> DEFINE d == [c EXCEPT !.servers = l]
  <2>1. d = [user |-> c.user, operator |-> c.operator, servers |-> l,
             get |-> c.get, list |-> c.list, head |-> c.head]
    BY <1>0 DEF CacheTyped, CacheShaped
  <2> HIDE DEF d
  <2>2. CacheTyped(d)
    BY <1>0, <2>1 DEF CacheTyped, CacheShaped
  <2>3. CacheTold(d)
    BY <1>0, <1>3, <2>1 DEF CacheTold
  <2>4. QED
    BY <2>2, <2>3 DEF d
<1>4. ASSUME NEW dn \in Dns, NEW v \in {Miss} \cup Entry,
             v \notin {Miss, None} => \E db \in past : db[dn] # None
      PROVE  CacheInv([c EXCEPT !.get[dn] = v])
  <2> DEFINE d == [c EXCEPT !.get[dn] = v]
  <2>1. d = [user |-> c.user, operator |-> c.operator, servers |-> c.servers,
             get |-> [c.get EXCEPT ![dn] = v], list |-> c.list, head |-> c.head]
    BY <1>0 DEF CacheTyped, CacheShaped
  <2> HIDE DEF d
  <2>2. CacheTyped(d)
    BY <1>0, <2>1 DEF CacheTyped, CacheShaped
  <2>3. CacheTold(d)
    BY <1>0, <1>4, <2>1 DEF CacheTold, CacheTyped
  <2>4. QED
    BY <2>2, <2>3 DEF d
<1>5. ASSUME NEW l \in Lists, NEW v \in {Miss} \cup Listing(l)
      PROVE  CacheInv([c EXCEPT !.list[l] = v])
  <2> DEFINE d == [c EXCEPT !.list[l] = v]
  <2>1. d = [user |-> c.user, operator |-> c.operator, servers |-> c.servers,
             get |-> c.get, list |-> [c.list EXCEPT ![l] = v], head |-> c.head]
    BY <1>0 DEF CacheTyped, CacheShaped
  <2> HIDE DEF d
  <2>2. CacheTyped(d)
    BY <1>0, <2>1 DEF CacheTyped, CacheShaped
  <2>3. CacheTold(d)
    BY <1>0, <2>1 DEF CacheTold
  <2>4. QED
    BY <2>2, <2>3 DEF d
<1>6. ASSUME NEW a \in Agents, NEW v \in {Miss} \cup Content
      PROVE  CacheInv([c EXCEPT !.head[a] = v])
  <2> DEFINE d == [c EXCEPT !.head[a] = v]
  <2>1. d = [user |-> c.user, operator |-> c.operator, servers |-> c.servers,
             get |-> c.get, list |-> c.list, head |-> [c.head EXCEPT ![a] = v]]
    BY <1>0 DEF CacheTyped, CacheShaped
  <2> HIDE DEF d
  <2>2. CacheTyped(d)
    BY <1>0, <2>1 DEF CacheTyped, CacheShaped
  <2>3. CacheTold(d)
    BY <1>0, <2>1 DEF CacheTold
  <2>4. QED
    BY <2>2, <2>3 DEF d
<1>7. QED
  BY <1>1, <1>2, <1>3, <1>4, <1>5, <1>6

LEMMA EmptyCache == CacheInv(NoCache)
BY DEF CacheInv, CacheTyped, CacheShaped, CacheTold, NoCache

LEMMA InvalidatedIs ==
  ASSUME NEW c, CacheTyped(c), NEW dn, NEW item
  PROVE  Invalidated(c, dn, item) =
           [user |-> c.user, operator |-> c.operator, servers |-> c.servers,
            get |-> [c.get EXCEPT ![dn] = Miss],
            list |-> [x \in Lists |-> IF x[1] = ModelOf(dn) THEN Miss ELSE c.list[x]],
            head |-> [a \in Agents |-> IF dn \in Probes /\ a = item.agent
                                       THEN Miss ELSE c.head[a]]]
<1> DEFINE d == Invalidated(c, dn, item)
           l == [x \in Lists |-> IF x[1] = ModelOf(dn) THEN Miss ELSE c.list[x]]
           e == [a \in Agents |-> IF dn \in Probes /\ a = item.agent
                                  THEN Miss ELSE c.head[a]]
<1>1. d = [c EXCEPT !.list = l, !.get = [c.get EXCEPT ![dn] = Miss], !.head = e]
  BY DEF CacheTyped, CacheShaped, Invalidated
<1> HIDE DEF d, l, e
<1>2. d = [user |-> c.user, operator |-> c.operator, servers |-> c.servers,
           get |-> [c.get EXCEPT ![dn] = Miss], list |-> l, head |-> e]
  BY <1>1 DEF CacheTyped, CacheShaped
<1>3. QED
  BY <1>2 DEF d, l, e

LEMMA InvalidatedCache ==
  ASSUME NEW c, CacheInv(c), NEW dn \in Dns, NEW item \in Item
  PROVE  CacheInv(Invalidated(c, dn, item))
<1> DEFINE d == Invalidated(c, dn, item)
           l == [x \in Lists |-> IF x[1] = ModelOf(dn) THEN Miss ELSE c.list[x]]
           e == [a \in Agents |-> IF dn \in Probes /\ a = item.agent
                                  THEN Miss ELSE c.head[a]]
<1>0. CacheTyped(c) /\ CacheTold(c)
  BY DEF CacheInv
<1>1. d = [user |-> c.user, operator |-> c.operator, servers |-> c.servers,
           get |-> [c.get EXCEPT ![dn] = Miss], list |-> l, head |-> e]
  BY <1>0, InvalidatedIs
<1>2. e \in [Agents -> {Miss} \cup Content] /\ l = [x \in Lists |-> l[x]]
      /\ \A x \in Lists : l[x] \in {Miss} \cup Listing(x)
  BY <1>0 DEF CacheTyped
<1> HIDE DEF d, l, e
<1>3. CacheTyped(d)
  BY <1>0, <1>1, <1>2 DEF CacheTyped, CacheShaped
<1>4. CacheTold(d)
  BY <1>0, <1>1 DEF CacheTold, CacheTyped
<1>5. QED
  BY <1>3, <1>4 DEF CacheInv, d

LEMMA FillsKeys ==
  ASSUME Inv, NEW r \in Requests
  PROVE  Fills(req[r]) \subseteq Keys
<1>1. HandlerInv(req[r]) /\ req[r].ask \in Asks /\ req[r].ask.dn \in Dns
      /\ ListOf(req[r].ask.dn) \in Lists
  BY HandlerIn, ListOfIn
<1>2. /\ req[r].pc = "group" => req[r].ask.data.group \in Dns
      /\ req[r].pc = "head" => req[r].ask.data.agent \in Agents
  BY <1>1 DEF HandlerInv, Stage, Dns
<1>3. QED
  BY <1>1, <1>2 DEF Fills, Keys

LEMMA ReadsTyped ==
  ASSUME WorldInv
  PROVE  /\ \A l : ReadList(ufds, l) \in Listing(l)
         /\ \A a : ReadAgent(ufds, a) \in Content
<1>1. ASSUME NEW l PROVE ReadList(ufds, l) \in Listing(l)
  BY DEF ReadList, Listing, WorldInv
<1>2. ASSUME NEW a PROVE ReadAgent(ufds, a) \in Content
  BY DEF ReadAgent, Content, WorldInv, Entry, Dns
<1>3. QED
  BY <1>1, <1>2

\* What a write stores.
LEMMA ModifiedIs ==
  ASSUME NEW old \in Item, NEW new \in Item
  PROVE  Modified(old, new) \in Item
<1> DEFINE m == Modified(old, new)
<1>1. DOMAIN old = {"type", "agent", "machine", "group", "name"}
  BY DEF Item
<1>2. m = [f \in {"type", "agent", "machine", "group", "name"} |->
             IF new[f] = None THEN old[f] ELSE new[f]]
  BY <1>1 DEF Modified
<1>3. /\ m.type = IF new.type = None THEN old.type ELSE new.type
      /\ m.agent = IF new.agent = None THEN old.agent ELSE new.agent
      /\ m.machine = IF new.machine = None THEN old.machine ELSE new.machine
      /\ m.group = IF new.group = None THEN old.group ELSE new.group
      /\ m.name = IF new.name = None THEN old.name ELSE new.name
  BY <1>2
<1>4. m = [type |-> m.type, agent |-> m.agent, machine |-> m.machine,
           group |-> m.group, name |-> m.name]
  BY <1>2
<1> HIDE DEF m
<1>5. m \in Item
  BY <1>3, <1>4 DEF Item
<1>6. QED
  BY <1>5 DEF m

----------------------------------------------------------------------------
(* Each step *)

LEMMA InitInv == Init => Inv
<1> SUFFICES ASSUME Init PROVE Inv
  OBVIOUS
<1>1. WorldInv /\ CountInv
  BY DEF Init, WorldInv, CountInv, Entry
<1>2. CachesInv
  BY EmptyCache DEF Init, CachesInv
<1>3. HandlerInv(Idle)
  <2>1. NoAsk \in Asks
    BY DEF NoAsk
  <2>2. Idle.pc = "idle" /\ Idle.ask = NoAsk /\ Idle.ran = FALSE /\ Idle.reply = None
        /\ Idle.item = None /\ Idle.touched = {} /\ Idle.answer = NoAnswer
    BY DEF Idle
  <2>3. Shaped(Idle)
    BY DEF Idle, Shaped, Fields
  <2>4. Stage(NoAsk, "idle") /\ AnswerTyped(NoAsk, NoAnswer)
    BY DEF Stage, AnswerTyped, NoAnswer
  <2>5. QED
    BY <2>1, <2>2, <2>3, <2>4 DEF HandlerInv, PC, Entry
<1>4. ReqInv
  BY <1>3 DEF Init, ReqInv
<1>5. QED
  BY <1>1, <1>2, <1>4 DEF Inv

LEMMA WorldStays ==
  ASSUME Inv, UNCHANGED External, errors' = errors \/ errors' \in 0..MaxErrors,
         tainted' \in SUBSET Keys
  PROVE  WorldInv' /\ CountInv'
BY DEF Inv, External, WorldInv, CountInv

LEMMA ReceiveInv ==
  ASSUME Inv, NEW r \in Requests, NEW a \in Asks, Receive(r, a)
  PROVE  Inv'
<1> PICK g, out : g = req[r] /\ out = AtRequest(cache, a)
  OBVIOUS
<1> DEFINE h == [g EXCEPT !.pc = out.pc, !.answer = out.answer, !.ask = a]
<1>1. HandlerInv(g) /\ g.pc = "idle" /\ ~g.ran
  BY HandlerIn DEF Receive, HandlerInv
<1>2. Outcome(a, g.item, out)
  BY AtRequestOutcome DEF Inv, CachesInv
<1>3. req' = [req EXCEPT ![r] = h]
  BY DEF Receive, Inv, ReqInv
<1>4. /\ h.pc = out.pc /\ h.answer = out.answer /\ h.item = g.item /\ h.ran = g.ran
      /\ h.reply = g.reply /\ h.touched = g.touched /\ h.ask = a /\ Shaped(h)
  BY <1>1 DEF HandlerInv, Shaped, Fields
<1> HIDE DEF h
<1>5. HandlerInv(h)
  BY <1>1, <1>2, <1>4 DEF HandlerInv, Outcome
<1>6. UNCHANGED <<External, cache, tainted, errors>>
  BY DEF Receive
<1>7. ReqInv' /\ CachesInv'
  <2>1. UNCHANGED <<past, was, cache>>
    BY <1>6 DEF External
  <2>2. CachesInv'
    BY <2>1, Grown DEF Inv, CachesInv
  <2>3. QED
    BY <1>3, <1>5, <2>1, <2>2, ReqStep
<1>8. QED
  BY <1>6, <1>7, WorldStays DEF Inv, CountInv

\* A service answers what it knows now.
LEMMA RunReadInv ==
  ASSUME Inv, NEW r \in Requests, RunRead(r)
  PROVE  Inv'
<1> PICK g, v : g = req[r] /\ v = ReadFor(g)
  OBVIOUS
<1> DEFINE h == [g EXCEPT !.ran = TRUE, !.reply = v]
<1>1. HandlerInv(g) /\ g.ask \in Asks /\ g.ask.dn \in Dns /\ g.ask.user \in Users
      /\ g.pc \in Reads /\ WorldInv
  BY HandlerIn DEF RunRead, Inv
<1>2. v \in Replies(g)
  <2>1. CASE g.pc \in {"group", "get", "fetch"}
    <3>1. g.pc = "group" => g.ask.data.group \in Dns
      BY <1>1 DEF HandlerInv, Stage, Dns
    <3>2. v \in Entry
      BY <1>1, <2>1, <3>1 DEF ReadFor, WorldInv
    <3>3. QED
      BY <2>1, <3>2 DEF Replies
  <2>2. CASE g.pc \in {"list", "head", "agentprobes", "servers"}
    BY <1>1, <2>2, ReadsTyped DEF ReadFor, Replies, WorldInv
  <2>3. CASE g.pc \in {"user", "operator", "operator3", "vm", "machine"}
    <3>1. Replies(g) = BOOLEAN
      BY <2>3 DEF Replies
    <3>2. /\ g.pc = "user" => v = (g.ask.user \in Known)
          /\ g.pc \in {"operator", "operator3"} => v = (g.ask.user \in operators)
          /\ g.pc = "vm" => v = (VmOwner[Inferred(g.ask.data).agent] = g.ask.user)
          /\ g.pc = "machine" => v = (VmOwner[Inferred(g.ask.data).machine] # None)
      BY DEF ReadFor
    <3>3. \E b \in BOOLEAN : v = b
      <4>1. CASE g.pc = "user"
        <5>1. v = (g.ask.user \in Known) /\ (g.ask.user \in Known) \in BOOLEAN
          BY <3>2, <4>1
        <5>2. QED
          BY <5>1, Zenon
      <4>2. CASE g.pc \in {"operator", "operator3"}
        <5>1. v = (g.ask.user \in operators) /\ (g.ask.user \in operators) \in BOOLEAN
          BY <3>2, <4>2
        <5>2. QED
          BY <5>1, Zenon
      <4>3. CASE g.pc = "vm"
        BY <3>2, <4>3, Zenon
      <4>4. CASE g.pc = "machine"
        BY <3>2, <4>4, Zenon
      <4>5. QED
        BY <2>3, <4>1, <4>2, <4>3, <4>4
    <3>4. QED
      BY <3>1, <3>3
  <2>4. QED
    BY <1>1, <2>1, <2>2, <2>3 DEF Reads, PC
<1>3. Told(g.ask, g.pc, v)
  <2>1. ufds \in past /\ operators \subseteq was.operators /\ servers \subseteq was.servers
    BY <1>1 DEF WorldInv
  <2>2. CASE g.pc \in {"group", "get"}
    BY <2>1, <2>2 DEF ReadFor, Told
  <2>3. CASE g.pc \in {"servers", "operator", "operator3"}
    BY <2>1, <2>3 DEF ReadFor, Told
  <2>4. CASE g.pc \in {"vm", "machine"}
    BY <2>4 DEF ReadFor, Told, Target
  <2>5. CASE g.pc \notin {"group", "get", "servers", "operator", "operator3", "vm", "machine"}
    BY <2>5 DEF Told
  <2>6. QED
    BY <2>2, <2>3, <2>4, <2>5
<1>4. req' = [req EXCEPT ![r] = h]
  BY DEF RunRead, Inv, ReqInv
<1>5. /\ h.pc = g.pc /\ h.answer = g.answer /\ h.item = g.item /\ h.ran = TRUE
      /\ h.reply = v /\ h.touched = g.touched /\ h.ask = g.ask /\ Shaped(h)
  BY <1>1 DEF HandlerInv, Shaped, Fields
<1> HIDE DEF h
<1>6. HandlerInv(h)
  <2>1. h.pc \notin {"idle", "done"} /\ Replies(h) = Replies(g)
    BY <1>1, <1>5 DEF Reads, Replies
  <2>2. QED
    BY <1>1, <1>2, <1>3, <1>5, <2>1 DEF HandlerInv
<1>7. UNCHANGED <<External, cache, tainted, errors>>
  BY DEF RunRead
<1>8. ReqInv' /\ CachesInv'
  <2>1. UNCHANGED <<past, was, cache>>
    BY <1>7 DEF External
  <2>2. CachesInv'
    BY <2>1, Grown DEF Inv, CachesInv
  <2>3. QED
    BY <1>4, <1>6, <2>1, <2>2, ReqStep
<1>9. QED
  BY <1>7, <1>8, WorldStays DEF Inv, CountInv

\* UFDS changes an entry, or not.
LEMMA ChangeInv ==
  ASSUME Inv, NEW r \in Requests, NEW dn \in Dns, NEW new \in Entry, NEW ok \in BOOLEAN,
         req[r].pc \in {"write", "erase"}, Change(r, dn, new, ok)
  PROVE  Inv'
<1> PICK t : t = IF ok THEN Concerned(dn, ufds[dn], new) ELSE {}
  OBVIOUS
<1>1. WorldInv /\ ufds[dn] \in Entry
  BY DEF Inv, WorldInv
<1>2. t \subseteq Keys
  <2>1. ListOf(dn) \in Lists
    BY DEF ListOf, Lists, ModelOf, Dns
  <2>2. \A j \in {ufds[dn], new} : j # None /\ j.agent # None => j.agent \in Agents
    BY <1>1 DEF Entry, Item
  <2>3. QED
    BY <2>1, <2>2 DEF Concerned, Keys
<1>3. /\ past \subseteq past' /\ UNCHANGED <<operators, servers, was, changes, cache>>
      /\ UNCHANGED <<tainted, errors>>
      /\ req' = [s \in Requests |->
           IF s = r THEN [req[r] EXCEPT !.ran = TRUE, !.reply = ok, !.touched = t]
           ELSE IF req[s].ran
           THEN [req[s] EXCEPT !.touched = @ \cup (Fills(req[s]) \cap t)]
           ELSE req[s]]
  BY DEF Change
<1>4. WorldInv' /\ CountInv'
  <2>1. ufds' \in [Dns -> Entry] /\ past' = past \cup {ufds'}
    BY <1>1 DEF Change, WorldInv
  <2>2. QED
    BY <1>1, <1>3, <2>1 DEF WorldInv, CountInv, Inv
<1>5. ASSUME NEW s \in Requests PROVE HandlerInv(req'[s])
  <2> PICK g : g = req[s]
    OBVIOUS
  <2>1. HandlerInv(g)
    BY HandlerIn
  <2>2. CASE s = r
    <3> DEFINE h == [g EXCEPT !.ran = TRUE, !.reply = ok, !.touched = t]
    <3>1. req'[s] = h
      BY <1>3, <2>2
    <3>2. /\ h.pc = g.pc /\ h.answer = g.answer /\ h.item = g.item /\ h.ran = TRUE
          /\ h.reply = ok /\ h.touched = t /\ h.ask = g.ask /\ Shaped(h)
      BY <2>1 DEF HandlerInv, Shaped, Fields
    <3> HIDE DEF h
    <3>3. ok \in Replies(h) /\ Told(h.ask, h.pc, h.reply) /\ h.pc \in {"write", "erase"}
      BY <2>2, <3>2 DEF Replies, Told
    <3>4. HandlerInv(h)
      BY <1>2, <2>1, <3>2, <3>3 DEF HandlerInv
    <3>5. QED
      BY <3>1, <3>4
  <2>3. CASE s # r /\ g.ran
    <3> PICK k : k = Fills(g) \cap t
      OBVIOUS
    <3> DEFINE h == [g EXCEPT !.touched = @ \cup k]
    <3>1. req'[s] = h
      BY <1>3, <2>3
    <3>2. /\ h.pc = g.pc /\ h.answer = g.answer /\ h.item = g.item /\ h.ran = g.ran
          /\ h.reply = g.reply /\ h.touched = g.touched \cup k /\ h.ask = g.ask /\ Shaped(h)
      BY <2>1 DEF HandlerInv, Shaped, Fields
    <3> HIDE DEF h
    <3>3. k \subseteq Keys /\ Replies(h) = Replies(g)
      BY <1>2, <3>2 DEF Replies
    <3>4. HandlerInv(h)
      BY <2>1, <2>3, <3>2, <3>3 DEF HandlerInv
    <3>5. QED
      BY <3>1, <3>4
  <2>4. CASE s # r /\ ~g.ran
    BY <1>3, <2>1, <2>4
  <2>5. QED
    BY <2>2, <2>3, <2>4
<1>6. ReqInv' /\ CachesInv'
  <2>1. /\ \A h : HandlerInv(h) => HandlerInv(h)'
        /\ \A c : CacheInv(c) => CacheInv(c)'
    BY <1>3, Grown
  <2>2. \A s \in Requests : \A h : req'[s] = h => HandlerInv(h)
    BY <1>5
  <2>3. req' = [s \in Requests |-> req'[s]]
    BY <1>3
  <2>4. ReqInv'
    BY <2>1, <2>2, <2>3 DEF ReqInv
  <2>5. CachesInv'
    BY <1>3, <2>1 DEF Inv, CachesInv
  <2>6. QED
    BY <2>4, <2>5
<1>7. QED
  BY <1>4, <1>6 DEF Inv

LEMMA RunWriteInv ==
  ASSUME Inv, NEW r \in Requests, RunWrite(r) \/ RunErase(r)
  PROVE  Inv'
<1>1. /\ req[r].ask.dn \in Dns /\ req[r].ask.data \in Item /\ None \in Entry
      /\ Inferred(req[r].ask.data) \in Item /\ ufds[req[r].ask.dn] \in Entry
  BY HandlerIn, InferredIs DEF Inv, WorldInv, Entry
<1>2. ufds[req[r].ask.dn] # None =>
        Modified(ufds[req[r].ask.dn], Inferred(req[r].ask.data)) \in Entry
  BY <1>1, ModifiedIs DEF Entry
<1>3. CASE RunErase(r)
  BY <1>1, <1>3, ChangeInv DEF RunErase
<1>4. CASE RunWrite(r) /\ req[r].ask.kind = "post"
  <2>1. Inferred(req[r].ask.data) \in Entry
    BY <1>1 DEF Entry
  <2>2. Change(r, req[r].ask.dn, Inferred(req[r].ask.data), ufds[req[r].ask.dn] = None)
        /\ req[r].pc = "write"
    BY <1>4 DEF RunWrite
  <2>3. (ufds[req[r].ask.dn] = None) \in BOOLEAN
    OBVIOUS
  <2>4. QED
    BY <1>1, <2>1, <2>2, <2>3, ChangeInv
<1>5. CASE RunWrite(r) /\ req[r].ask.kind # "post"
  <2> DEFINE m == IF ufds[req[r].ask.dn] = None THEN None
                  ELSE Modified(ufds[req[r].ask.dn], Inferred(req[r].ask.data))
  <2>1. m \in Entry
    BY <1>1, <1>2
  <2>2. Change(r, req[r].ask.dn, m, ufds[req[r].ask.dn] # None) /\ req[r].pc = "write"
    BY <1>5 DEF RunWrite
  <2>3. (ufds[req[r].ask.dn] # None) \in BOOLEAN
    OBVIOUS
  <2> HIDE DEF m
  <2>4. QED
    BY <1>1, <2>1, <2>2, <2>3, ChangeInv
<1>6. QED
  BY <1>3, <1>4, <1>5

\* A callback: what it caches, where it goes on.
LEMMA AnswerInv ==
  ASSUME Inv, NEW r \in Requests, NEW c, CacheInv(c), NEW i \in Entry, NEW out,
         Outcome(req[r].ask, i, out), Proceed(r, c, i, out), UNCHANGED External,
         errors' = errors \/ errors' \in 0..MaxErrors, tainted' \in SUBSET Keys
  PROVE  Inv'
<1>1. UNCHANGED <<past, was>>
  BY DEF External
<1>2. ReqInv' /\ CachesInv'
  BY <1>1, Proceeded
<1>3. QED
  BY <1>2, WorldStays DEF Inv

\* What is known of a call that has run.
LEMMA Answered ==
  ASSUME Inv, NEW r \in Requests, NEW pc, Answering(r, pc)
  PROVE  /\ req[r].pc = pc /\ req[r].reply \in Replies(req[r])
         /\ Told(req[r].ask, pc, req[r].reply) /\ Stage(req[r].ask, pc)
         /\ CacheInv(cache) /\ tainted \in SUBSET Keys
         /\ Fill(r) => tainted' \in SUBSET Keys
<1>1. HandlerInv(req[r]) /\ Fills(req[r]) \subseteq Keys /\ tainted \in SUBSET Keys
  BY HandlerIn, FillsKeys DEF Inv, CountInv
<1>2. Fill(r) => tainted' \in SUBSET Keys
  BY <1>1 DEF Fill
<1>3. CacheInv(cache)
  BY DEF Inv, CachesInv
<1>4. QED
  BY <1>1, <1>2, <1>3 DEF Answering, HandlerInv

LEMMA AnswerUserInv ==
  ASSUME Inv, NEW r \in Requests, AnswerUser(r)
  PROVE  Inv'
<1> PICK q, v : q = req[r].ask /\ v = req[r].reply
  OBVIOUS
<1> PICK c : c = [cache EXCEPT !.user[q.user] = v]
  OBVIOUS
<1>1. q \in Asks /\ q.user \in Users
  BY HandlerIn
<1>2. v \in BOOLEAN /\ Stage(q, "user") /\ CacheInv(cache) /\ tainted \in SUBSET Keys
  BY Answered DEF AnswerUser, Replies
<1>3. CacheInv(c)
  BY <1>1, <1>2, CacheFilled
<1> PICK out : out = IF v THEN AfterUser(c, q) ELSE Reply(404, None)
  OBVIOUS
<1>4. Outcome(q, None, out)
  BY <1>1, <1>2, <1>3, AfterUserOutcome, ErrorOutcome
<1>5. Proceed(r, c, None, out) /\ UNCHANGED <<External, tainted, errors>>
  BY DEF AnswerUser
<1>6. QED
  BY <1>2, <1>3, <1>4, <1>5, AnswerInv DEF Entry

LEMMA AnswerGroupInv ==
  ASSUME Inv, NEW r \in Requests, AnswerGroup(r)
  PROVE  Inv'
<1> PICK q, v : q = req[r].ask /\ v = req[r].reply
  OBVIOUS
<1> PICK c : c = [cache EXCEPT !.get[q.data.group] = v]
  OBVIOUS
<1>1. q \in Asks
  BY HandlerIn
<1>2. /\ v \in Entry /\ Told(q, "group", v) /\ Stage(q, "group")
      /\ CacheInv(cache) /\ tainted' \in SUBSET Keys
  BY Answered DEF AnswerGroup, Replies
<1>3. CacheInv(c)
  BY <1>2, CacheFilled DEF Told, Stage, Dns
<1> PICK out : out = AfterGroup(c, q, v)
  OBVIOUS
<1>4. Outcome(q, None, out)
  BY <1>1, <1>2, <1>3, AfterGroupOutcome DEF Told, Stage, GroupSeen
<1>5. Proceed(r, c, None, out) /\ UNCHANGED <<External, errors>>
  BY DEF AnswerGroup
<1>6. QED
  BY <1>2, <1>3, <1>4, <1>5, AnswerInv DEF Entry

LEMMA AnswerServersInv ==
  ASSUME Inv, NEW r \in Requests, AnswerServers(r)
  PROVE  Inv'
<1> PICK q, v : q = req[r].ask /\ v = req[r].reply
  OBVIOUS
<1> PICK c : c = [cache EXCEPT !.servers = v]
  OBVIOUS
<1>1. q \in Asks
  BY HandlerIn
<1>2. /\ v \in SUBSET Agents /\ Told(q, "servers", v) /\ Stage(q, "servers")
      /\ CacheInv(cache) /\ tainted \in SUBSET Keys
  BY Answered DEF AnswerServers, Replies
<1>3. CacheInv(c)
  BY <1>2, CacheFilled DEF Told
<1> PICK out : out = AfterServers(c, q, v)
  OBVIOUS
<1>4. Outcome(q, None, out)
  BY <1>1, <1>2, <1>3, AfterServersOutcome DEF Told, Stage
<1>5. Proceed(r, c, None, out) /\ UNCHANGED <<External, tainted, errors>>
  BY DEF AnswerServers
<1>6. QED
  BY <1>2, <1>3, <1>4, <1>5, AnswerInv DEF Entry

LEMMA AnswerOperatorInv ==
  ASSUME Inv, NEW r \in Requests, AnswerOperator(r)
  PROVE  Inv'
<1> PICK q, v : q = req[r].ask /\ v = req[r].reply
  OBVIOUS
<1> PICK c : c = [cache EXCEPT !.operator[q.user] = v]
  OBVIOUS
<1> PICK pc \in {"operator", "operator3"} : Answering(r, pc)
  BY DEF AnswerOperator
<1>1. q \in Asks /\ q.user \in Users
  BY HandlerIn
<1>2. /\ v \in BOOLEAN /\ Told(q, pc, v) /\ Stage(q, pc)
      /\ CacheInv(cache) /\ tainted \in SUBSET Keys
  BY Answered DEF Replies
<1>3. v = TRUE => q.user \in was.operators
  BY <1>2 DEF Told
<1>4. CacheInv(c)
  BY <1>1, <1>2, <1>3, CacheFilled
<1> PICK out : out = AfterOperator(v)
  OBVIOUS
<1>5. v => MayHave(q.user, Target(q), q.skip)
  BY <1>2, <1>3, OperatorMayHave
<1>6. Outcome(q, None, out)
  BY <1>2, <1>5, AfterOperatorOutcome DEF Stage
<1>7. Proceed(r, c, None, out) /\ UNCHANGED <<External, tainted, errors>>
  BY DEF AnswerOperator
<1>8. QED
  BY <1>2, <1>4, <1>6, <1>7, AnswerInv DEF Entry

LEMMA AnswerVmInv ==
  ASSUME Inv, NEW r \in Requests, AnswerVm(r)
  PROVE  Inv'
<1> PICK q, v, c : q = req[r].ask /\ v = req[r].reply /\ c = cache
  OBVIOUS
<1>1. q \in Asks /\ q.data \in Item
  BY HandlerIn
<1>2. /\ v \in BOOLEAN /\ Told(q, "vm", v) /\ Stage(q, "vm")
      /\ CacheInv(c) /\ tainted \in SUBSET Keys
  BY Answered DEF AnswerVm, Replies
<1> PICK out : out = AfterVm(q, v)
  OBVIOUS
<1>3. Outcome(q, None, out)
  <2>1. v => VmOwner[Target(q).agent] = q.user
    BY <1>2 DEF Told
  <2>2. QED
    BY <1>1, <1>2, <2>1, AfterVmOutcome
<1>4. Proceed(r, c, None, out) /\ UNCHANGED <<External, tainted, errors>>
  BY DEF AnswerVm
<1>5. QED
  BY <1>2, <1>3, <1>4, AnswerInv DEF Entry

LEMMA AnswerMachineInv ==
  ASSUME Inv, NEW r \in Requests, AnswerMachine(r)
  PROVE  Inv'
<1> PICK q, v, c : q = req[r].ask /\ v = req[r].reply /\ c = cache
  OBVIOUS
<1>1. q \in Asks
  BY HandlerIn
<1>2. /\ v \in BOOLEAN /\ Told(q, "machine", v) /\ Stage(q, "machine")
      /\ CacheInv(c) /\ tainted \in SUBSET Keys
  BY Answered DEF AnswerMachine, Replies
<1> PICK out : out = IF v THEN AtOperator(c, q, "operator3") ELSE Reply(409, None)
  OBVIOUS
<1>3. CASE v
  <2>1. Stage(q, "operator3")
    BY <1>2, <1>3 DEF Told, Stage
  <2>2. Outcome(q, None, out)
    BY <1>1, <1>2, <1>3, <2>1, AtOperatorOutcome
  <2>3. Proceed(r, c, None, out) /\ UNCHANGED <<External, tainted, errors>>
    BY DEF AnswerMachine
  <2>4. QED
    BY <1>2, <2>2, <2>3, AnswerInv DEF Entry
<1>4. CASE ~v
  <2>1. Outcome(q, None, out)
    BY <1>4, ErrorOutcome
  <2>2. Proceed(r, c, None, out) /\ UNCHANGED <<External, tainted, errors>>
    BY DEF AnswerMachine
  <2>3. QED
    BY <1>2, <2>1, <2>2, AnswerInv DEF Entry
<1>5. QED
  BY <1>3, <1>4

\* What is tainted when a write is done with.
LEMMA TaintedKeys ==
  ASSUME Inv, NEW r \in Requests
  PROVE  \A c, item : (tainted \cup Moved(r, item)) \ Dropped(c) \in SUBSET Keys
<1>1. req[r].touched \subseteq Keys /\ tainted \subseteq Keys
  BY HandlerIn DEF HandlerInv, Inv, CountInv
<1>2. QED
  BY <1>1 DEF Moved

LEMMA AnswerWriteInv ==
  ASSUME Inv, NEW r \in Requests, AnswerWrite(r)
  PROVE  Inv'
<1> PICK q, v, item : q = req[r].ask /\ v = req[r].reply /\ item = Inferred(q.data)
  OBVIOUS
<1> PICK c : c = Invalidated(cache, q.dn, item)
  OBVIOUS
<1>1. q \in Asks /\ q.dn \in Dns /\ item \in Item
  BY HandlerIn, InferredIs
<1>2. v \in BOOLEAN /\ Stage(q, "write") /\ CacheInv(cache) /\ tainted \in SUBSET Keys
  BY Answered DEF AnswerWrite, Replies
<1>3. CacheInv(c)
  BY <1>1, <1>2, InvalidatedCache
<1>4. UNCHANGED <<External, errors>>
  BY DEF AnswerWrite
<1>5. CASE v
  <2> PICK out : out = Reply(200, item)
    OBVIOUS
  <2>1. Outcome(q, None, out)
    <3>1. Answers200(q) = Item
      BY <1>2 DEF Stage, WriteKinds, Answers200
    <3>2. QED
      BY <1>1, <3>1, OkOutcome
  <2>2. Proceed(r, c, None, out) /\ tainted' \in SUBSET Keys
    BY <1>5, TaintedKeys DEF AnswerWrite
  <2>3. QED
    BY <1>3, <1>4, <2>1, <2>2, AnswerInv DEF Entry
<1>6. CASE ~v
  <2> PICK out, d : out = Reply(500, None) /\ d = cache
    OBVIOUS
  <2>1. Outcome(q, None, out) /\ CacheInv(d)
    BY <1>2, ErrorOutcome
  <2>2. Proceed(r, d, None, out) /\ tainted' \in SUBSET Keys
    BY <1>2, <1>6 DEF AnswerWrite
  <2>3. QED
    BY <1>4, <2>1, <2>2, AnswerInv DEF Entry
<1>7. QED
  BY <1>5, <1>6

LEMMA AnswerFetchInv ==
  ASSUME Inv, NEW r \in Requests, AnswerFetch(r)
  PROVE  Inv'
<1> PICK q, v, c : q = req[r].ask /\ v = req[r].reply /\ c = cache
  OBVIOUS
<1>1. v \in Entry /\ Stage(q, "fetch") /\ CacheInv(c) /\ tainted \in SUBSET Keys
  BY Answered DEF AnswerFetch, Replies
<1> PICK out : out = IF v = None THEN Reply(404, None) ELSE Wait("erase")
  OBVIOUS
<1>2. Outcome(q, v, out)
  <2>1. Stage(q, "erase")
    BY <1>1 DEF Stage
  <2>2. v # None => Outcome(q, v, Wait("erase"))
    BY <2>1, WaitOutcome DEF PC
  <2>3. QED
    BY <2>2, ErrorOutcome
<1>3. Proceed(r, c, v, out) /\ UNCHANGED <<External, tainted, errors>>
  BY DEF AnswerFetch
<1>4. QED
  BY <1>1, <1>2, <1>3, AnswerInv

LEMMA AnswerEraseInv ==
  ASSUME Inv, NEW r \in Requests, AnswerErase(r)
  PROVE  Inv'
<1> PICK q, v, item : q = req[r].ask /\ v = req[r].reply /\ item = req[r].item
  OBVIOUS
<1> PICK c : c = Invalidated(cache, q.dn, item)
  OBVIOUS
<1>1. q \in Asks /\ q.dn \in Dns
  BY HandlerIn
<1>2. v \in BOOLEAN /\ CacheInv(cache) /\ tainted \in SUBSET Keys /\ req[r].pc = "erase"
  BY Answered DEF AnswerErase, Replies
<1>3. item \in Item
  BY <1>2, HandlerIn DEF HandlerInv, Entry
<1>4. CacheInv(c)
  BY <1>1, <1>2, <1>3, InvalidatedCache
<1>5. UNCHANGED <<External, errors>>
  BY DEF AnswerErase
<1>6. CASE v
  <2> PICK out : out = Reply(204, None)
    OBVIOUS
  <2>1. Outcome(q, None, out)
    BY ErrorOutcome
  <2>2. Proceed(r, c, None, out) /\ tainted' \in SUBSET Keys
    BY <1>6, TaintedKeys DEF AnswerErase
  <2>3. QED
    BY <1>4, <1>5, <2>1, <2>2, AnswerInv DEF Entry
<1>7. CASE ~v
  <2> PICK out, d : out = Reply(404, None) /\ d = cache
    OBVIOUS
  <2>1. Outcome(q, None, out) /\ CacheInv(d)
    BY <1>2, ErrorOutcome
  <2>2. Proceed(r, d, None, out) /\ tainted' \in SUBSET Keys
    BY <1>2, <1>7 DEF AnswerErase
  <2>3. QED
    BY <1>5, <2>1, <2>2, AnswerInv DEF Entry
<1>8. QED
  BY <1>6, <1>7

LEMMA AnswerGetInv ==
  ASSUME Inv, NEW r \in Requests, AnswerGet(r)
  PROVE  Inv'
<1> PICK q, v : q = req[r].ask /\ v = req[r].reply
  OBVIOUS
<1> PICK c, out : c = [cache EXCEPT !.get[q.dn] = v] /\ out = Found(v)
  OBVIOUS
<1>1. q.dn \in Dns
  BY HandlerIn
<1>2. /\ v \in Entry /\ Told(q, "get", v) /\ Stage(q, "get")
      /\ CacheInv(cache) /\ tainted' \in SUBSET Keys
  BY Answered DEF AnswerGet, Replies
<1>3. CacheInv(c)
  BY <1>1, <1>2, CacheFilled DEF Told
<1>4. Outcome(q, None, out)
  BY <1>2, FoundOutcome DEF Stage
<1>5. Proceed(r, c, None, out) /\ UNCHANGED <<External, errors>>
  BY DEF AnswerGet
<1>6. QED
  BY <1>2, <1>3, <1>4, <1>5, AnswerInv DEF Entry

LEMMA AnswerListInv ==
  ASSUME Inv, NEW r \in Requests, AnswerList(r)
  PROVE  Inv'
<1> PICK q, v : q = req[r].ask /\ v = req[r].reply
  OBVIOUS
<1> PICK l : l = ListOf(q.dn)
  OBVIOUS
<1> PICK c, out : c = [cache EXCEPT !.list[l] = v] /\ out = Reply(200, v)
  OBVIOUS
<1>1. l \in Lists
  BY HandlerIn, ListOfIn
<1>2. /\ v \in Listing(l) /\ Stage(q, "list")
      /\ CacheInv(cache) /\ tainted' \in SUBSET Keys
  BY Answered DEF AnswerList, Replies
<1>3. CacheInv(c)
  BY <1>1, <1>2, CacheFilled
<1>4. Outcome(q, None, out)
  <2>1. Answers200(q) = Listing(l)
    BY <1>2 DEF Stage, Answers200
  <2>2. QED
    BY <1>2, <2>1, OkOutcome
<1>5. Proceed(r, c, None, out) /\ UNCHANGED <<External, errors>>
  BY DEF AnswerList
<1>6. QED
  BY <1>2, <1>3, <1>4, <1>5, AnswerInv DEF Entry

LEMMA AnswerHeadInv ==
  ASSUME Inv, NEW r \in Requests, AnswerHead(r)
  PROVE  Inv'
<1> PICK q, v : q = req[r].ask /\ v = req[r].reply
  OBVIOUS
<1> PICK c, out : c = [cache EXCEPT !.head[q.data.agent] = v] /\ out = Reply(200, v)
  OBVIOUS
<1>1. /\ v \in Content /\ Stage(q, "head")
      /\ CacheInv(cache) /\ tainted' \in SUBSET Keys
  BY Answered DEF AnswerHead, Replies
<1>2. q.data.agent \in Agents
  BY <1>1, HandlerIn DEF Stage
<1>3. CacheInv(c)
  BY <1>1, <1>2, CacheFilled
<1>4. Outcome(q, None, out)
  <2>1. Answers200(q) = Content
    BY <1>1 DEF Stage, Answers200
  <2>2. QED
    BY <1>1, <2>1, OkOutcome
<1>5. Proceed(r, c, None, out) /\ UNCHANGED <<External, errors>>
  BY DEF AnswerHead
<1>6. QED
  BY <1>1, <1>3, <1>4, <1>5, AnswerInv DEF Entry

LEMMA AnswerAgentProbesInv ==
  ASSUME Inv, NEW r \in Requests, AnswerAgentProbes(r)
  PROVE  Inv'
<1> PICK q, v, c : q = req[r].ask /\ v = req[r].reply /\ c = cache
  OBVIOUS
<1> PICK out : out = Reply(200, v)
  OBVIOUS
<1>1. /\ v \in Content /\ Stage(q, "agentprobes")
      /\ CacheInv(c) /\ tainted \in SUBSET Keys
  BY Answered DEF AnswerAgentProbes, Replies
<1>2. Outcome(q, None, out)
  <2>1. Answers200(q) = Content
    BY <1>1 DEF Stage, Answers200
  <2>2. QED
    BY <1>1, <2>1, OkOutcome
<1>3. Proceed(r, c, None, out) /\ UNCHANGED <<External, tainted, errors>>
  BY DEF AnswerAgentProbes
<1>4. QED
  BY <1>1, <1>2, <1>3, AnswerInv DEF Entry

LEMMA CallFailsInv ==
  ASSUME Inv, NEW r \in Requests, CallFails(r)
  PROVE  Inv'
<1> PICK c, s : c = cache /\ s = ErrorStatus(req[r].pc)
  OBVIOUS
<1> PICK out : out = Reply(s, None)
  OBVIOUS
<1>1. s \in {204, 404, 409, 422, 500, 503}
  BY DEF ErrorStatus
<1>2. Outcome(req[r].ask, None, out)
  BY <1>1, ErrorOutcome
<1>3. CacheInv(c) /\ errors' \in 0..MaxErrors
  BY DEF Inv, CachesInv, CountInv, CallFails
<1>4. tainted' \in SUBSET Keys
  <2>1. req[r].touched \subseteq Keys /\ tainted \subseteq Keys
    BY HandlerIn DEF HandlerInv, Inv, CountInv
  <2>2. QED
    BY <2>1 DEF CallFails
<1>5. Proceed(r, c, None, out) /\ UNCHANGED External
  BY DEF CallFails
<1>6. QED
  BY <1>2, <1>3, <1>4, <1>5, AnswerInv DEF Entry

\* A step outside of the handlers.
LEMMA OutsideInv ==
  ASSUME Inv, UNCHANGED <<ufds, past, req, errors>>, changes' \in 0..MaxChanges,
         past \subseteq past', was.operators \subseteq was'.operators,
         was.servers \subseteq was'.servers, WorldInv', tainted' \in SUBSET Keys,
         \E c : cache' = c /\ CacheInv(c)
  PROVE  Inv'
<1>1. ReqInv'
  BY Grown DEF Inv, ReqInv
<1>2. CachesInv'
  BY Grown DEF CachesInv
<1>3. CountInv'
  BY DEF Inv, CountInv
<1>4. QED
  BY <1>1, <1>2, <1>3 DEF Inv

LEMMA SpentChanges == Inv /\ Spend => changes' \in 0..MaxChanges
BY DEF Inv, CountInv, Spend

LEMMA ExpireInv ==
  ASSUME Inv, Expire \/ DropCaches
  PROVE  Inv'
<1>1. changes' \in 0..MaxChanges /\ tainted' \in SUBSET Keys
      /\ UNCHANGED <<ufds, operators, servers, past, was, req, errors>>
  BY SpentChanges DEF Expire, DropCaches, Inv, CountInv
<1>2. WorldInv'
  BY <1>1 DEF Inv, WorldInv
<1>3. CacheInv(cache)
  BY DEF Inv, CachesInv
<1>4. \E c : cache' = c /\ CacheInv(c)
  <2>1. CASE DropCaches
    BY <2>1, EmptyCache DEF DropCaches
  <2>2. CASE \E u \in Users : cache' = [cache EXCEPT !.user[u] = Miss]
    <3>1. PICK u \in Users : cache' = [cache EXCEPT !.user[u] = Miss]
      BY <2>2
    <3>2. CacheInv([cache EXCEPT !.user[u] = Miss])
      BY <1>3, CacheFilled
    <3>3. QED
      BY <3>1, <3>2
  <2>3. CASE \E u \in Users : cache' = [cache EXCEPT !.operator[u] = Miss]
    <3>1. Miss # TRUE
      OBVIOUS
    <3>2. QED
      BY <1>3, <2>3, <3>1, CacheFilled
  <2>4. CASE cache' = [cache EXCEPT !.servers = Miss]
    BY <1>3, <2>4, CacheFilled
  <2>5. CASE \E dn \in Dns : cache' = [cache EXCEPT !.get[dn] = Miss]
    BY <1>3, <2>5, CacheFilled
  <2>6. CASE \E l \in Lists : cache' = [cache EXCEPT !.list[l] = Miss]
    BY <1>3, <2>6, CacheFilled
  <2>7. QED
    BY <2>1, <2>2, <2>3, <2>4, <2>5, <2>6 DEF Expire
<1>5. QED
  BY <1>1, <1>2, <1>4, OutsideInv

LEMMA ChangeOperatorsInv ==
  ASSUME Inv, NEW u \in Users, ChangeOperators(u)
  PROVE  Inv'
<1>1. /\ changes' \in 0..MaxChanges /\ tainted' \in SUBSET Keys
      /\ UNCHANGED <<ufds, servers, past, cache, req, errors>>
  BY SpentChanges DEF ChangeOperators, Inv, CountInv
<1>2. was' = [operators |-> was.operators \cup operators', servers |-> was.servers]
  BY DEF ChangeOperators, Inv, WorldInv
<1>3. operators' \subseteq Users
  BY DEF ChangeOperators, Inv, WorldInv
<1>4. WorldInv'
  BY <1>1, <1>2, <1>3 DEF Inv, WorldInv
<1>5. \E c : cache' = c /\ CacheInv(c)
  BY <1>1 DEF Inv, CachesInv
<1>6. QED
  BY <1>1, <1>2, <1>4, <1>5, OutsideInv

LEMMA AddServerInv ==
  ASSUME Inv, NEW a \in Agents, AddServer(a)
  PROVE  Inv'
<1>1. /\ changes' \in 0..MaxChanges /\ tainted' \in SUBSET Keys
      /\ UNCHANGED <<ufds, operators, past, cache, req, errors>>
  BY SpentChanges DEF AddServer, Inv, CountInv
<1>2. was' = [operators |-> was.operators, servers |-> was.servers \cup {a}]
  BY DEF AddServer, Inv, WorldInv
<1>3. servers' \subseteq Agents /\ servers' = servers \cup {a}
  BY DEF AddServer, Inv, WorldInv
<1>4. WorldInv'
  BY <1>1, <1>2, <1>3 DEF Inv, WorldInv
<1>5. \E c : cache' = c /\ CacheInv(c)
  BY <1>1 DEF Inv, CachesInv
<1>6. QED
  BY <1>1, <1>2, <1>4, <1>5, OutsideInv

LEMMA StepInv == Inv /\ [Next]_vars => Inv'
<1> SUFFICES ASSUME Inv, [Next]_vars PROVE Inv'
  OBVIOUS
<1>1. ASSUME NEW r \in Requests, NEW a \in Asks, Receive(r, a) PROVE Inv'
  BY <1>1, ReceiveInv
<1>2. ASSUME NEW r \in Requests, Runs(r) PROVE Inv'
  BY <1>2, RunReadInv, RunWriteInv DEF Runs
<1>3. ASSUME NEW r \in Requests, Answers(r) PROVE Inv'
  BY <1>3, AnswerUserInv, AnswerGroupInv, AnswerServersInv, AnswerOperatorInv, AnswerVmInv,
     AnswerMachineInv, AnswerWriteInv, AnswerFetchInv, AnswerEraseInv, AnswerGetInv,
     AnswerListInv, AnswerHeadInv, AnswerAgentProbesInv DEF Answers
<1>4. ASSUME NEW r \in Requests, CallFails(r) PROVE Inv'
  BY <1>4, CallFailsInv
<1>5. ASSUME Expire \/ DropCaches PROVE Inv'
  BY <1>5, ExpireInv
<1>6. ASSUME NEW u \in Users, ChangeOperators(u) PROVE Inv'
  BY <1>6, ChangeOperatorsInv
<1>7. ASSUME NEW a \in Agents, AddServer(a) PROVE Inv'
  BY <1>7, AddServerInv
<1>8. ASSUME UNCHANGED vars PROVE Inv'
  <2>1. UNCHANGED <<ufds, operators, servers, cache, req, past, was, tainted, errors, changes>>
    BY <1>8 DEF vars
  <2>2. WorldInv' /\ changes' \in 0..MaxChanges /\ tainted' \in SUBSET Keys
    BY <2>1 DEF Inv, WorldInv, CountInv
  <2>3. \E c : cache' = c /\ CacheInv(c)
    BY <2>1 DEF Inv, CachesInv
  <2>4. QED
    BY <2>1, <2>2, <2>3, OutsideInv
<1>9. QED
  BY <1>1, <1>2, <1>3, <1>4, <1>5, <1>6, <1>7, <1>8 DEF Next

LEMMA InvAlways == Spec => []Inv
BY InitInv, StepInv, PTL DEF Spec

----------------------------------------------------------------------------
\* Every handler, every cache and UFDS hold what their kind of call brings, in
\* every instance: no cached "not found", error or answer of one call is taken for
\* an answer of another.
THEOREM TypeCorrect == Spec => []TypeOK
BY InvAlways, InvIsTyped, PTL

\* Whatever the caches hold and however requests overlap and fail, no probe is sent
\* to UFDS that has no agent, that its user may not have, or whose group was never
\* there (Probe.authorizeWrite, ProbeGroup.get).
THEOREM WritesAreChecked == Spec => []WritesWereChecked
BY InvAlways, InvIsChecked, PTL

----------------------------------------------------------------------------
(* What the caches hold is what UFDS holds *)

Held(c, k) == c[k[1]][k[2]]
\* The write of g, which concerns k, is on its way back.
Pending(g, k) ==
  g.pc \in {"write", "erase"} /\ k \in g.touched /\ (k[1] = "head" => g.ask.dn \in Probes)
\* What g has read, and what nobody wrote to since, is what there is.
ReadNow(g) ==
  g.ran /\ Fills(g) # {} =>
    /\ g.touched \subseteq Fills(g)
    /\ g.touched = {} => \A k \in Fills(g) : g.reply = Current(k)
\* A write that failed concerns nothing; one that did not, what Invalidated drops
\* and heads.
Wrote(g) ==
  g.ran /\ g.pc \in {"write", "erase"} =>
    /\ ~g.reply => g.touched = {}
    /\ \A k \in g.touched : \/ k = <<"get", g.ask.dn>> \/ k = <<"list", ListOf(g.ask.dn)>>
                            \/ k[1] = "head"
Clean(k) ==
  \/ Cached(k) \in {Miss, Current(k)}
  \/ k \in tainted
  \/ \E r \in Requests : \E g : req[r] = g /\ Pending(g, k)
CurrentInv ==
  /\ \A r \in Requests : \A g : req[r] = g => ReadNow(g) /\ Wrote(g)
  /\ \A k \in Keys : Clean(k)

LEMMA KeyIs ==
  ASSUME NEW k \in Keys
  PROVE  \/ \E dn \in Dns : k = <<"get", dn>>
         \/ \E l \in Lists : k = <<"list", l>>
         \/ \E a \in Agents : k = <<"head", a>>
BY DEF Keys

\* The cache d is c with v for the entry f.
Filled(d, c, f, v) == \A k \in Keys : Held(d, k) = IF k = f THEN v ELSE Held(c, k)

\* What a cache with one entry more holds.
LEMMA HeldGet ==
  ASSUME NEW c, CacheInv(c), NEW dn \in Dns, NEW v, NEW d, d = [c EXCEPT !.get[dn] = v]
  PROVE  Filled(d, c, <<"get", dn>>, v)
BY KeyIs DEF Filled, Held, CacheInv, CacheTyped, CacheShaped

LEMMA HeldList ==
  ASSUME NEW c, CacheInv(c), NEW l \in Lists, NEW v, NEW d, d = [c EXCEPT !.list[l] = v]
  PROVE  Filled(d, c, <<"list", l>>, v)
BY KeyIs DEF Filled, Held, CacheInv, CacheTyped, CacheShaped

LEMMA HeldHead ==
  ASSUME NEW c, CacheInv(c), NEW a \in Agents, NEW v, NEW d, d = [c EXCEPT !.head[a] = v]
  PROVE  Filled(d, c, <<"head", a>>, v)
BY KeyIs DEF Filled, Held, CacheInv, CacheTyped, CacheShaped

LEMMA HeldOthers ==
  ASSUME NEW c, CacheInv(c), NEW d, NEW u, NEW v,
         \/ d = [c EXCEPT !.user[u] = v] \/ d = [c EXCEPT !.operator[u] = v]
         \/ d = [c EXCEPT !.servers = v]
  PROVE  \A k \in Keys : Held(d, k) = Held(c, k)
<1>1. d["get"] = c["get"] /\ d["list"] = c["list"] /\ d["head"] = c["head"]
  BY DEF CacheInv, CacheTyped, CacheShaped
<1>2. QED
  BY <1>1, KeyIs DEF Held

LEMMA HeldInvalidated ==
  ASSUME NEW c, CacheInv(c), NEW k \in Keys, NEW dn \in Dns, NEW item
  PROVE  /\ Held(Invalidated(c, dn, item), k) \in {Miss, Held(c, k)}
         /\ k = <<"get", dn>> \/ k = <<"list", ListOf(dn)>>
              \/ (k[1] = "head" /\ dn \in Probes /\ k[2] = item.agent)
              => Held(Invalidated(c, dn, item), k) = Miss
<1> DEFINE i == Invalidated(c, dn, item)
<1>1. CacheTyped(c)
  BY DEF CacheInv
<1>2. /\ i["get"] = [c.get EXCEPT ![dn] = Miss]
      /\ i["list"] = [x \in Lists |-> IF x[1] = ModelOf(dn) THEN Miss ELSE c.list[x]]
      /\ i["head"] = [a \in Agents |-> IF dn \in Probes /\ a = item.agent
                                       THEN Miss ELSE c.head[a]]
  BY <1>1, InvalidatedIs
<1> HIDE DEF i
<1>3. CASE \E d \in Dns : k = <<"get", d>>
  BY <1>1, <1>2, <1>3 DEF Held, CacheTyped, i
<1>4. CASE \E l \in Lists : k = <<"list", l>>
  BY <1>1, <1>2, <1>4 DEF Held, ListOf, i
<1>5. CASE \E a \in Agents : k = <<"head", a>>
  BY <1>1, <1>2, <1>5 DEF Held, i
<1>6. QED
  BY <1>3, <1>4, <1>5, KeyIs

\* A write changes what it concerns and nothing else.
LEMMA CurrentStays ==
  ASSUME WorldInv, NEW dn \in Dns, NEW new \in Entry, ufds' = [ufds EXCEPT ![dn] = new],
         NEW k \in Keys,
         k \notin Concerned(dn, ufds[dn], new) \/ (k[1] = "head" /\ dn \notin Probes)
  PROVE  Current(k)' = Current(k)
<1>0. ufds \in [Dns -> Entry]
  BY DEF WorldInv
<1>1. CASE \E d \in Dns : k = <<"get", d>>
  BY <1>0, <1>1 DEF Current, Concerned
<1>2. CASE \E l \in Lists : k = <<"list", l>>
  <2>1. PICK l \in Lists : k = <<"list", l>>
    BY <1>2
  <2>2. ListOf(dn) # l
    BY <2>1 DEF Concerned
  <2>3. \A d \in {x \in Dns : ListOf(x) = l} : ufds'[d] = ufds[d]
    BY <1>0, <2>2
  <2>4. ReadList(ufds, l)' = ReadList(ufds, l)
    BY <2>3 DEF ReadList
  <2>5. QED
    BY <2>1, <2>4 DEF Current
<1>3. CASE \E a \in Agents : k = <<"head", a>>
  <2>1. PICK a \in Agents : k = <<"head", a>>
    BY <1>3
  <2> DEFINE on(db) == {p \in Probes : db[p] # None /\ db[p].agent = a}
  <2>2. a # None
    OBVIOUS
  <2>3. dn \in Probes => dn \notin on(ufds) /\ dn \notin on(ufds')
    BY <1>0, <2>1, <2>2 DEF Concerned
  <2>4. on(ufds') = on(ufds) /\ \A p \in on(ufds) : ufds'[p] = ufds[p]
    BY <1>0, <2>3 DEF Dns
  <2>5. ReadAgent(ufds, a)' = ReadAgent(ufds, a)
    BY <2>4 DEF ReadAgent
  <2>6. QED
    BY <2>1, <2>5 DEF Current
<1>4. QED
  BY <1>1, <1>2, <1>3, KeyIs

LEMMA CurrentUnchanged ==
  ASSUME UNCHANGED ufds
  PROVE  /\ \A k : Current(k)' = Current(k)
         /\ \A g : (ReadNow(g) => ReadNow(g)') /\ (Wrote(g) => Wrote(g)')
<1>1. \A k : Current(k)' = Current(k)
  BY DEF Current, ReadList, ReadAgent
<1>2. ASSUME NEW g, ReadNow(g) PROVE ReadNow(g)'
  BY <1>1, <1>2 DEF ReadNow
<1>3. QED
  BY <1>1, <1>2 DEF Wrote

LEMMA InitCurrent == Init => CurrentInv
<1> SUFFICES ASSUME Init PROVE CurrentInv
  OBVIOUS
<1>1. \A r \in Requests : \A g : req[r] = g => ReadNow(g) /\ Wrote(g)
  BY DEF Init, Idle, ReadNow, Wrote
<1>2. ASSUME NEW k \in Keys PROVE Cached(k) = Miss
  BY KeyIs DEF Init, NoCache, Cached
<1>3. QED
  BY <1>1, <1>2 DEF CurrentInv, Clean

\* A handler goes on to wait for a call, or is done: what its call fills or concerns
\* is seen to.
LEMMA HandlerGoesOn ==
  ASSUME Inv, CurrentInv, NEW r \in Requests, NEW h, ~h.ran,
         h.touched = {}, req' = [req EXCEPT ![r] = h], UNCHANGED ufds,
         \A k \in Keys : \/ Cached(k)' \in {Miss, Current(k)} \/ k \in tainted'
                         \/ /\ Cached(k)' = Cached(k) /\ (k \in tainted => k \in tainted')
                            /\ ~Pending(req[r], k)
  PROVE  CurrentInv'
<1>0. DOMAIN req = Requests
  BY DEF Inv, ReqInv
<1>1. ASSUME NEW s \in Requests, NEW g, req'[s] = g PROVE ReadNow(g)' /\ Wrote(g)'
  <2>1. ReadNow(g) /\ Wrote(g)
    <3>1. CASE s = r
      BY <1>0, <1>1, <3>1 DEF ReadNow, Wrote
    <3>2. CASE s # r
      BY <1>0, <1>1, <3>2 DEF CurrentInv
    <3>3. QED
      BY <3>1, <3>2
  <2>2. QED
    BY <2>1, CurrentUnchanged
<1>2. ASSUME NEW k \in Keys PROVE Clean(k)'
  <2>1. Current(k)' = Current(k)
    BY CurrentUnchanged
  <2>2. CASE Cached(k)' \in {Miss, Current(k)} \/ k \in tainted'
    BY <2>1, <2>2 DEF Clean
  <2>3. CASE Cached(k)' = Cached(k) /\ (k \in tainted => k \in tainted') /\ ~Pending(req[r], k)
    <3>1. Clean(k)
      BY DEF CurrentInv
    <3>2. CASE \E s \in Requests : \E g : req[s] = g /\ Pending(g, k)
      <4>1. PICK s, g : s \in Requests /\ req[s] = g /\ Pending(g, k)
        BY <3>2
      <4>2. req'[s] = g
        BY <1>0, <2>3, <4>1
      <4>3. QED
        BY <4>1, <4>2 DEF Clean, Pending
    <3>3. CASE Cached(k) \in {Miss, Current(k)} \/ k \in tainted
      BY <2>1, <2>3, <3>3 DEF Clean
    <3>4. QED
      BY <3>1, <3>2, <3>3 DEF Clean
  <2>4. QED
    BY <2>2, <2>3
<1>3. QED
  BY <1>1, <1>2 DEF CurrentInv

LEMMA ProceedCurrent ==
  ASSUME Inv, CurrentInv, NEW r \in Requests, NEW c, NEW i, NEW out,
         Proceed(r, c, i, out), UNCHANGED ufds,
         \A k \in Keys : \/ Held(c, k) \in {Miss, Current(k)} \/ k \in tainted'
                         \/ /\ Held(c, k) = Held(cache, k) /\ (k \in tainted => k \in tainted')
                            /\ ~Pending(req[r], k)
  PROVE  CurrentInv'
<1> PICK g : g = req[r]
  OBVIOUS
<1> DEFINE h == [g EXCEPT !.pc = out.pc, !.answer = out.answer, !.item = i,
                          !.ran = FALSE, !.reply = None, !.touched = {}]
<1>1. Shaped(g)
  BY HandlerIn DEF HandlerInv
<1>2. req' = [req EXCEPT ![r] = h]
  BY DEF Proceed, Inv, ReqInv
<1>3. ~h.ran /\ h.touched = {}
  BY <1>1 DEF Shaped, Fields
<1> HIDE DEF h
<1>4. \A k : Cached(k) = Held(cache, k) /\ Cached(k)' = Held(c, k)
  BY DEF Cached, Held, Proceed
<1>5. QED
  BY <1>2, <1>3, <1>4, HandlerGoesOn

\* A callback that leaves get, list and head as they are.
LEMMA SameEntries ==
  ASSUME Inv, CurrentInv, NEW r \in Requests, NEW c, NEW i, NEW out,
         Proceed(r, c, i, out), UNCHANGED <<ufds, tainted>>,
         req[r].pc \notin {"write", "erase"} \/ req[r].touched = {},
         \A k \in Keys : Held(c, k) = Held(cache, k)
  PROVE  CurrentInv'
<1>1. \A k : ~Pending(req[r], k)
  BY DEF Pending
<1>2. QED
  BY <1>1, ProceedCurrent

\* A callback that fills the entry f with what was read.
LEMMA FilledEntry ==
  ASSUME Inv, CurrentInv, NEW r \in Requests, NEW c, NEW i, NEW out, NEW f \in Keys,
         Proceed(r, c, i, out), UNCHANGED ufds, Fill(r), req[r].ran, Fills(req[r]) = {f},
         req[r].pc \notin {"write", "erase"},
         Filled(c, cache, f, req[r].reply)
  PROVE  CurrentInv'
<1>1. \A k : ~Pending(req[r], k)
  BY DEF Pending
<1>2. ReadNow(req[r])
  BY DEF CurrentInv
<1>3. ASSUME NEW k \in Keys, k = f
      PROVE  Held(c, k) = Current(k) \/ k \in tainted'
  BY <1>2, <1>3 DEF ReadNow, Fill, Filled
<1>4. \A k \in Keys : k # f => (k \in tainted => k \in tainted')
  BY DEF Fill
<1>5. QED
  BY <1>1, <1>3, <1>4, ProceedCurrent DEF Filled

LEMMA ReadAnswersCurrent ==
  ASSUME Inv, CurrentInv, NEW r \in Requests,
         AnswerUser(r) \/ AnswerServers(r) \/ AnswerOperator(r) \/ AnswerVm(r)
           \/ AnswerMachine(r) \/ AnswerFetch(r) \/ AnswerAgentProbes(r)
  PROVE  CurrentInv'
<1>1. req[r].ask.user \in Users /\ CacheInv(cache)
  BY HandlerIn DEF Inv, CachesInv
<1>2. /\ req[r].pc \notin {"write", "erase"} /\ UNCHANGED <<ufds, tainted>>
      /\ \E c, i, out : Proceed(r, c, i, out) /\ \A k \in Keys : Held(c, k) = Held(cache, k)
  <2>1. CASE AnswerUser(r)
    <3> PICK c : c = [cache EXCEPT !.user[req[r].ask.user] = req[r].reply]
      OBVIOUS
    <3>1. \A k \in Keys : Held(c, k) = Held(cache, k)
      BY <1>1, HeldOthers
    <3>2. QED
      BY <2>1, <3>1 DEF AnswerUser, Answering, External
  <2>2. CASE AnswerServers(r)
    <3> PICK c : c = [cache EXCEPT !.servers = req[r].reply]
      OBVIOUS
    <3>1. \A k \in Keys : Held(c, k) = Held(cache, k)
      BY <1>1, HeldOthers
    <3>2. QED
      BY <2>2, <3>1 DEF AnswerServers, Answering, External
  <2>3. CASE AnswerOperator(r)
    <3> PICK c : c = [cache EXCEPT !.operator[req[r].ask.user] = req[r].reply]
      OBVIOUS
    <3>1. \A k \in Keys : Held(c, k) = Held(cache, k)
      BY <1>1, HeldOthers
    <3>2. QED
      BY <2>3, <3>1 DEF AnswerOperator, Answering, External
  <2>4. CASE AnswerVm(r) \/ AnswerMachine(r) \/ AnswerFetch(r) \/ AnswerAgentProbes(r)
    BY <2>4 DEF AnswerVm, AnswerMachine, AnswerFetch, AnswerAgentProbes, Answering, External
  <2>5. QED
    BY <2>1, <2>2, <2>3, <2>4
<1>3. QED
  BY <1>2, SameEntries

LEMMA FillAnswersCurrent ==
  ASSUME Inv, CurrentInv, NEW r \in Requests,
         AnswerGroup(r) \/ AnswerGet(r) \/ AnswerList(r) \/ AnswerHead(r)
  PROVE  CurrentInv'
<1> PICK q, v : q = req[r].ask /\ v = req[r].reply
  OBVIOUS
<1>1. CacheInv(cache) /\ q.dn \in Dns /\ ListOf(q.dn) \in Lists /\ Stage(q, req[r].pc)
      /\ Fills(req[r]) \subseteq Keys /\ q.data \in Item
  BY HandlerIn, ListOfIn, FillsKeys DEF Inv, CachesInv, HandlerInv
<1>2. CASE AnswerGroup(r)
  <2> PICK c : c = [cache EXCEPT !.get[q.data.group] = v]
    OBVIOUS
  <2>1. req[r].pc = "group" /\ req[r].ran /\ Fill(r) /\ UNCHANGED ufds
        /\ \E i, out : Proceed(r, c, i, out)
    BY <1>2 DEF AnswerGroup, Answering, External
  <2>2. q.data.group \in Dns /\ Fills(req[r]) = {<<"get", q.data.group>>}
    BY <1>1, <2>1 DEF Stage, Dns, Fills
  <2>3. Filled(c, cache, <<"get", q.data.group>>, v)
    BY <1>1, <2>2, HeldGet
  <2>4. QED
    BY <1>1, <2>1, <2>2, <2>3, FilledEntry
<1>3. CASE AnswerGet(r)
  <2> PICK c : c = [cache EXCEPT !.get[q.dn] = v]
    OBVIOUS
  <2>1. req[r].pc = "get" /\ req[r].ran /\ Fill(r) /\ UNCHANGED ufds
        /\ \E i, out : Proceed(r, c, i, out)
    BY <1>3 DEF AnswerGet, Answering, External
  <2>2. Fills(req[r]) = {<<"get", q.dn>>}
    BY <2>1 DEF Fills
  <2>3. Filled(c, cache, <<"get", q.dn>>, v)
    BY <1>1, HeldGet
  <2>4. QED
    BY <1>1, <2>1, <2>2, <2>3, FilledEntry
<1>4. CASE AnswerList(r)
  <2> PICK c : c = [cache EXCEPT !.list[ListOf(q.dn)] = v]
    OBVIOUS
  <2>1. req[r].pc = "list" /\ req[r].ran /\ Fill(r) /\ UNCHANGED ufds
        /\ \E i, out : Proceed(r, c, i, out)
    BY <1>4 DEF AnswerList, Answering, External
  <2>2. Fills(req[r]) = {<<"list", ListOf(q.dn)>>}
    BY <2>1 DEF Fills
  <2>3. Filled(c, cache, <<"list", ListOf(q.dn)>>, v)
    BY <1>1, HeldList
  <2>4. QED
    BY <1>1, <2>1, <2>2, <2>3, FilledEntry
<1>5. CASE AnswerHead(r)
  <2> PICK c : c = [cache EXCEPT !.head[q.data.agent] = v]
    OBVIOUS
  <2>1. req[r].pc = "head" /\ req[r].ran /\ Fill(r) /\ UNCHANGED ufds
        /\ \E i, out : Proceed(r, c, i, out)
    BY <1>5 DEF AnswerHead, Answering, External
  <2>2. q.data.agent \in Agents /\ Fills(req[r]) = {<<"head", q.data.agent>>}
    BY <1>1, <2>1, HandlerIn DEF Stage, Fills
  <2>3. Filled(c, cache, <<"head", q.data.agent>>, v)
    BY <1>1, <2>2, HeldHead
  <2>4. QED
    BY <1>1, <2>1, <2>2, <2>3, FilledEntry
<1>6. QED
  BY <1>2, <1>3, <1>4, <1>5

\* The answer of a write drops what it concerns, but for the heads that are tainted.
LEMMA WriteAnswersCurrent ==
  ASSUME Inv, CurrentInv, NEW r \in Requests, AnswerWrite(r) \/ AnswerErase(r)
  PROVE  CurrentInv'
<1> PICK q, item : q = req[r].ask
                   /\ item = IF req[r].pc = "write" THEN Inferred(q.data) ELSE req[r].item
  OBVIOUS
<1> PICK c : c = Invalidated(cache, q.dn, item)
  OBVIOUS
<1>1. /\ CacheInv(cache) /\ q.dn \in Dns /\ Wrote(req[r])
      /\ req[r].pc \in {"write", "erase"} /\ req[r].ran
  BY HandlerIn DEF Inv, CachesInv, CurrentInv, AnswerWrite, AnswerErase, Answering
<1>2. CASE req[r].reply
  <2>1. /\ UNCHANGED ufds /\ tainted' = (tainted \cup Moved(r, item)) \ Dropped(c)
        /\ \E i, out : Proceed(r, c, i, out)
    BY <1>2 DEF AnswerWrite, AnswerErase, Answering, External
  <2>2. ASSUME NEW k \in Keys
        PROVE  \/ Held(c, k) \in {Miss, Current(k)} \/ k \in tainted'
               \/ /\ Held(c, k) = Held(cache, k) /\ (k \in tainted => k \in tainted')
                  /\ ~Pending(req[r], k)
    <3>1. Held(c, k) \in {Miss, Held(cache, k)}
      BY <1>1, HeldInvalidated
    <3>2. CASE Held(c, k) = Miss
      BY <3>2
    <3>3. CASE Held(c, k) # Miss
      <4>1. Held(c, k) = Held(cache, k) /\ (k \in tainted => k \in tainted')
        BY <2>1, <3>1, <3>3 DEF Dropped, Held
      <4>2. ASSUME Pending(req[r], k) PROVE k \in tainted'
        <5>1. k[1] = "head" /\ k \in req[r].touched /\ q.dn \in Probes
          BY <1>1, <3>3, <4>2, HeldInvalidated DEF Wrote, Pending
        <5>2. k[2] # item.agent
          BY <1>1, <3>3, <5>1, HeldInvalidated
        <5>3. QED
          BY <2>1, <3>3, <5>1, <5>2 DEF Moved, Dropped, Held
      <4>3. QED
        BY <4>1, <4>2
    <3>4. QED
      BY <3>2, <3>3
  <2>3. QED
    BY <2>1, <2>2, ProceedCurrent
<1>3. CASE ~req[r].reply
  <2>1. /\ UNCHANGED <<ufds, tainted>> /\ req[r].touched = {}
        /\ \E i, out : Proceed(r, cache, i, out)
    BY <1>1, <1>3 DEF AnswerWrite, AnswerErase, Answering, External, Wrote
  <2>2. QED
    BY <2>1, SameEntries
<1>4. QED
  BY <1>2, <1>3

LEMMA CallFailsCurrent ==
  ASSUME Inv, CurrentInv, NEW r \in Requests, CallFails(r)
  PROVE  CurrentInv'
<1>1. UNCHANGED ufds /\ \E i, out : Proceed(r, cache, i, out)
  BY DEF CallFails, External
<1>2. ASSUME NEW k \in Keys
      PROVE  \/ Held(cache, k) \in {Miss, Current(k)} \/ k \in tainted'
             \/ (k \in tainted => k \in tainted') /\ ~Pending(req[r], k)
  BY DEF CallFails, Pending, Dropped, Held
<1>3. QED
  BY <1>1, <1>2, ProceedCurrent

SameCall(r) ==
  \/ req'[r] = req[r]
  \/ ~req[r].ran /\ ~req'[r].ran /\ req[r].touched = {} /\ req'[r].touched = {}

\* Nothing that is cached and no call that has run changes.
LEMMA StaysCurrent ==
  ASSUME CurrentInv, UNCHANGED ufds,
         \A r \in Requests : SameCall(r),
         \A k \in Keys : \/ Cached(k)' = Miss
                         \/ Cached(k)' = Cached(k) /\ (k \in tainted => k \in tainted')
  PROVE  CurrentInv'
<1>1. ASSUME NEW s \in Requests, NEW g, req'[s] = g PROVE ReadNow(g)' /\ Wrote(g)'
  <2>1. ReadNow(g) /\ Wrote(g)
    BY <1>1 DEF CurrentInv, ReadNow, Wrote, SameCall
  <2>2. QED
    BY <2>1, CurrentUnchanged
<1>2. ASSUME NEW k \in Keys PROVE Clean(k)'
  <2>1. Current(k)' = Current(k) /\ Clean(k)
    BY CurrentUnchanged DEF CurrentInv
  <2>2. CASE Cached(k)' = Miss
    BY <2>2 DEF Clean
  <2>3. CASE Cached(k)' = Cached(k) /\ (k \in tainted => k \in tainted')
    <3>1. ASSUME NEW s \in Requests, NEW g, req[s] = g, Pending(g, k)
          PROVE  Clean(k)'
      <4>1. req'[s] = g
        BY <3>1 DEF Pending, SameCall
      <4>2. QED
        BY <3>1, <4>1 DEF Clean, Pending
    <3>2. QED
      BY <2>1, <2>3, <3>1 DEF Clean
  <2>4. QED
    BY <2>2, <2>3
<1>3. QED
  BY <1>1, <1>2 DEF CurrentInv

LEMMA ReceiveCurrent ==
  ASSUME Inv, CurrentInv, NEW r \in Requests, NEW a \in Asks, Receive(r, a)
  PROVE  CurrentInv'
<1> PICK g, out : g = req[r] /\ out = AtRequest(cache, a)
  OBVIOUS
<1> DEFINE h == [g EXCEPT !.pc = out.pc, !.answer = out.answer, !.ask = a]
<1>1. HandlerInv(g) /\ ~g.ran /\ g.touched = {} /\ Shaped(g) /\ DOMAIN req = Requests
  BY HandlerIn DEF Receive, HandlerInv, Inv, ReqInv
<1>2. req' = [req EXCEPT ![r] = h]
  BY DEF Receive, Inv, ReqInv
<1>3. ~h.ran /\ h.touched = {}
  BY <1>1 DEF Shaped, Fields
<1> HIDE DEF h
<1>4. UNCHANGED <<ufds, cache, tainted>>
  BY DEF Receive, External
<1>5. \A k : Cached(k)' = Cached(k)
  BY <1>4 DEF Cached
<1>6. ASSUME NEW s \in Requests
      PROVE  SameCall(s)
  BY <1>1, <1>2, <1>3 DEF SameCall
<1>7. QED
  BY <1>4, <1>5, <1>6, StaysCurrent

LEMMA OutsideCurrent ==
  ASSUME Inv, CurrentInv,
         Expire \/ DropCaches \/ (\E u \in Users : ChangeOperators(u))
           \/ (\E a \in Agents : AddServer(a)) \/ UNCHANGED vars
  PROVE  CurrentInv'
<1>1. UNCHANGED <<ufds, req>>
  BY DEF Expire, DropCaches, ChangeOperators, AddServer, vars
<1>2. CacheInv(cache)
  BY DEF Inv, CachesInv
<1>3. ASSUME NEW k \in Keys
      PROVE  \/ Cached(k)' = Miss
             \/ Cached(k)' = Cached(k) /\ (k \in tainted => k \in tainted')
  <2>0. Cached(k) = Held(cache, k) /\ Cached(k)' = Held(cache', k)
    BY DEF Cached, Held
  <2>1. CASE DropCaches
    BY <2>0, <2>1, KeyIs DEF DropCaches, NoCache, Held
  <2>2. CASE Expire
    <3>1. Held(cache', k) # Miss /\ k \in tainted => k \in tainted'
      BY <2>2 DEF Expire, Held
    <3>2. ASSUME NEW c, NEW d, c = cache, d = cache'
          PROVE  Held(d, k) \in {Miss, Held(c, k)}
      <4>1. CASE \E u \in Users : d = [c EXCEPT !.user[u] = Miss]
                                  \/ d = [c EXCEPT !.operator[u] = Miss]
        <5>1. PICK u \in Users : \/ d = [c EXCEPT !.user[u] = Miss]
                                 \/ d = [c EXCEPT !.operator[u] = Miss]
          BY <4>1
        <5>2. CASE d = [c EXCEPT !.user[u] = Miss]
          BY <1>2, <3>2, <5>2, KeyIs DEF Held, CacheInv, CacheTyped, CacheShaped
        <5>3. CASE d = [c EXCEPT !.operator[u] = Miss]
          BY <1>2, <3>2, <5>3, HeldOthers
        <5>4. QED
          BY <5>1, <5>2, <5>3
      <4>2. CASE d = [c EXCEPT !.servers = Miss]
        BY <1>2, <3>2, <4>2, HeldOthers
      <4>3. CASE \E dn \in Dns : d = [c EXCEPT !.get[dn] = Miss]
        <5>1. PICK dn \in Dns : Filled(d, c, <<"get", dn>>, Miss)
          BY <1>2, <3>2, <4>3, HeldGet
        <5>2. QED
          BY <5>1 DEF Filled
      <4>4. CASE \E l \in Lists : d = [c EXCEPT !.list[l] = Miss]
        <5>1. PICK l \in Lists : Filled(d, c, <<"list", l>>, Miss)
          BY <1>2, <3>2, <4>4, HeldList
        <5>2. QED
          BY <5>1 DEF Filled
      <4>5. QED
        BY <2>2, <3>2, <4>1, <4>2, <4>3, <4>4 DEF Expire
    <3>3. QED
      BY <2>0, <3>1, <3>2
  <2>3. CASE ~Expire /\ ~DropCaches
    BY <2>3 DEF ChangeOperators, AddServer, vars, Cached
  <2>4. QED
    BY <2>1, <2>2, <2>3
<1>4. \A s \in Requests : SameCall(s)
  BY <1>1 DEF SameCall
<1>5. QED
  BY <1>1, <1>3, <1>4, StaysCurrent

\* What a call reads is what there is.
LEMMA RunReadCurrent ==
  ASSUME Inv, CurrentInv, NEW r \in Requests, RunRead(r)
  PROVE  CurrentInv'
<1> PICK g, v : g = req[r] /\ v = ReadFor(g)
  OBVIOUS
<1> DEFINE h == [g EXCEPT !.ran = TRUE, !.reply = v]
<1>1. /\ HandlerInv(g) /\ g.touched = {} /\ DOMAIN req = Requests
      /\ g.pc \notin {"write", "erase"}
  BY HandlerIn DEF RunRead, HandlerInv, Inv, ReqInv, Reads
<1>2. req' = [req EXCEPT ![r] = h]
  BY DEF RunRead, Inv, ReqInv
<1>3. h.ran /\ h.touched = {} /\ h.pc = g.pc /\ h.ask = g.ask /\ h.reply = v
  BY <1>1 DEF HandlerInv, Shaped, Fields
<1> HIDE DEF h
<1>4. UNCHANGED <<ufds, cache, tainted>>
  BY DEF RunRead, External
<1>5. ReadNow(h) /\ Wrote(h)
  <2>1. ASSUME NEW k \in Fills(g) PROVE v = Current(k)
    BY <2>1 DEF Fills, ReadFor, Current
  <2>2. Fills(h) = Fills(g)
    BY <1>3 DEF Fills
  <2>3. QED
    BY <1>1, <1>3, <2>1, <2>2 DEF ReadNow, Wrote
<1>6. ASSUME NEW s \in Requests, NEW f, req'[s] = f PROVE ReadNow(f)' /\ Wrote(f)'
  <2>1. ReadNow(f) /\ Wrote(f)
    BY <1>1, <1>2, <1>5, <1>6 DEF CurrentInv
  <2>2. QED
    BY <1>4, <2>1, CurrentUnchanged
<1>7. ASSUME NEW k \in Keys PROVE Clean(k)'
  <2>1. Clean(k) /\ Current(k)' = Current(k) /\ Cached(k)' = Cached(k)
    BY <1>4, CurrentUnchanged DEF CurrentInv, Cached
  <2>2. ASSUME NEW s \in Requests, NEW f, req[s] = f, Pending(f, k)
        PROVE  Clean(k)'
    <3>1. req'[s] = f
      BY <1>1, <1>2, <2>2 DEF Pending
    <3>2. QED
      BY <2>2, <3>1 DEF Clean, Pending
  <2>3. QED
    BY <1>4, <2>1, <2>2 DEF Clean
<1>8. QED
  BY <1>6, <1>7 DEF CurrentInv

\* UFDS changes what the write concerns, and whoever read it has it touched.
LEMMA ChangeCurrent ==
  ASSUME Inv, CurrentInv, NEW r \in Requests, NEW dn \in Dns, NEW new \in Entry,
         NEW ok \in BOOLEAN, dn = req[r].ask.dn,
         req[r].pc \in {"write", "erase"}, ~req[r].ran, Change(r, dn, new, ok)
  PROVE  CurrentInv'
<1> PICK t : t = IF ok THEN Concerned(dn, ufds[dn], new) ELSE {}
  OBVIOUS
<1>1. /\ UNCHANGED <<cache, tainted>>
      /\ req' = [s \in Requests |->
           IF s = r THEN [req[r] EXCEPT !.ran = TRUE, !.reply = ok, !.touched = t]
           ELSE IF req[s].ran
           THEN [req[s] EXCEPT !.touched = @ \cup (Fills(req[s]) \cap t)]
           ELSE req[s]]
  BY DEF Change
<1>2. ASSUME NEW k \in Keys, k \notin t \/ (k[1] = "head" /\ dn \notin Probes)
      PROVE  Current(k)' = Current(k)
  <2>1. CASE ok
    <3>1. ufds' = [ufds EXCEPT ![dn] = new] /\ WorldInv
      BY <2>1 DEF Change, Inv
    <3>2. QED
      BY <1>2, <2>1, <3>1, CurrentStays
  <2>2. CASE ~ok
    <3>1. UNCHANGED ufds
      BY <2>2 DEF Change
    <3>2. QED
      BY <3>1, CurrentUnchanged
  <2>3. QED
    BY <2>1, <2>2
<1>3. ASSUME NEW s \in Requests, NEW h, req'[s] = h
      PROVE  /\ ReadNow(h)' /\ Wrote(h)
             /\ \A k : Pending(req[s], k) => Pending(h, k)
             /\ s = r => \A k \in t : k[1] # "head" \/ dn \in Probes => Pending(h, k)
  <2> PICK g : g = req[s]
    OBVIOUS
  <2>1. HandlerInv(g) /\ ReadNow(g) /\ Wrote(g) /\ Fills(g) \subseteq Keys
    BY HandlerIn, FillsKeys DEF CurrentInv
  <2>2. CASE s = r
    <3>1. h = [g EXCEPT !.ran = TRUE, !.reply = ok, !.touched = t]
      BY <1>1, <1>3, <2>2
    <3>2. h.ran /\ h.reply = ok /\ h.touched = t /\ h.pc = g.pc /\ h.ask = g.ask
      BY <2>1, <3>1 DEF HandlerInv, Shaped, Fields
    <3>3. Fills(h) = {}
      BY <2>2, <3>2 DEF Fills
    <3>4. Wrote(h)
      BY <2>2, <3>2 DEF Wrote, Concerned
    <3>5. \A k : ~Pending(g, k)
      BY <2>1, <2>2 DEF HandlerInv, Pending
    <3>6. \A k \in t : k[1] # "head" \/ dn \in Probes => Pending(h, k)
      BY <2>2, <3>2 DEF Pending
    <3>7. QED
      BY <3>3, <3>4, <3>5, <3>6 DEF ReadNow
  <2>3. CASE s # r /\ g.ran
    <3> PICK f : f = Fills(g) \cap t
      OBVIOUS
    <3>1. h = [g EXCEPT !.touched = @ \cup f]
      BY <1>1, <1>3, <2>3
    <3>2. h.ran = g.ran /\ h.reply = g.reply /\ h.touched = g.touched \cup f
          /\ h.pc = g.pc /\ h.ask = g.ask
      BY <2>1, <3>1 DEF HandlerInv, Shaped, Fields
    <3>3. Fills(h) = Fills(g)
      BY <3>2 DEF Fills
    <3>4. \A k : Pending(g, k) => Pending(h, k)
      BY <3>2 DEF Pending
    <3>5. Wrote(h)
      <4>1. CASE g.pc \in {"write", "erase"}
        <5>1. f = {}
          BY <4>1 DEF Fills
        <5>2. QED
          BY <2>1, <3>2, <5>1 DEF Wrote
      <4>2. CASE g.pc \notin {"write", "erase"}
        BY <3>2, <4>2 DEF Wrote
      <4>3. QED
        BY <4>1, <4>2
    <3>6. ReadNow(h)'
      <4>1. ASSUME Fills(h) # {}, h.touched = {}, NEW k \in Fills(h)
            PROVE  h.reply = Current(k)'
        <5>1. g.touched = {} /\ k \notin t
          BY <3>2, <3>3, <4>1
        <5>2. g.reply = Current(k) /\ k \in Keys
          BY <2>1, <2>3, <3>3, <4>1, <5>1 DEF ReadNow
        <5>3. QED
          BY <1>2, <3>2, <5>1, <5>2
      <4>2. Fills(h) # {} => h.touched \subseteq Fills(h)
        BY <2>1, <2>3, <3>2, <3>3 DEF ReadNow
      <4>3. QED
        BY <4>1, <4>2 DEF ReadNow
    <3>7. QED
      BY <2>3, <3>4, <3>5, <3>6
  <2>4. CASE s # r /\ ~g.ran
    <3>1. h = g
      BY <1>1, <1>3, <2>4
    <3>2. QED
      BY <2>4, <3>1 DEF ReadNow, Wrote
  <2>5. QED
    BY <2>2, <2>3, <2>4
<1>4. ASSUME NEW k \in Keys PROVE Clean(k)'
  <2>1. Clean(k) /\ Cached(k)' = Cached(k)
    BY <1>1 DEF CurrentInv, Cached
  <2>2. CASE k \notin t \/ (k[1] = "head" /\ dn \notin Probes)
    <3>1. Current(k)' = Current(k)
      BY <1>2, <2>2
    <3>2. ASSUME NEW s \in Requests, NEW g, req[s] = g, Pending(g, k)
          PROVE  Clean(k)'
      <4>1. PICK h : h = req'[s]
        OBVIOUS
      <4>2. Pending(h, k)
        BY <1>3, <3>2, <4>1
      <4>3. QED
        BY <4>1, <4>2 DEF Clean, Pending
    <3>3. QED
      BY <1>1, <2>1, <3>1, <3>2 DEF Clean
  <2>3. CASE k \in t /\ (k[1] # "head" \/ dn \in Probes)
    <3>1. PICK h : h = req'[r]
      OBVIOUS
    <3>2. Pending(h, k)
      BY <1>3, <2>3, <3>1
    <3>3. QED
      BY <3>1, <3>2 DEF Clean, Pending
  <2>4. QED
    BY <2>2, <2>3
<1>5. \A g : Wrote(g) => Wrote(g)'
  BY DEF Wrote
<1>6. QED
  BY <1>3, <1>4, <1>5 DEF CurrentInv

LEMMA RunWriteCurrent ==
  ASSUME Inv, CurrentInv, NEW r \in Requests, RunWrite(r) \/ RunErase(r)
  PROVE  CurrentInv'
<1>1. \E new \in Entry, ok \in BOOLEAN : Change(r, req[r].ask.dn, new, ok)
  <2>1. /\ req[r].ask.dn \in Dns /\ Inferred(req[r].ask.data) \in Item
        /\ ufds[req[r].ask.dn] \in Entry
    BY HandlerIn, InferredIs DEF Inv, WorldInv
  <2>2. ufds[req[r].ask.dn] # None =>
          Modified(ufds[req[r].ask.dn], Inferred(req[r].ask.data)) \in Entry
    BY <2>1, ModifiedIs DEF Entry
  <2>3. /\ (ufds[req[r].ask.dn] = None) \in BOOLEAN
        /\ (ufds[req[r].ask.dn] # None) \in BOOLEAN
        /\ None \in Entry /\ Inferred(req[r].ask.data) \in Entry
    BY <2>1 DEF Entry
  <2>4. CASE RunErase(r)
    BY <2>3, <2>4 DEF RunErase
  <2>5. CASE RunWrite(r) /\ req[r].ask.kind = "post"
    BY <2>3, <2>5 DEF RunWrite
  <2>6. CASE RunWrite(r) /\ req[r].ask.kind # "post"
    <3> PICK m : m = IF ufds[req[r].ask.dn] = None THEN None
                     ELSE Modified(ufds[req[r].ask.dn], Inferred(req[r].ask.data))
      OBVIOUS
    <3>1. m \in Entry /\ Change(r, req[r].ask.dn, m, ufds[req[r].ask.dn] # None)
      BY <2>2, <2>3, <2>6 DEF RunWrite
    <3>2. QED
      BY <2>3, <3>1
  <2>7. QED
    BY <2>4, <2>5, <2>6
<1>2. req[r].pc \in {"write", "erase"} /\ ~req[r].ran /\ req[r].ask.dn \in Dns
  BY HandlerIn DEF RunWrite, RunErase
<1>3. QED
  BY <1>1, <1>2, ChangeCurrent

LEMMA StepCurrent == Inv /\ CurrentInv /\ [Next]_vars => CurrentInv'
<1> SUFFICES ASSUME Inv, CurrentInv, [Next]_vars PROVE CurrentInv'
  OBVIOUS
<1>1. ASSUME NEW r \in Requests, NEW a \in Asks, Receive(r, a) PROVE CurrentInv'
  BY <1>1, ReceiveCurrent
<1>2. ASSUME NEW r \in Requests, Runs(r) PROVE CurrentInv'
  BY <1>2, RunReadCurrent, RunWriteCurrent DEF Runs
<1>3. ASSUME NEW r \in Requests, Answers(r) PROVE CurrentInv'
  BY <1>3, ReadAnswersCurrent, FillAnswersCurrent, WriteAnswersCurrent DEF Answers
<1>4. ASSUME NEW r \in Requests, CallFails(r) PROVE CurrentInv'
  BY <1>4, CallFailsCurrent
<1>5. QED
  BY <1>1, <1>2, <1>3, <1>4, OutsideCurrent DEF Next

LEMMA CurrentIsClean == CurrentInv => CachesAreCurrent
BY DEF CurrentInv, CachesAreCurrent, Clean, CleanEntry, Pending

\* What the caches hold of a get, a list or a head is what UFDS holds, unless a
\* write has run and its answer, which drops it, is still on its way, or the entry
\* is tainted: read before a write and cached after it was answered, of a write whose
\* answer was lost, or a head that cacheInvalidateWrite and cacheInvalidateDelete miss.
THEOREM CachesStayCurrent == Spec => []CachesAreCurrent
<1>1. Inv /\ CurrentInv /\ [Next]_vars => (Inv /\ CurrentInv)'
  BY StepInv, StepCurrent
<1>2. QED
  BY <1>1, InitInv, InitCurrent, CurrentIsClean, PTL DEF Spec
====
