----------------------------- MODULE UserAccess -----------------------------
(***************************************************************************)
(* Who may use which node: the users, their assignments and the newest     *)
(* snapshot of every node, under everything that changes them.             *)
(*                                                                         *)
(* Administrators edit users, assignments and nodes; agents report         *)
(* traffic; the maintenance loop enforces expiries.  Each is one           *)
(* transaction, but the time a transaction works with is read before it    *)
(* begins, two handlers fill the fields a request leaves out from a row    *)
(* read before the transaction, and the maintenance loop lists the expired *)
(* users before the transaction that enforces them.                        *)
(***************************************************************************)
EXTENDS Naturals, FiniteSets

CONSTANTS
    Users,
    Nodes,
    Adapter,        \* nodes.adapter_type
    Limits,         \* traffic limits an administrator may set; 0 is no limit
    Batch,          \* users enforced by one maintenance cycle
    LastTime,       \* bound on the clock
    MaxLag,         \* bound on the age of the time a transaction works with
    Scenarios       \* bounds that go together: who takes part, the requests of
                    \* administrators, the traffic of a user on a node, faults,
                    \* and whether an agent is running

ASSUME AccessAssumption ==
    /\ Adapter \in [Nodes -> {"native_hysteria2", "s_ui", "sing_box_vless_reality"}]
    /\ Limits \subseteq Nat /\ 0 \in Limits
    /\ Batch \in Nat \ {0}
    /\ LastTime \in Nat /\ MaxLag \in Nat
    /\ Scenarios \subseteq [users : SUBSET Users, writes : Nat, traffic : Nat,
                            faults : Nat, agent : BOOLEAN]

VARIABLES
    bound,      \* the scenario
    clock,
    user,       \* users
    asg,        \* node_user_assignments; used is kept in traffic_totals
    node,       \* nodes.enabled and nodes.archived_at
    gen,        \* node_kick_targets.generation
    pub,        \* the newest snapshot of every node
    request,    \* a request between its read and its transaction
    sweep,      \* EnforceExpiredUsers between its list and its transaction
    late,       \* history: the newest snapshot carries an older time
    asked,      \* history: what the requests asked for
    writes,
    faults

access == <<bound, clock, user, asg, node, gen, pub, request, sweep, late, asked, writes, faults>>

Never == LastTime + 1
Expiries == 1..Never
QuotaStates == {"unlimited", "active", "limited"}
NoEntry == [listed |-> FALSE, enabled |-> FALSE, expires |-> Never, limited |-> FALSE]
NoRequest == [kind |-> "none"]
NoSweep == [on |-> FALSE]
Kickable == {n \in Nodes : Adapter[n] # "s_ui"}

----------------------------------------------------------------------------
(* What the rows say *)

quotaState(limit, used) ==
    IF limit = 0 THEN "unlimited" ELSE IF used >= limit THEN "limited" ELSE "active"

\* effectiveQuotaStatesTx: the limits of the user and of the assignment
Limited(us, as, n, u) ==
    /\ us[u].status = "live" /\ as[n][u].assigned
    /\ us[u].quota = "limited" \/ as[n][u].quota = "limited"

\* assignmentNodeIDs
assignmentNodeIDs(as, u) == {n \in Nodes : as[n][u].assigned}

\* One user in a snapshot.  A native node compares expires_at with its own
\* clock; for a Reality node the server does, with the time of the snapshot.
DesiredUser(us, as, nd, n, u, now) ==
    IF us[u].status = "live" /\ as[n][u].assigned
    THEN [listed  |-> TRUE,
          enabled |-> /\ us[u].enabled /\ as[n][u].enabled /\ nd[n].enabled
                      /\ Adapter[n] = "sing_box_vless_reality" => now < us[u].expires,
          expires |-> us[u].expires,
          limited |-> Limited(us, as, n, u)]
    ELSE NoEntry

insertSnapshot(us, as, nd, g, n, now) ==
    [version |-> pub[n].version + 1,
     users   |-> [u \in Users |-> DesiredUser(us, as, nd, n, u, now)],
     kicks   |-> g[n]]

\* The snapshot lets the user connect, as far as the server decides it.
Admits(s, u) == s.users[u].listed /\ s.users[u].enabled /\ ~s.users[u].limited

\* ResolveSubscription: the endpoint may be in the subscription of the user.
\* It also takes a token and an agent that has acknowledged the assignment.
Renders(n, u) ==
    /\ user[u].status = "live" /\ user[u].enabled /\ clock < user[u].expires
    /\ user[u].quota # "limited"
    /\ asg[n][u].assigned /\ asg[n][u].enabled /\ asg[n][u].quota # "limited"
    /\ node[n].enabled /\ ~node[n].archived

\* By the rows, the user may keep a connection to the node.
Entitled(n, u) ==
    /\ user[u].status = "live" /\ user[u].enabled /\ ~user[u].enforced
    /\ asg[n][u].assigned /\ asg[n][u].enabled /\ ~Limited(user, asg, n, u)

----------------------------------------------------------------------------
(* Types and initial states *)

UserRows == [status : {"none", "live", "archived"}, enabled : BOOLEAN, expires : Expiries,
             enforced : BOOLEAN, limit : Limits, used : Nat, quota : QuotaStates]
AssignmentRows == [assigned : BOOLEAN, enabled : BOOLEAN, limit : Limits,
                   used : Nat, quota : QuotaStates]
Entries == [listed : BOOLEAN, enabled : BOOLEAN, expires : Expiries, limited : BOOLEAN]
Snapshots == [version : Nat, users : [Users -> Entries], kicks : [Users -> Nat]]
UserRequests ==
    [kind : {"user"}, user : Users, enabled : BOOLEAN, expires : Expiries,
     limit : Limits, now : 0..LastTime, fresh : BOOLEAN]
AssignmentRequests ==
    [kind : {"assignment"}, user : Users, node : Nodes, enabled : BOOLEAN, limit : Limits,
     given : SUBSET {"enabled", "limit"}, now : 0..LastTime, fresh : BOOLEAN]
Sweeps == [on : {TRUE}, now : 0..LastTime, users : SUBSET Users]

\* Every row, every snapshot and everything in flight has its shape.
AccessTypeOK ==
    /\ clock \in 0..LastTime
    /\ user \in [Users -> UserRows]
    /\ asg \in [Nodes -> [Users -> AssignmentRows]]
    /\ node \in [Nodes -> [enabled : BOOLEAN, archived : BOOLEAN]]
    /\ gen \in [Nodes -> [Users -> Nat]]
    /\ pub \in [Nodes -> Snapshots]
    /\ request \in UserRequests \cup AssignmentRequests \cup {NoRequest}
    /\ sweep \in Sweeps \cup {NoSweep}

\* Some users exist, assigned everywhere, with expiries to come.
AccessInit ==
    /\ bound \in Scenarios
    /\ clock = 0
    /\ \E members \in SUBSET bound.users : \E x \in [members -> Expiries] :
         /\ user = [u \in Users |->
                  [status |-> IF u \in members THEN "live" ELSE "none", enabled |-> TRUE,
                   expires |-> IF u \in members THEN x[u] ELSE Never, enforced |-> FALSE,
                   limit |-> 0, used |-> 0, quota |-> "unlimited"]]
         /\ asg = [n \in Nodes |-> [u \in Users |->
                  [assigned |-> u \in members, enabled |-> TRUE, limit |-> 0,
                   used |-> 0, quota |-> "unlimited"]]]
    /\ node = [n \in Nodes |-> [enabled |-> TRUE, archived |-> FALSE]]
    /\ gen = [n \in Nodes |-> [u \in Users |-> 0]]
    /\ pub = [n \in Nodes |->
                [version |-> 1, kicks |-> gen[n],
                 users |-> [u \in Users |-> DesiredUser(user, asg, node, n, u, 0)]]]
    /\ request = NoRequest /\ sweep = NoSweep
    /\ late = [n \in Nodes |-> FALSE]
    /\ asked = [asg |-> [n \in Nodes |-> [u \in Users |-> [enabled |-> TRUE, limit |-> 0]]],
                limit |-> [u \in Users |-> 0]]
    /\ writes = 0 /\ faults = 0

----------------------------------------------------------------------------
(* Transactions *)

\* The times a transaction that commits now may have read before it began.
Captured == {t \in 0..clock : clock - t <= MaxLag}

\* requestKickTx for kicks, bumpNodeSnapshot for bumped, and the commit; both
\* fail on an archived node, and the transaction with them.
Commit(us, as, nd, kicks, bumped, now) ==
    /\ \A n \in bumped : ~node[n].archived
    /\ user' = us /\ asg' = as /\ node' = nd
    /\ gen' = [n \in Nodes |-> [u \in Users |->
                 IF n \in Kickable /\ <<n, u>> \in kicks THEN gen[n][u] + 1 ELSE gen[n][u]]]
    /\ pub' = [n \in Nodes |->
                 IF n \in bumped THEN insertSnapshot(us, as, nd, gen', n, now) ELSE pub[n]]
    /\ late' = [n \in Nodes |-> IF n \in bumped THEN now # clock ELSE late[n]]

\* A request that has read its row is no longer fresh once the row changes.
Overtaken ==
    IF \/ request.kind = "assignment"
          /\ asg'[request.node][request.user] # asg[request.node][request.user]
       \/ request.kind = "user" /\ user'[request.user].limit # user[request.user].limit
    THEN [request EXCEPT !.fresh = FALSE] ELSE request

\* A request of an administrator
Write(us, as, nd, kicks, bumped, now) ==
    /\ writes < bound.writes /\ writes' = writes + 1
    /\ Commit(us, as, nd, kicks, bumped, now)
    /\ request' = Overtaken
    /\ UNCHANGED <<bound, clock, sweep, faults>>

----------------------------------------------------------------------------
(* Users *)

\* assignUserTx: enabled, with the traffic the pair had before
assignUserTx(ns, u, l) ==
    [n \in Nodes |->
        IF n \in ns
        THEN [asg[n] EXCEPT ![u] = [assigned |-> TRUE, enabled |-> TRUE, limit |-> l,
                                    used |-> @.used, quota |-> quotaState(l, @.used)]]
        ELSE asg[n]]

AskedAssign(ns, u, l) ==
    [n \in Nodes |-> IF n \in ns THEN [asked.asg[n] EXCEPT ![u] = [enabled |-> TRUE, limit |-> l]]
                                ELSE asked.asg[n]]

\* CreateUser; an expiry that is past already counts as enforced.
CreateUser(u, ns, e, x, l, now) ==
    /\ u \in bound.users /\ user[u].status = "none"
    /\ Write([user EXCEPT ![u] = [status |-> "live", enabled |-> e, expires |-> x,
                                 enforced |-> x <= now, limit |-> l, used |-> 0,
                                 quota |-> quotaState(l, 0)]],
             assignUserTx(ns, u, 0), node, {}, ns, now)
    /\ asked' = [asg |-> AskedAssign(ns, u, 0), limit |-> [asked.limit EXCEPT ![u] = l]]

\* Mutant of UpdatedUser: a user enforced once stays marked.
UpdatedUserKeepsMark(u, e, x, l, now) ==
    [user[u] EXCEPT !.enabled = e, !.expires = x, !.enforced = (@ \/ x <= now),
                    !.limit = l, !.quota = quotaState(l, user[u].used)]

\* The row updateUserTx writes.  The mark of an expiry that was enforced goes
\* with the expiry.
UpdatedUser(u, e, x, l, now) ==
    [user[u] EXCEPT !.enabled = e, !.expires = x, !.enforced = (x <= now),
                    !.limit = l, !.quota = quotaState(l, user[u].used)]

\* The nodes updateUserTx kicks the user from.
UpdateKicks(u, us, now) ==
    {n \in assignmentNodeIDs(asg, u) :
        \/ user[u].enabled /\ ~us[u].enabled
        \/ us[u].expires <= now /\ ~user[u].enforced
        \/ ~Limited(user, asg, n, u) /\ Limited(us, asg, n, u)}

\* Mutant of updateUserTx: only the nodes it kicks from are published.
UpdateUserTxKickedOnly(u, e, x, l, now) ==
    LET us == [user EXCEPT ![u] = UpdatedUser(u, e, x, l, now)] IN
    /\ user[u].status = "live"
    /\ Commit(us, asg, node, UpdateKicks(u, us, now) \X {u}, UpdateKicks(u, us, now), now)

updateUserTx(u, e, x, l, now) ==
    LET us == [user EXCEPT ![u] = UpdatedUser(u, e, x, l, now)] IN
    /\ user[u].status = "live"
    /\ Commit(us, asg, node, UpdateKicks(u, us, now) \X {u}, assignmentNodeIDs(asg, u), now)

\* UpdateUser, and UpdateSubscriptionOperation, which takes what the request
\* leaves out from the row it reads in the transaction
UpdateUser(u, e, x, l, now) ==
    /\ writes < bound.writes /\ writes' = writes + 1
    /\ updateUserTx(u, e, x, l, now)
    /\ request' = Overtaken
    /\ asked' = [asked EXCEPT !.limit[u] = l]
    /\ UNCHANGED <<bound, clock, sweep, faults>>

\* handleUpdateUser without a limit: the limit is read before the transaction.
BeginUpdateUser(u, e, x) ==
    /\ request = NoRequest /\ writes < bound.writes /\ user[u].status = "live"
    /\ writes' = writes + 1
    /\ request' = [kind |-> "user", user |-> u, enabled |-> e, expires |-> x,
                   limit |-> user[u].limit, now |-> clock, fresh |-> TRUE]
    /\ UNCHANGED <<bound, clock, user, asg, node, gen, pub, sweep, late, asked, faults>>

EndUpdateUser ==
    /\ request.kind = "user"
    /\ \/ /\ updateUserTx(request.user, request.enabled, request.expires, request.limit,
                          request.now)
          /\ asked' = IF request.fresh THEN asked
                      ELSE [asked EXCEPT !.limit[request.user] = request.limit]
       \/ /\ user[request.user].status # "live"
          /\ UNCHANGED <<user, asg, node, gen, pub, late, asked>>
    /\ request' = NoRequest
    /\ UNCHANGED <<bound, clock, sweep, writes, faults>>

ArchiveUser(u, now) ==
    /\ user[u].status = "live"
    /\ Write([user EXCEPT ![u].enabled = FALSE, ![u].status = "archived"], asg, node,
             assignmentNodeIDs(asg, u) \X {u}, assignmentNodeIDs(asg, u), now)
    /\ UNCHANGED asked

\* RequestUserKick, on one node or on all of the user's
RequestUserKick(u, ns, now) ==
    /\ user[u].status = "live"
    /\ Write(user, asg, node, ns \X {u}, ns, now)
    /\ UNCHANGED asked

----------------------------------------------------------------------------
(* Assignments *)

AssignUser(u, n, l, now) ==
    /\ user[u].status = "live" /\ ~asg[n][u].assigned /\ ~node[n].archived
    /\ Write(user, assignUserTx({n}, u, l), node, {}, {n}, now)
    /\ asked' = [asked EXCEPT !.asg = AskedAssign({n}, u, l)]

UnassignUser(u, n, now) ==
    /\ asg[n][u].assigned /\ ~node[n].archived
    /\ Write(user, [asg EXCEPT ![n][u].assigned = FALSE], node, {<<n, u>>}, {n}, now)
    /\ UNCHANGED asked

\* UpdateAssignment of the store: the transaction
UpdateAssignment(u, n, e, l, now) ==
    LET as == [asg EXCEPT ![n][u].enabled = e, ![n][u].limit = l,
                          ![n][u].quota = quotaState(l, asg[n][u].used)]
        kicked == \/ asg[n][u].enabled /\ ~e
                  \/ ~Limited(user, asg, n, u) /\ Limited(user, as, n, u)
    IN /\ asg[n][u].assigned
       /\ Commit(user, as, node, IF kicked THEN {<<n, u>>} ELSE {}, {n}, now)

\* Mutant of BeginUpdateAssignment: a field not given takes its default.
BeginUpdateAssignmentDefaults(u, n, given, e, l) ==
    /\ request = NoRequest /\ writes < bound.writes
    /\ user[u].status = "live" /\ asg[n][u].assigned
    /\ writes' = writes + 1
    /\ request' = [kind |-> "assignment", user |-> u, node |-> n, given |-> given,
                   enabled |-> "enabled" \in given => e,
                   limit |-> IF "limit" \in given THEN l ELSE 0,
                   now |-> clock, fresh |-> TRUE]
    /\ UNCHANGED <<bound, clock, user, asg, node, gen, pub, sweep, late, asked, faults>>

\* handleUpdateAssignment reads the user; fields not given keep their value.
BeginUpdateAssignment(u, n, given, e, l) ==
    /\ request = NoRequest /\ writes < bound.writes
    /\ user[u].status = "live" /\ asg[n][u].assigned
    /\ writes' = writes + 1
    /\ request' = [kind |-> "assignment", user |-> u, node |-> n, given |-> given,
                   enabled |-> IF "enabled" \in given THEN e ELSE asg[n][u].enabled,
                   limit |-> IF "limit" \in given THEN l ELSE asg[n][u].limit,
                   now |-> clock, fresh |-> TRUE]
    /\ UNCHANGED <<bound, clock, user, asg, node, gen, pub, sweep, late, asked, faults>>

\* The transaction.  A request that was overtaken writes back what it read,
\* as if it had asked for that too.
EndUpdateAssignment ==
    /\ request.kind = "assignment"
    /\ LET n == request.node
           u == request.user
           given == IF request.fresh THEN request.given ELSE {"enabled", "limit"}
       IN \/ /\ UpdateAssignment(u, n, request.enabled, request.limit, request.now)
             /\ asked' = [asked EXCEPT
                   !.asg[n][u].enabled = IF "enabled" \in given THEN request.enabled ELSE @,
                   !.asg[n][u].limit = IF "limit" \in given THEN request.limit ELSE @]
          \/ /\ ~asg[n][u].assigned \/ node[n].archived
             /\ UNCHANGED <<user, asg, node, gen, pub, late, asked>>
    /\ request' = NoRequest
    /\ UNCHANGED <<bound, clock, sweep, writes, faults>>

\* Another request for an assignment, from its read to its answer, while one
\* is in flight
OtherUpdateAssignment(u, n, given, e, l, now) ==
    LET e1 == IF "enabled" \in given THEN e ELSE asg[n][u].enabled
        l1 == IF "limit" \in given THEN l ELSE asg[n][u].limit
    IN /\ request # NoRequest /\ writes < bound.writes
       /\ user[u].status = "live"
       /\ UpdateAssignment(u, n, e1, l1, now)
       /\ writes' = writes + 1
       /\ request' = Overtaken
       /\ asked' = [asked EXCEPT
             !.asg[n][u].enabled = IF "enabled" \in given THEN e ELSE @,
             !.asg[n][u].limit = IF "limit" \in given THEN l ELSE @]
       /\ UNCHANGED <<bound, clock, sweep, faults>>

----------------------------------------------------------------------------
(* Nodes and traffic *)

\* UpdateNode of a node that is enabled or disabled: nobody is kicked.
UpdateNode(n, e, now) ==
    /\ ~node[n].archived
    /\ Write(user, asg, [node EXCEPT ![n].enabled = e], {}, {n}, now)
    /\ UNCHANGED asked

\* Mutant of ArchiveNode: the users of the node are not looked at.
ArchiveNodeAnyway(n) ==
    /\ ~node[n].archived
    /\ Write(user, asg, [node EXCEPT ![n] = [enabled |-> FALSE, archived |-> TRUE]], {}, {}, clock)
    /\ UNCHANGED asked

\* ArchiveNodeWithForce; whether the agent has acknowledged enough to do
\* without force is not modelled.
ArchiveNode(n) ==
    /\ ~node[n].archived
    /\ \A u \in Users : asg[n][u].assigned => user[u].status # "live"
    /\ Write(user, asg, [node EXCEPT ![n] = [enabled |-> FALSE, archived |-> TRUE]], {}, {}, clock)
    /\ UNCHANGED asked

\* Mutant of IngestTraffic: only the node that reports is looked at.
IngestTrafficOneNode(n, u, now) ==
    LET us == [user EXCEPT ![u].used = @ + 1,
                           ![u].quota = quotaState(user[u].limit, user[u].used + 1)]
        as == [asg EXCEPT ![n][u].used = @ + 1,
                          ![n][u].quota = quotaState(asg[n][u].limit, asg[n][u].used + 1)]
        limited == {m \in {n} : ~Limited(user, asg, m, u) /\ Limited(us, as, m, u)}
    IN /\ user[u].status = "live" /\ asg[n][u].assigned /\ asg[n][u].used < bound.traffic
       /\ Commit(us, as, node, limited \X {u}, limited, now)
       /\ UNCHANGED <<bound, clock, request, sweep, asked, writes, faults>>

\* IngestTrafficBatch, for a user it accounts: every node on which the user
\* is limited by it is kicked, and every node it changes is published.
IngestTraffic(n, u, now) ==
    LET us == [user EXCEPT ![u].used = @ + 1,
                           ![u].quota = quotaState(user[u].limit, user[u].used + 1)]
        as == [asg EXCEPT ![n][u].used = @ + 1,
                          ![n][u].quota = quotaState(asg[n][u].limit, asg[n][u].used + 1)]
        limited == {m \in Nodes : ~Limited(user, asg, m, u) /\ Limited(us, as, m, u)}
    IN /\ user[u].status = "live" /\ asg[n][u].assigned /\ asg[n][u].used < bound.traffic
       /\ Commit(us, as, node, limited \X {u}, limited, now)
       /\ UNCHANGED <<bound, clock, request, sweep, asked, writes, faults>>

----------------------------------------------------------------------------
(* The maintenance loop: EnforceExpiredUsers *)

\* The users a cycle lists: expired, not marked, the earliest first
Due == {u \in Users : /\ user[u].status = "live" /\ user[u].enabled
                      /\ user[u].expires <= clock /\ ~user[u].enforced}

ListExpired ==
    /\ sweep = NoSweep /\ Due # {}
    /\ \E us \in SUBSET Due :
         /\ Cardinality(us) = IF Cardinality(Due) < Batch THEN Cardinality(Due) ELSE Batch
         /\ \A u \in us, v \in Due \ us : user[u].expires <= user[v].expires
         /\ sweep' = [on |-> TRUE, now |-> clock, users |-> us]
    /\ UNCHANGED <<bound, clock, user, asg, node, gen, pub, request, late, asked, writes, faults>>

\* The users the transaction marks: those still expired and not marked
Marked == {u \in sweep.users : ~user[u].enforced /\ user[u].expires <= sweep.now}

MarkedPairs == {p \in Nodes \X Marked : asg[p[1]][p[2]].assigned}
MarkedNodes == {n \in Nodes : \E u \in Marked : asg[n][u].assigned}

MarkExpired ==
    /\ sweep.on
    /\ Commit([u \in Users |-> IF u \in Marked THEN [user[u] EXCEPT !.enforced = TRUE]
                              ELSE user[u]],
              asg, node, MarkedPairs, MarkedNodes, sweep.now)
    /\ sweep' = NoSweep
    /\ UNCHANGED <<bound, clock, request, asked, writes, faults>>

\* One node that has been archived fails the cycle for every user.
MarkExpiredRefused ==
    /\ sweep.on
    /\ \E n \in MarkedNodes : node[n].archived
    /\ sweep' = NoSweep
    /\ UNCHANGED <<bound, clock, user, asg, node, gen, pub, request, late, asked, writes, faults>>

\* The transaction runs into its ten seconds, or the server is restarted,
\* which ends the request in flight as well.
ServerFails ==
    /\ faults < bound.faults /\ faults' = faults + 1
    /\ sweep' = NoSweep
    /\ request' \in {request, NoRequest}
    /\ UNCHANGED <<bound, clock, user, asg, node, gen, pub, late, asked, writes>>

Tick ==
    /\ clock < LastTime /\ clock' = clock + 1
    /\ request # NoRequest => clock' - request.now <= MaxLag
    /\ sweep.on => clock' - sweep.now <= MaxLag
    /\ UNCHANGED <<bound, user, asg, node, gen, pub, request, sweep, late, asked, writes, faults>>

----------------------------------------------------------------------------

Administrator ==
    \/ \E u \in Users, now \in Captured :
         \/ \E ns \in SUBSET Nodes, e \in BOOLEAN, x \in Expiries, l \in Limits :
               CreateUser(u, ns, e, x, l, now)
         \/ \E e \in BOOLEAN, x \in Expiries, l \in Limits : UpdateUser(u, e, x, l, now)
         \/ ArchiveUser(u, now)
         \/ \E ns \in {assignmentNodeIDs(asg, u)} \cup {{n} : n \in assignmentNodeIDs(asg, u)} :
               LET kicked == {n \in ns \cap Kickable : ~node[n].archived} IN
               kicked # {} /\ RequestUserKick(u, kicked, now)
         \/ \E n \in Nodes : \/ \E l \in Limits : AssignUser(u, n, l, now)
                             \/ UnassignUser(u, n, now)
    \/ \E u \in Users, e \in BOOLEAN, x \in Expiries : BeginUpdateUser(u, e, x)
    \/ \E u \in Users, n \in Nodes, given \in (SUBSET {"enabled", "limit"}) \ {{}},
          e \in BOOLEAN, l \in Limits :
         \/ BeginUpdateAssignment(u, n, given, e, l)
         \/ \E now \in Captured : OtherUpdateAssignment(u, n, given, e, l, now)
    \/ \E n \in Nodes : \/ \E e \in BOOLEAN, now \in Captured : UpdateNode(n, e, now)
                        \/ ArchiveNode(n)

Traffic == \E n \in Nodes, u \in Users, now \in Captured : IngestTraffic(n, u, now)

AccessNext ==
    \/ Administrator \/ EndUpdateUser \/ EndUpdateAssignment \/ Traffic
    \/ ListExpired \/ MarkExpired \/ MarkExpiredRefused \/ ServerFails
    \/ Tick

AccessSpec == AccessInit /\ [][AccessNext]_access

\* Requests are answered, and the maintenance loop goes round.
AccessFairness ==
    /\ WF_access(EndUpdateUser) /\ WF_access(EndUpdateAssignment)
    /\ WF_access(ListExpired) /\ WF_access(MarkExpired) /\ WF_access(MarkExpiredRefused)

----------------------------------------------------------------------------
(* Properties *)

\* No transaction takes a user's right to a node without asking the node to
\* drop the user's connections: updateUserTx, UpdateAssignment, ArchiveUser,
\* UnassignUser, IngestTrafficBatch and EnforceExpiredUsers alike, on every
\* node the change reaches.  (Disabling a node kicks nobody.)
LossIsKicked ==
    [][\A n \in Kickable, u \in Users :
          Entitled(n, u) /\ ~Entitled(n, u)' => gen'[n][u] > gen[n][u]]_access

\* An endpoint the server renders into a user's subscription is one whose
\* newest snapshot admits the user: whatever makes ResolveSubscription list
\* the node has been published to it.
RenderedIsAdmitted ==
    \A n \in Nodes, u \in Users : Renders(n, u) => Admits(pub[n], u)

\* A user whose expiry is marked as enforced is not served by a Reality node,
\* which does not look at expires_at itself.  The exception is a snapshot
\* built by a transaction that read its time before the clock moved on.
EnforcedIsWithdrawn ==
    \A n \in Nodes, u \in Users :
        /\ Adapter[n] = "sing_box_vless_reality" /\ ~late[n]
        /\ user[u].enforced
        => ~pub[n].users[u].enabled

\* What the requests asked for is what the rows say, field by field: a
\* request that leaves a field out does not change it, unless another request
\* changed the row between its read and its transaction.
LastRequestHolds ==
    \A u \in Users : user[u].status = "live" =>
        /\ user[u].limit = asked.limit[u]
        /\ \A n \in Nodes : asg[n][u].assigned =>
              asg[n][u].enabled = asked.asg[n][u].enabled /\ asg[n][u].limit = asked.asg[n][u].limit

\* Every expired user is enforced sooner or later, however many expire at
\* once and whatever fails.
ExpiryIsEnforced == \A u \in Users : u \in Due ~> u \notin Due

=============================================================================
