---------------------------- MODULE AccessProofs -----------------------------
(*****************************************************************************)
(* What the rows of UserAccess and the newest snapshots have to do with each *)
(* other: what a transaction must see to for that to stay so, that every     *)
(* transaction of the server does (it publishes every node whose snapshot it *)
(* makes wrong, and kicks whoever loses a node), and so that every step of   *)
(* the server keeps the rows consistent and the snapshots true to them.      *)
(*****************************************************************************)
EXTENDS UserAccess, TLAPS

----------------------------------------------------------------------------
(* The rows and the newest snapshots *)

\* An entry of a snapshot says what the rows us, as and nd say of the pair at
\* time t.
EntryOK(us, as, nd, t, n, u, e) ==
    /\ e.listed <=> (us[u].status = "live" /\ as[n][u].assigned)
    /\ ~e.listed => e = NoEntry
    /\ e.listed =>
         /\ e.limited <=> Limited(us, as, n, u)
         /\ e.expires = us[u].expires
         /\ e.enabled => us[u].enabled /\ as[n][u].enabled
         /\ us[u].enabled /\ as[n][u].enabled /\ nd[n].enabled /\ t < us[u].expires
              => e.enabled

\* Quota states are those of the limits and the bytes used; an expiry that is
\* marked is past; a user who does not exist is assigned nowhere.
RowsOK(us, as, t) ==
    \A u \in Users :
        /\ us[u].quota = quotaState(us[u].limit, us[u].used)
        /\ us[u].enforced => us[u].expires <= t
        /\ us[u].status = "none" => \A n \in Nodes : ~as[n][u].assigned
        /\ \A n \in Nodes : as[n][u].quota = quotaState(as[n][u].limit, as[n][u].used)

EntitledIn(us, as, n, u) ==
    /\ us[u].status = "live" /\ us[u].enabled /\ ~us[u].enforced
    /\ as[n][u].assigned /\ as[n][u].enabled /\ ~Limited(us, as, n, u)

\* What every transaction must see to before it commits: the nodes it does not
\* publish need no new snapshot, and whoever loses a node is kicked.
Sound(us, as, nd, kicks, bumped, now) ==
    /\ us \in [Users -> UserRows]
    /\ as \in [Nodes -> [Users -> AssignmentRows]]
    /\ nd \in [Nodes -> [enabled : BOOLEAN, archived : BOOLEAN]]
    /\ now \in 0..clock
    /\ RowsOK(us, as, clock)
    /\ \A n \in Nodes \ bumped : \A u \in Users :
         /\ EntryOK(us, as, nd, clock, n, u, pub[n].users[u])
         /\ us[u].enforced /\ us[u].status = "live" /\ as[n][u].assigned => user[u].enforced
         /\ <<n, u>> \notin kicks
    /\ \A n \in Nodes, u \in Users :
         EntitledIn(user, asg, n, u) /\ ~EntitledIn(us, as, n, u) => <<n, u>> \in kicks

Published == \A n \in Nodes, u \in Users : EntryOK(user, asg, node, clock, n, u, pub[n].users[u])

\* The newest snapshot carries the newest kicks.
KicksPublished == \A n \in Nodes : pub[n].kicks = gen[n]

RowsTypeOK ==
    /\ user \in [Users -> UserRows]
    /\ asg \in [Nodes -> [Users -> AssignmentRows]]
    /\ node \in [Nodes -> [enabled : BOOLEAN, archived : BOOLEAN]]
    /\ gen \in [Nodes -> [Users -> Nat]]
    /\ pub \in [Nodes -> Snapshots]

\* What is in flight has its shape, and read its time in the past.
FlightOK ==
    /\ clock \in 0..LastTime
    /\ request \in UserRequests \cup AssignmentRequests \cup {NoRequest}
    /\ sweep \in Sweeps \cup {NoSweep}
    /\ request # NoRequest => request.now <= clock
    /\ sweep # NoSweep => sweep.now <= clock

AccessInv ==
    /\ RowsTypeOK /\ RowsOK(user, asg, clock)
    /\ Published /\ KicksPublished
    /\ EnforcedIsWithdrawn
    /\ FlightOK

\* A step of the server takes no right without a kick.
LossStep ==
    \A n \in Kickable, u \in Users :
        Entitled(n, u) /\ ~Entitled(n, u)' => gen'[n][u] > gen[n][u]

\* Time, kick generations and versions only grow, and a new generation of the kicks
\* comes with a new version.
Grows ==
    /\ clock' >= clock
    /\ \A n \in Nodes :
        /\ pub'[n].version >= pub[n].version
        /\ pub'[n].version = pub[n].version => pub'[n] = pub[n]
        /\ \A u \in Users : gen'[n][u] >= gen[n][u]

\* quotaState yields one of the states quota_state may hold.
LEMMA quotaStateType ==
    ASSUME NEW l \in Nat, NEW b \in Nat
    PROVE  quotaState(l, b) \in QuotaStates
BY DEF quotaState, QuotaStates

\* An expiry is a natural number, also the one that never comes.
LEMMA NeverType == Never \in Expiries /\ Expiries \subseteq Nat
BY AccessAssumption DEF Never, Expiries

\* Limits are numbers of bytes, zero among them.
LEMMA LimitsNat == Limits \subseteq Nat /\ 0 \in Limits
BY AccessAssumption

\* The fields of a row of users.
LEMMA UserRowType ==
    ASSUME NEW r \in UserRows
    PROVE  /\ r.expires \in Expiries /\ r.expires \in Nat
           /\ r.enabled \in BOOLEAN /\ r.enforced \in BOOLEAN
           /\ r.limit \in Limits /\ r.used \in Nat
BY NeverType, Zenon DEF UserRows

\* The fields of a row of node_user_assignments.
LEMMA AsgRowType ==
    ASSUME NEW r \in AssignmentRows
    PROVE  /\ r.assigned \in BOOLEAN /\ r.enabled \in BOOLEAN
           /\ r.limit \in Limits /\ r.used \in Nat
BY DEF AssignmentRows

\* The fields of an entry that lists a user.
LEMMA EntryFields ==
    ASSUME NEW a \in BOOLEAN, NEW b \in BOOLEAN, NEW x, NEW e,
           e = [listed |-> TRUE, enabled |-> a, expires |-> x, limited |-> b]
    PROVE  e.listed /\ (e.enabled <=> a) /\ e.expires = x /\ (e.limited <=> b)
OBVIOUS

\* What insertSnapshot writes of a user is what the rows say, and for a Reality
\* node an expiry that is past at the time of the snapshot disables the user.
LEMMA DesiredUserOK ==
    ASSUME NEW us \in [Users -> UserRows],
           NEW as \in [Nodes -> [Users -> AssignmentRows]],
           NEW nd \in [Nodes -> [enabled : BOOLEAN, archived : BOOLEAN]],
           NEW n \in Nodes, NEW u \in Users, NEW now \in 0..clock,
           clock \in Nat
    PROVE  /\ DesiredUser(us, as, nd, n, u, now) \in Entries
           /\ EntryOK(us, as, nd, clock, n, u, DesiredUser(us, as, nd, n, u, now))
           /\ Adapter[n] = "sing_box_vless_reality" /\ us[u].expires <= now
                => ~DesiredUser(us, as, nd, n, u, now).enabled
<1>1. us[u] \in UserRows /\ as[n][u] \in AssignmentRows /\ nd[n].enabled \in BOOLEAN
    BY Zenon
<1>3. us[u].expires \in Expiries /\ us[u].expires \in Nat /\ now \in Nat
    BY <1>1, UserRowType
<1> DEFINE e == DesiredUser(us, as, nd, n, u, now)
           L == Limited(us, as, n, u)
           on == /\ us[u].enabled /\ as[n][u].enabled /\ nd[n].enabled
                 /\ Adapter[n] = "sing_box_vless_reality" => now < us[u].expires
<1>2. L \in BOOLEAN /\ on \in BOOLEAN
    BY DEF Limited
<1>4. CASE us[u].status = "live" /\ as[n][u].assigned
    <2>1. e = [listed  |-> TRUE, enabled |-> on, expires |-> us[u].expires, limited |-> L]
        BY <1>4, Zenon DEF DesiredUser
    <2> HIDE DEF e, on, L
    <2>2. e \in Entries
        BY <2>1, <1>2, <1>3 DEF Entries
    <2>3. e.listed /\ (e.enabled <=> on) /\ e.expires = us[u].expires /\ (e.limited <=> L)
        BY <2>1, <1>2, EntryFields, Zenon
    <2>6. on => us[u].enabled /\ as[n][u].enabled
        BY DEF on
    <2>7. us[u].enabled /\ as[n][u].enabled /\ nd[n].enabled /\ clock < us[u].expires => on
        BY <1>3 DEF on
    <2>4. EntryOK(us, as, nd, clock, n, u, e)
        BY <1>4, <2>3, <2>6, <2>7, Zenon DEF EntryOK, L
    <2>5. Adapter[n] = "sing_box_vless_reality" /\ us[u].expires <= now => ~e.enabled
        <3>1. us[u].expires <= now => ~(now < us[u].expires)
            BY <1>3
        <3> QED BY <2>3, <3>1, Zenon DEF on
    <2> QED BY <2>2, <2>4, <2>5, Zenon DEF e
<1>5. CASE ~(us[u].status = "live" /\ as[n][u].assigned)
    <2>1. e = NoEntry
        BY <1>5, Zenon DEF DesiredUser
    <2> HIDE DEF e
    <2>2. e \in Entries
        BY <2>1, NeverType DEF Entries, NoEntry
    <2>3. e.listed = FALSE /\ e.enabled = FALSE
        BY <2>1 DEF NoEntry
    <2> QED BY <1>5, <2>1, <2>2, <2>3, Zenon DEF e, EntryOK
<1> QED BY <1>4, <1>5, Zenon

\* The fields of a snapshot.
LEMMA SnapshotFields ==
    ASSUME NEW v \in Nat, NEW es \in [Users -> Entries], NEW k \in [Users -> Nat], NEW s,
           s = [version |-> v, users |-> es, kicks |-> k]
    PROVE  s \in Snapshots /\ s.version = v /\ s.users = es /\ s.kicks = k
BY DEF Snapshots

\* A sound transaction keeps the invariant, and takes no right without a kick.
LEMMA CommitStep ==
    ASSUME AccessInv, NEW us, NEW as, NEW nd, NEW kicks, NEW bumped, NEW now,
           Sound(us, as, nd, kicks, bumped, now),
           Commit(us, as, nd, kicks, bumped, now),
           clock' = clock
    PROVE  /\ RowsTypeOK' /\ RowsOK(user, asg, clock)'
           /\ Published' /\ KicksPublished' /\ EnforcedIsWithdrawn'
           /\ LossStep /\ Grows
<1> USE DEF AccessInv
<1>0. /\ us \in [Users -> UserRows]
      /\ as \in [Nodes -> [Users -> AssignmentRows]]
      /\ nd \in [Nodes -> [enabled : BOOLEAN, archived : BOOLEAN]]
      /\ now \in 0..clock
      /\ user' = us /\ asg' = as /\ node' = nd
      /\ gen \in [Nodes -> [Users -> Nat]] /\ pub \in [Nodes -> Snapshots]
    BY Zenon DEF Sound, Commit, RowsTypeOK
<1>c. clock \in Nat
    BY AccessAssumption DEF FlightOK
<1>1. /\ gen' \in [Nodes -> [Users -> Nat]]
      /\ \A n \in Nodes, u \in Users :
           /\ gen'[n][u] >= gen[n][u]
           /\ n \in Kickable /\ <<n, u>> \in kicks => gen'[n][u] > gen[n][u]
    BY <1>0 DEF Commit
<1>2. ASSUME NEW n \in Nodes, n \notin bumped PROVE gen'[n] = gen[n]
    BY <1>0, <1>2, Zenon DEF Commit, Sound
<1>3. ASSUME NEW n \in Nodes, n \in bumped
      PROVE  /\ pub'[n] \in Snapshots
             /\ pub'[n].version = pub[n].version + 1
             /\ pub'[n].kicks = gen'[n]
             /\ \A u \in Users : pub'[n].users[u] = DesiredUser(us, as, nd, n, u, now)
    <2>1. pub'[n] = insertSnapshot(us, as, nd, gen', n, now)
        BY <1>3, Zenon DEF Commit
    <2> DEFINE es == [u \in Users |-> DesiredUser(us, as, nd, n, u, now)]
    <2>2. es \in [Users -> Entries]
        BY <1>0, <1>c, DesiredUserOK, Zenon
    <2>3. pub[n].version \in Nat /\ gen'[n] \in [Users -> Nat]
        BY <1>0, <1>1, Zenon DEF Snapshots
    <2>4. pub'[n] = [version |-> pub[n].version + 1, users |-> es, kicks |-> gen'[n]]
        BY <2>1, Zenon DEF insertSnapshot
    <2>5. \A u \in Users : es[u] = DesiredUser(us, as, nd, n, u, now)
        BY Zenon
    <2>6. pub[n].version + 1 \in Nat
        BY <2>3
    <2> HIDE DEF es
    <2>7. /\ pub'[n] \in Snapshots /\ pub'[n].version = pub[n].version + 1
          /\ pub'[n].users = es /\ pub'[n].kicks = gen'[n]
        BY <2>2, <2>3, <2>4, <2>6, SnapshotFields
    <2> QED BY <2>5, <2>7, Zenon
<1>4. ASSUME NEW n \in Nodes, n \notin bumped PROVE pub'[n] = pub[n]
    BY <1>4, Zenon DEF Commit
<1>5. RowsTypeOK'
    <2>1. pub' \in [Nodes -> Snapshots]
        <3>1. \A n \in Nodes : pub'[n] \in Snapshots
            BY <1>0, <1>3, <1>4, Zenon
        <3> QED BY <3>1, Zenon DEF Commit
    <2> QED BY <1>0, <1>1, <2>1, Zenon DEF RowsTypeOK
<1>6. RowsOK(user, asg, clock)'
    BY <1>0, Zenon DEF RowsOK, Sound
<1>7. Published'
    <2> SUFFICES ASSUME NEW n \in Nodes, NEW u \in Users
                 PROVE  EntryOK(us, as, nd, clock, n, u, pub'[n].users[u])
        BY <1>0, Zenon DEF Published
    <2>1. CASE n \in bumped
        BY <1>0, <1>c, <1>3, <2>1, DesiredUserOK, Zenon
    <2>2. CASE n \notin bumped
        BY <1>4, <2>2, Zenon DEF Sound
    <2> QED BY <2>1, <2>2, Zenon
<1>8. KicksPublished'
    BY <1>2, <1>3, <1>4, Zenon DEF KicksPublished
<1>9. EnforcedIsWithdrawn'
    <2> SUFFICES ASSUME NEW n \in Nodes, NEW u \in Users,
                        Adapter[n] = "sing_box_vless_reality", ~late'[n], us[u].enforced
                 PROVE  ~pub'[n].users[u].enabled
        BY <1>0, Zenon DEF EnforcedIsWithdrawn
    <2>1. CASE n \in bumped
        <3>1. now = clock
            BY <2>1, Zenon DEF Commit
        <3>2. us[u].expires <= now
            BY <3>1, <1>0, Zenon DEF Sound, RowsOK
        <3>3. pub'[n].users[u] = DesiredUser(us, as, nd, n, u, now)
            BY <1>3, <2>1, Zenon
        <3>4. ~DesiredUser(us, as, nd, n, u, now).enabled
            BY <1>0, <1>c, <3>2, DesiredUserOK, Zenon
        <3> QED BY <3>3, <3>4, Zenon
    <2>2. CASE n \notin bumped
        <3>1. pub'[n] = pub[n] /\ ~late[n]
            BY <1>4, <2>2, Zenon DEF Commit
        <3>2. CASE user[u].enforced
            BY <3>1, <3>2, Zenon DEF EnforcedIsWithdrawn
        <3>3. CASE ~user[u].enforced
            <4>1. ~(us[u].status = "live" /\ as[n][u].assigned)
                BY <2>2, <3>3, Zenon DEF Sound
            <4>2. pub[n].users[u] = NoEntry
                BY <2>2, <4>1, Zenon DEF Sound, EntryOK
            <4> QED BY <3>1, <4>2 DEF NoEntry
        <3> QED BY <3>2, <3>3, Zenon
    <2> QED BY <2>1, <2>2, Zenon
<1>10. LossStep
    <2> SUFFICES ASSUME NEW n \in Kickable, NEW u \in Users,
                        Entitled(n, u), ~Entitled(n, u)'
                 PROVE  gen'[n][u] > gen[n][u]
        BY DEF LossStep
    <2>1. n \in Nodes
        BY DEF Kickable
    <2>2. EntitledIn(user, asg, n, u) /\ ~EntitledIn(us, as, n, u)
        BY <1>0, Zenon DEF Entitled, EntitledIn, Limited
    <2> QED BY <1>1, <2>1, <2>2, Zenon DEF Sound
<1>11. Grows
    <2>1. \A n \in Nodes : pub[n].version \in Nat
        BY <1>0, Zenon DEF Snapshots
    <2>2. ASSUME NEW n \in Nodes
          PROVE  /\ pub'[n].version >= pub[n].version
                 /\ pub'[n].version = pub[n].version => pub'[n] = pub[n]
        <3>1. CASE n \in bumped
            <4>1. pub'[n].version = pub[n].version + 1
                BY <1>3, <3>1, Zenon
            <4> QED BY <2>1, <4>1
        <3>2. CASE n \notin bumped
            BY <1>4, <2>1, <3>2
        <3> QED BY <3>1, <3>2, Zenon
    <2>3. clock' >= clock
        BY <1>c
    <2> QED BY <1>1, <2>2, <2>3, Zenon DEF Grows
<1> QED BY <1>5, <1>6, <1>7, <1>8, <1>9, <1>10, <1>11

----------------------------------------------------------------------------
(* Transactions about one user *)

\* A pair whose rows a transaction leaves alone keeps its entry, also when the
\* node is switched off.
LEMMA EntryKept ==
    ASSUME NEW us, NEW as, NEW nd, NEW n, NEW u, NEW e,
           us[u].status = user[u].status, us[u].expires = user[u].expires,
           us[u].enabled <=> user[u].enabled,
           as[n][u].assigned <=> asg[n][u].assigned,
           as[n][u].enabled <=> asg[n][u].enabled,
           Limited(us, as, n, u) <=> Limited(user, asg, n, u),
           nd[n].enabled => node[n].enabled,
           EntryOK(user, asg, node, clock, n, u, e)
    PROVE  EntryOK(us, as, nd, clock, n, u, e)
BY Zenon DEF EntryOK

\* An entry stays right while the rows of its pair stay as they are.
LEMMA SameRows ==
    ASSUME NEW us, NEW as, NEW nd, NEW n, NEW u, NEW e,
           us[u] = user[u], as[n][u] = asg[n][u], nd[n].enabled => node[n].enabled,
           EntryOK(user, asg, node, clock, n, u, e)
    PROVE  EntryOK(us, as, nd, clock, n, u, e)
<1>1. Limited(us, as, n, u) <=> Limited(user, asg, n, u)
    BY Zenon DEF Limited
<1> QED BY <1>1, EntryKept, Zenon

\* An entry of a pair that is not listed, before and after, stays right.
LEMMA EntryGone ==
    ASSUME NEW us, NEW as, NEW nd, NEW n, NEW u, NEW e,
           ~(us[u].status = "live" /\ as[n][u].assigned),
           ~(user[u].status = "live" /\ asg[n][u].assigned),
           EntryOK(user, asg, node, clock, n, u, e)
    PROVE  EntryOK(us, as, nd, clock, n, u, e)
BY Zenon DEF EntryOK

\* What the invariant says of single rows.
LEMMA RowFacts ==
    ASSUME AccessInv
    PROVE  /\ clock \in Nat /\ LastTime \in Nat
           /\ \A u \in Users : user[u] \in UserRows
           /\ \A n \in Nodes, u \in Users : asg[n][u] \in AssignmentRows
           /\ \A n \in Nodes : node[n].enabled \in BOOLEAN
           /\ \A n \in Nodes, u \in Users :
                EntryOK(user, asg, node, clock, n, u, pub[n].users[u])
BY AccessAssumption DEF AccessInv, RowsTypeOK, FlightOK, Published

\* A transaction about one user is sound if it is for that user.
LEMMA OneUser ==
    ASSUME AccessInv,
           NEW us \in [Users -> UserRows],
           NEW as \in [Nodes -> [Users -> AssignmentRows]],
           NEW nd \in [Nodes -> [enabled : BOOLEAN, archived : BOOLEAN]],
           NEW v \in Users, NEW kicks, NEW bumped, NEW now \in 0..clock,
           \A u \in Users : u # v => us[u] = user[u] /\ \A n \in Nodes : as[n][u] = asg[n][u],
           \A n \in Nodes : n \notin bumped => (nd[n].enabled => node[n].enabled),
           us[v].quota = quotaState(us[v].limit, us[v].used),
           us[v].enforced => us[v].expires <= clock,
           us[v].status = "none" => \A n \in Nodes : ~as[n][v].assigned,
           \A n \in Nodes : as[n][v].quota = quotaState(as[n][v].limit, as[n][v].used),
           \A n \in Nodes : n \notin bumped =>
                /\ EntryOK(us, as, nd, clock, n, v, pub[n].users[v])
                /\ us[v].enforced /\ us[v].status = "live" /\ as[n][v].assigned
                     => user[v].enforced,
           \A n \in Nodes, u \in Users : n \notin bumped => <<n, u>> \notin kicks,
           \A n \in Nodes :
                EntitledIn(user, asg, n, v) /\ ~EntitledIn(us, as, n, v) => <<n, v>> \in kicks
    PROVE  Sound(us, as, nd, kicks, bumped, now)
<1>1. RowsOK(us, as, clock)
    <2> SUFFICES ASSUME NEW u \in Users
                 PROVE  /\ us[u].quota = quotaState(us[u].limit, us[u].used)
                        /\ us[u].enforced => us[u].expires <= clock
                        /\ us[u].status = "none" => \A n \in Nodes : ~as[n][u].assigned
                        /\ \A n \in Nodes :
                             as[n][u].quota = quotaState(as[n][u].limit, as[n][u].used)
        BY Zenon DEF RowsOK
    <2>1. CASE u = v
        BY <2>1, Zenon
    <2>2. CASE u # v
        <3>1. us[u] = user[u] /\ \A n \in Nodes : as[n][u] = asg[n][u]
            BY <2>2, Zenon
        <3> QED BY <3>1, Zenon DEF AccessInv, RowsOK
    <2> QED BY <2>1, <2>2, Zenon
<1>2. ASSUME NEW n \in Nodes, n \notin bumped, NEW u \in Users
      PROVE  /\ EntryOK(us, as, nd, clock, n, u, pub[n].users[u])
             /\ us[u].enforced /\ us[u].status = "live" /\ as[n][u].assigned => user[u].enforced
    <2>1. CASE u = v
        BY <1>2, <2>1, Zenon
    <2>2. CASE u # v
        <3>1. us[u] = user[u] /\ as[n][u] = asg[n][u]
            BY <2>2, Zenon
        <3>2. EntryOK(us, as, nd, clock, n, u, pub[n].users[u])
            BY <1>2, <3>1, SameRows, RowFacts, Zenon
        <3> QED BY <3>1, <3>2, Zenon
    <2> QED BY <2>1, <2>2, Zenon
<1>3. ASSUME NEW n \in Nodes, NEW u \in Users,
             EntitledIn(user, asg, n, u), ~EntitledIn(us, as, n, u)
      PROVE  <<n, u>> \in kicks
    <2>1. u = v
        BY <1>3, Zenon DEF EntitledIn, Limited
    <2> QED BY <1>3, <2>1, Zenon
<1> QED BY <1>1, <1>2, <1>3, Zenon DEF Sound

----------------------------------------------------------------------------
(* Every transaction of the server is sound. *)

\* A row of users, put together from its fields.
LEMMA UserRowOf ==
    ASSUME NEW st \in {"none", "live", "archived"}, NEW e \in BOOLEAN, NEW x \in Expiries,
           NEW m \in BOOLEAN, NEW l \in Limits, NEW b \in Nat, NEW q \in QuotaStates
    PROVE  [status |-> st, enabled |-> e, expires |-> x, enforced |-> m, limit |-> l,
            used |-> b, quota |-> q] \in UserRows
BY DEF UserRows

\* A row of node_user_assignments, put together from its fields.
LEMMA AsgRowOf ==
    ASSUME NEW a \in BOOLEAN, NEW e \in BOOLEAN, NEW l \in Limits, NEW b \in Nat,
           NEW q \in QuotaStates
    PROVE  [assigned |-> a, enabled |-> e, limit |-> l, used |-> b, quota |-> q]
                \in AssignmentRows
BY DEF AssignmentRows

\* assignUserTx changes the rows it is asked to and computes their quota state.
LEMMA assignUserTxOK ==
    ASSUME AccessInv, NEW ns, NEW v \in Users, NEW l \in Limits
    PROVE  /\ assignUserTx(ns, v, l) \in [Nodes -> [Users -> AssignmentRows]]
           /\ \A n \in Nodes, u \in Users :
                u # v => assignUserTx(ns, v, l)[n][u] = asg[n][u]
           /\ \A n \in Nodes : n \notin ns => assignUserTx(ns, v, l)[n][v] = asg[n][v]
           /\ \A n \in Nodes :
                assignUserTx(ns, v, l)[n][v].quota
                    = quotaState(assignUserTx(ns, v, l)[n][v].limit,
                                 assignUserTx(ns, v, l)[n][v].used)
<1> DEFINE R(n) == [assigned |-> TRUE, enabled |-> TRUE, limit |-> l,
                    used |-> asg[n][v].used, quota |-> quotaState(l, asg[n][v].used)]
           F(n) == IF n \in ns THEN [asg[n] EXCEPT ![v] = R(n)] ELSE asg[n]
<1>1. assignUserTx(ns, v, l) = [n \in Nodes |-> F(n)]
    BY DEF assignUserTx
<1>2. ASSUME NEW n \in Nodes
      PROVE  /\ F(n) \in [Users -> AssignmentRows]
             /\ \A u \in Users : u # v => F(n)[u] = asg[n][u]
             /\ n \notin ns => F(n)[v] = asg[n][v]
             /\ F(n)[v].quota = quotaState(F(n)[v].limit, F(n)[v].used)
    <2>1. asg[n] \in [Users -> AssignmentRows] /\ asg[n][v] \in AssignmentRows
        BY DEF AccessInv, RowsTypeOK
    <2>2. asg[n][v].used \in Nat /\ l \in Nat
        BY <2>1, AsgRowType, LimitsNat
    <2>3. quotaState(l, asg[n][v].used) \in QuotaStates
        BY <2>2, quotaStateType
    <2>4. R(n) \in AssignmentRows
        BY <2>2, <2>3, AsgRowOf, Zenon
    <2>5. R(n).quota = quotaState(R(n).limit, R(n).used)
        OBVIOUS
    <2>6. asg[n][v].quota = quotaState(asg[n][v].limit, asg[n][v].used)
        BY Zenon DEF AccessInv, RowsOK
    <2> HIDE DEF R
    <2>7. CASE n \in ns
        <3>1. F(n) = [asg[n] EXCEPT ![v] = R(n)]
            BY <2>7
        <3> HIDE DEF F
        <3>2. F(n)[v] = R(n) /\ F(n) \in [Users -> AssignmentRows]
            BY <2>1, <2>4, <3>1
        <3>3. \A u \in Users : u # v => F(n)[u] = asg[n][u]
            BY <2>1, <3>1
        <3> QED BY <2>5, <2>7, <3>2, <3>3, Zenon
    <2>8. CASE n \notin ns
        <3>1. F(n) = asg[n]
            BY <2>8
        <3> HIDE DEF F
        <3> QED BY <2>1, <2>6, <3>1, Zenon
    <2> QED BY <2>7, <2>8, Zenon
<1>3. \A n \in Nodes : assignUserTx(ns, v, l)[n] = F(n)
    BY <1>1, Zenon
<1> HIDE DEF F
<1>4. assignUserTx(ns, v, l) \in [Nodes -> [Users -> AssignmentRows]]
    BY <1>1, <1>2
<1> QED BY <1>2, <1>3, <1>4, Zenon

\* CreateUser publishes every node the new user is assigned to.
LEMMA CreateUserSound ==
    ASSUME AccessInv, NEW v \in Users, NEW ns, NEW e \in BOOLEAN, NEW x \in Expiries,
           NEW l \in Limits, NEW now \in 0..clock, user[v].status = "none"
    PROVE  Sound([user EXCEPT ![v] = [status |-> "live", enabled |-> e, expires |-> x,
                                     enforced |-> x <= now, limit |-> l, used |-> 0,
                                     quota |-> quotaState(l, 0)]],
                 assignUserTx(ns, v, 0), node, {}, ns, now)
<1> DEFINE r == [status |-> "live", enabled |-> e, expires |-> x, enforced |-> x <= now,
                 limit |-> l, used |-> 0, quota |-> quotaState(l, 0)]
           us == [user EXCEPT ![v] = r]
           as == assignUserTx(ns, v, 0)
<1>1. user \in [Users -> UserRows] /\ clock \in Nat /\ x \in Nat /\ l \in Nat /\ now \in Nat
    BY RowFacts, NeverType, LimitsNat DEF AccessInv, RowsTypeOK
<1>2. r \in UserRows
    <2>1. quotaState(l, 0) \in QuotaStates /\ (x <= now) \in BOOLEAN
        BY <1>1, quotaStateType
    <2> QED BY <2>1, UserRowOf, Zenon
<1>3. /\ r.status = "live" /\ r.expires = x /\ (r.enforced <=> x <= now)
      /\ r.quota = quotaState(r.limit, r.used)
    BY Zenon
<1> HIDE DEF r
<1>4. us \in [Users -> UserRows] /\ us[v] = r /\ \A u \in Users : u # v => us[u] = user[u]
    BY <1>1, <1>2
<1> HIDE DEF us
<1>5. /\ as \in [Nodes -> [Users -> AssignmentRows]]
      /\ \A n \in Nodes, u \in Users : u # v => as[n][u] = asg[n][u]
      /\ \A n \in Nodes : n \notin ns => as[n][v] = asg[n][v]
      /\ \A n \in Nodes : as[n][v].quota = quotaState(as[n][v].limit, as[n][v].used)
    <2>1. 0 \in Limits
        BY LimitsNat
    <2>2. as \in [Nodes -> [Users -> AssignmentRows]]
        BY <2>1, assignUserTxOK, Zenon
    <2>3. ASSUME NEW n \in Nodes, NEW u \in Users, u # v PROVE as[n][u] = asg[n][u]
        BY <2>1, <2>3, assignUserTxOK
    <2>4. ASSUME NEW n \in Nodes, n \notin ns PROVE as[n][v] = asg[n][v]
        BY <2>1, <2>4, assignUserTxOK
    <2>5. ASSUME NEW n \in Nodes
          PROVE  as[n][v].quota = quotaState(as[n][v].limit, as[n][v].used)
        BY <2>1, assignUserTxOK
    <2> HIDE DEF as
    <2> QED BY <2>2, <2>3, <2>4, <2>5, Zenon
<1> HIDE DEF as
<1>6. \A n \in Nodes : ~asg[n][v].assigned
    BY Zenon DEF AccessInv, RowsOK
<1>7. node \in [Nodes -> [enabled : BOOLEAN, archived : BOOLEAN]]
    BY DEF AccessInv, RowsTypeOK
<1>8. us[v].enforced => us[v].expires <= clock
    BY <1>1, <1>3, <1>4
<1>9. ASSUME NEW n \in Nodes, n \notin ns
      PROVE  /\ EntryOK(us, as, node, clock, n, v, pub[n].users[v])
             /\ ~as[n][v].assigned
    <2>1. ~asg[n][v].assigned /\ ~as[n][v].assigned
        BY <1>5, <1>6, <1>9, Zenon
    <2>2. EntryOK(user, asg, node, clock, n, v, pub[n].users[v])
        BY RowFacts
    <2> QED BY <2>1, <2>2, EntryGone, Zenon
<1>10. \A n \in Nodes : ~EntitledIn(user, asg, n, v)
    BY Zenon DEF EntitledIn
<1>11. us[v].status # "none" /\ us[v].quota = quotaState(us[v].limit, us[v].used)
    BY <1>3, <1>4
<1>12. Sound(us, as, node, {}, ns, now)
    BY <1>4, <1>5, <1>7, <1>8, <1>9, <1>10, <1>11, OneUser, Zenon
<1> QED BY <1>12, Zenon DEF us, as, r

\* The row updateUserTx writes.
LEMMA UpdatedUserOK ==
    ASSUME AccessInv, NEW v \in Users, NEW e \in BOOLEAN, NEW x \in Expiries,
           NEW l \in Limits, NEW now \in 0..clock
    PROVE  /\ UpdatedUser(v, e, x, l, now) \in UserRows
           /\ UpdatedUser(v, e, x, l, now).status = user[v].status
           /\ UpdatedUser(v, e, x, l, now).enabled = e
           /\ UpdatedUser(v, e, x, l, now).expires = x
           /\ UpdatedUser(v, e, x, l, now).enforced <=> x <= now
           /\ UpdatedUser(v, e, x, l, now).quota
                = quotaState(UpdatedUser(v, e, x, l, now).limit,
                             UpdatedUser(v, e, x, l, now).used)
<1> DEFINE q == quotaState(l, user[v].used)
           m == x <= now
           r == [user[v] EXCEPT !.enabled = e, !.expires = x, !.enforced = m, !.limit = l,
                                !.quota = q]
<1>1. user[v] \in UserRows
    BY RowFacts
<1>2. user[v].used \in Nat /\ l \in Nat
    BY <1>1, UserRowType, LimitsNat
<1>3. q \in QuotaStates /\ m \in BOOLEAN
    BY <1>2, quotaStateType
<1>4. UpdatedUser(v, e, x, l, now) = r
    BY DEF UpdatedUser
<1> HIDE DEF q, m
<1>5. /\ r \in UserRows /\ r.status = user[v].status /\ r.enabled = e /\ r.expires = x
      /\ r.enforced = m /\ r.limit = l /\ r.used = user[v].used /\ r.quota = q
    BY <1>1, <1>3, Zenon DEF UserRows
<1> HIDE DEF r
<1> QED BY <1>4, <1>5, Zenon DEF q, m

\* updateUserTx publishes every node of the user and kicks from those the user
\* loses.
LEMMA UpdateUserSound ==
    ASSUME AccessInv, NEW v \in Users, NEW e \in BOOLEAN, NEW x \in Expiries,
           NEW l \in Limits, NEW now \in 0..clock, user[v].status = "live"
    PROVE  LET us == [user EXCEPT ![v] = UpdatedUser(v, e, x, l, now)] IN
           Sound(us, asg, node, UpdateKicks(v, us, now) \X {v}, assignmentNodeIDs(asg, v), now)
<1> DEFINE r == UpdatedUser(v, e, x, l, now)
           us == [user EXCEPT ![v] = r]
           ns == assignmentNodeIDs(asg, v)
           kicks == UpdateKicks(v, us, now) \X {v}
<1>1. /\ user \in [Users -> UserRows] /\ clock \in Nat /\ x \in Nat /\ now \in Nat
      /\ asg \in [Nodes -> [Users -> AssignmentRows]]
      /\ node \in [Nodes -> [enabled : BOOLEAN, archived : BOOLEAN]]
    BY RowFacts, NeverType DEF AccessInv, RowsTypeOK
<1>2. /\ r \in UserRows /\ r.status = "live" /\ r.enabled = e /\ r.expires = x
      /\ r.enforced <=> x <= now
      /\ r.quota = quotaState(r.limit, r.used)
    BY UpdatedUserOK
<1> HIDE DEF r
<1>3. us \in [Users -> UserRows] /\ us[v] = r /\ \A u \in Users : u # v => us[u] = user[u]
    BY <1>1, <1>2
<1> HIDE DEF us
<1>4. us[v].enforced => us[v].expires <= clock
    BY <1>1, <1>2, <1>3
<1>5. \A n \in Nodes : asg[n][v].quota = quotaState(asg[n][v].limit, asg[n][v].used)
    BY Zenon DEF AccessInv, RowsOK
<1>6. ASSUME NEW n \in Nodes, n \notin ns
      PROVE  /\ EntryOK(us, asg, node, clock, n, v, pub[n].users[v])
             /\ ~asg[n][v].assigned
    <2>1. ~asg[n][v].assigned
        BY <1>6 DEF assignmentNodeIDs
    <2>2. EntryOK(user, asg, node, clock, n, v, pub[n].users[v])
        BY RowFacts
    <2> QED BY <2>1, <2>2, EntryGone, Zenon
<1>7. \A n \in Nodes, u \in Users : n \notin ns => <<n, u>> \notin kicks
    BY DEF UpdateKicks
<1>8. ASSUME NEW n \in Nodes, EntitledIn(user, asg, n, v), ~EntitledIn(us, asg, n, v)
      PROVE  <<n, v>> \in kicks
    <2>1. n \in ns
        BY <1>8, Zenon DEF EntitledIn, assignmentNodeIDs
    <2>2. us[v].status = "live" /\ us[v].expires = x /\ (us[v].enforced <=> x <= now)
        BY <1>2, <1>3, Zenon
    <2>3. \/ user[v].enabled /\ ~us[v].enabled
          \/ us[v].expires <= now /\ ~user[v].enforced
          \/ ~Limited(user, asg, n, v) /\ Limited(us, asg, n, v)
        BY <1>8, <2>2, Zenon DEF EntitledIn
    <2>4. n \in UpdateKicks(v, us, now)
        BY <2>1, <2>3 DEF UpdateKicks
    <2> QED BY <2>4
<1>9. us[v].status # "none" /\ us[v].quota = quotaState(us[v].limit, us[v].used)
    BY <1>2, <1>3
<1> HIDE DEF kicks, ns
<1>10. Sound(us, asg, node, kicks, ns, now)
    BY <1>1, <1>3, <1>4, <1>5, <1>6, <1>7, <1>8, <1>9, OneUser, Zenon
<1> QED BY <1>10 DEF us, r, kicks, ns

\* ArchiveUser publishes and kicks from every node of the user.
LEMMA ArchiveUserSound ==
    ASSUME AccessInv, NEW v \in Users, NEW now \in 0..clock, user[v].status = "live"
    PROVE  Sound([user EXCEPT ![v].enabled = FALSE, ![v].status = "archived"], asg, node,
                 assignmentNodeIDs(asg, v) \X {v}, assignmentNodeIDs(asg, v), now)
<1> DEFINE r == [user[v] EXCEPT !.enabled = FALSE, !.status = "archived"]
           us == [user EXCEPT ![v] = r]
           ns == assignmentNodeIDs(asg, v)
           kicks == ns \X {v}
<1>0. [user EXCEPT ![v].enabled = FALSE, ![v].status = "archived"] = us
    BY Zenon DEF AccessInv, RowsTypeOK
<1>1. /\ user \in [Users -> UserRows] /\ user[v] \in UserRows
      /\ asg \in [Nodes -> [Users -> AssignmentRows]]
      /\ node \in [Nodes -> [enabled : BOOLEAN, archived : BOOLEAN]]
    BY RowFacts, Zenon DEF AccessInv, RowsTypeOK
<1>2. /\ r \in UserRows /\ r.status = "archived" /\ r.expires = user[v].expires
      /\ r.enforced = user[v].enforced
      /\ r.limit = user[v].limit /\ r.used = user[v].used /\ r.quota = user[v].quota
    BY <1>1, Zenon DEF UserRows
<1> HIDE DEF r
<1>3. us \in [Users -> UserRows] /\ us[v] = r /\ \A u \in Users : u # v => us[u] = user[u]
    BY <1>1, <1>2
<1> HIDE DEF us
<1>4. /\ us[v].quota = quotaState(us[v].limit, us[v].used)
      /\ us[v].enforced => us[v].expires <= clock
      /\ us[v].status = "archived"
      /\ \A n \in Nodes : asg[n][v].quota = quotaState(asg[n][v].limit, asg[n][v].used)
    BY <1>2, <1>3, Zenon DEF AccessInv, RowsOK
<1>5. us[v].status # "none" /\ us[v].status # "live"
    BY <1>4
<1>6. ASSUME NEW n \in Nodes, n \notin ns
      PROVE  EntryOK(us, asg, node, clock, n, v, pub[n].users[v])
    <2>1. ~asg[n][v].assigned
        BY <1>6 DEF assignmentNodeIDs
    <2>2. EntryOK(user, asg, node, clock, n, v, pub[n].users[v])
        BY RowFacts
    <2> QED BY <2>1, <2>2, EntryGone, Zenon
<1>7. \A n \in Nodes, u \in Users : n \notin ns => <<n, u>> \notin kicks
    OBVIOUS
<1>8. ASSUME NEW n \in Nodes, EntitledIn(user, asg, n, v) PROVE <<n, v>> \in kicks
    BY <1>8 DEF EntitledIn, assignmentNodeIDs
<1> HIDE DEF kicks, ns
<1>9. Sound(us, asg, node, kicks, ns, now)
    BY <1>1, <1>3, <1>4, <1>5, <1>6, <1>7, <1>8, OneUser, Zenon
<1> QED BY <1>0, <1>9, Zenon DEF kicks, ns

\* Rows that stay, and nodes that are published, switched on or off
LEMMA SameRowsSound ==
    ASSUME AccessInv, NEW now \in 0..clock, NEW kicks, NEW bumped,
           NEW nd \in [Nodes -> [enabled : BOOLEAN, archived : BOOLEAN]],
           \A n \in Nodes : n \notin bumped => (nd[n].enabled => node[n].enabled),
           \A n \in Nodes, u \in Users : n \notin bumped => <<n, u>> \notin kicks
    PROVE  Sound(user, asg, nd, kicks, bumped, now)
<1>1. /\ user \in [Users -> UserRows]
      /\ asg \in [Nodes -> [Users -> AssignmentRows]]
      /\ RowsOK(user, asg, clock)
    BY DEF AccessInv, RowsTypeOK
<1>2. ASSUME NEW n \in Nodes, n \notin bumped, NEW u \in Users
      PROVE  EntryOK(user, asg, nd, clock, n, u, pub[n].users[u])
    BY <1>2, RowFacts, SameRows, Zenon
<1> QED BY <1>1, <1>2, Zenon DEF Sound

\* A transaction about one assignment
LEMMA OneAssignment ==
    ASSUME AccessInv, NEW m \in Nodes, NEW v \in Users, NEW now \in 0..clock, NEW kicks,
           NEW as \in [Nodes -> [Users -> AssignmentRows]],
           \A n \in Nodes, u \in Users : n # m \/ u # v => as[n][u] = asg[n][u],
           as[m][v].quota = quotaState(as[m][v].limit, as[m][v].used),
           user[v].status = "none" => ~as[m][v].assigned,
           \A n \in Nodes, u \in Users : n # m => <<n, u>> \notin kicks,
           EntitledIn(user, asg, m, v) /\ ~EntitledIn(user, as, m, v) => <<m, v>> \in kicks
    PROVE  Sound(user, as, node, kicks, {m}, now)
<1>1. /\ user \in [Users -> UserRows]
      /\ node \in [Nodes -> [enabled : BOOLEAN, archived : BOOLEAN]]
    BY Zenon DEF AccessInv, RowsTypeOK
<1>2. /\ user[v].quota = quotaState(user[v].limit, user[v].used)
      /\ user[v].enforced => user[v].expires <= clock
      /\ user[v].status = "none" => \A n \in Nodes : ~as[n][v].assigned
      /\ \A n \in Nodes : as[n][v].quota = quotaState(as[n][v].limit, as[n][v].used)
    BY Zenon DEF AccessInv, RowsOK
<1>3. ASSUME NEW n \in Nodes, n \notin {m}
      PROVE  EntryOK(user, as, node, clock, n, v, pub[n].users[v])
    <2>1. as[n][v] = asg[n][v]
        BY <1>3, Zenon
    <2> QED BY <2>1, RowFacts, SameRows, Zenon
<1>4. ASSUME NEW n \in Nodes, EntitledIn(user, asg, n, v), ~EntitledIn(user, as, n, v)
      PROVE  <<n, v>> \in kicks
    <2>1. n = m
        BY <1>4, Zenon DEF EntitledIn, Limited
    <2> QED BY <1>4, <2>1, Zenon
<1>5. \A u \in Users : u # v => \A n \in Nodes : as[n][u] = asg[n][u]
    BY Zenon
<1>6. \A n \in Nodes, u \in Users : n \notin {m} => <<n, u>> \notin kicks
    BY Zenon
<1> QED BY <1>1, <1>2, <1>3, <1>4, <1>5, <1>6, OneUser, Zenon

\* AssignUser publishes the node.
LEMMA AssignUserSound ==
    ASSUME AccessInv, NEW m \in Nodes, NEW v \in Users, NEW l \in Limits,
           NEW now \in 0..clock, user[v].status = "live", ~asg[m][v].assigned
    PROVE  Sound(user, assignUserTx({m}, v, l), node, {}, {m}, now)
<1> DEFINE as == assignUserTx({m}, v, l)
<1>1. as \in [Nodes -> [Users -> AssignmentRows]]
    BY assignUserTxOK, Zenon
<1>2. ASSUME NEW n \in Nodes, NEW u \in Users, n # m \/ u # v PROVE as[n][u] = asg[n][u]
    <2>1. CASE u # v
        BY <2>1, assignUserTxOK
    <2>2. CASE u = v
        <3>1. n \notin {m}
            BY <1>2, <2>2
        <3>2. as[n][v] = asg[n][v]
            BY <3>1, assignUserTxOK
        <3> QED BY <2>2, <3>2
    <2> QED BY <2>1, <2>2
<1>3. as[m][v].quota = quotaState(as[m][v].limit, as[m][v].used)
    BY assignUserTxOK
<1> HIDE DEF as
<1>4. ~EntitledIn(user, asg, m, v)
    BY Zenon DEF EntitledIn
<1>5. Sound(user, as, node, {}, {m}, now)
    BY <1>1, <1>2, <1>3, <1>4, OneAssignment, Zenon
<1> QED BY <1>5 DEF as

\* Changing one assignment leaves the others as they are.
LEMMA AsgExcept ==
    ASSUME AccessInv, NEW m \in Nodes, NEW v \in Users, NEW r \in AssignmentRows
    PROVE  /\ [asg EXCEPT ![m][v] = r] \in [Nodes -> [Users -> AssignmentRows]]
           /\ [asg EXCEPT ![m][v] = r][m][v] = r
           /\ \A n \in Nodes, u \in Users :
                n # m \/ u # v => [asg EXCEPT ![m][v] = r][n][u] = asg[n][u]
BY DEF AccessInv, RowsTypeOK

\* UnassignUser publishes the node and kicks the user.
LEMMA UnassignUserSound ==
    ASSUME AccessInv, NEW m \in Nodes, NEW v \in Users, NEW now \in 0..clock
    PROVE  Sound(user, [asg EXCEPT ![m][v].assigned = FALSE], node, {<<m, v>>}, {m}, now)
<1> DEFINE r == [asg[m][v] EXCEPT !.assigned = FALSE]
           as == [asg EXCEPT ![m][v] = r]
<1>1. asg[m][v] \in AssignmentRows
    BY RowFacts
<1>2. /\ r \in AssignmentRows /\ ~r.assigned
      /\ r.limit = asg[m][v].limit /\ r.used = asg[m][v].used /\ r.quota = asg[m][v].quota
    BY <1>1, Zenon DEF AssignmentRows
<1>3. [asg EXCEPT ![m][v].assigned = FALSE] = as
    BY DEF AccessInv, RowsTypeOK
<1> HIDE DEF r
<1>4. /\ as \in [Nodes -> [Users -> AssignmentRows]] /\ as[m][v] = r
      /\ \A n \in Nodes, u \in Users : n # m \/ u # v => as[n][u] = asg[n][u]
    BY <1>2, AsgExcept
<1> HIDE DEF as
<1>5. asg[m][v].quota = quotaState(asg[m][v].limit, asg[m][v].used)
    BY Zenon DEF AccessInv, RowsOK
<1>6. as[m][v].quota = quotaState(as[m][v].limit, as[m][v].used) /\ ~as[m][v].assigned
    BY <1>2, <1>4, <1>5, Zenon
<1>7. \A n \in Nodes, u \in Users : n # m => <<n, u>> \notin {<<m, v>>}
    OBVIOUS
<1>8. Sound(user, as, node, {<<m, v>>}, {m}, now)
    BY <1>4, <1>6, <1>7, OneAssignment, Zenon
<1> QED BY <1>3, <1>8, Zenon

\* UpdateAssignment publishes the node, and kicks a user who loses it.
LEMMA UpdateAssignmentSound ==
    ASSUME AccessInv, NEW m \in Nodes, NEW v \in Users, NEW e \in BOOLEAN, NEW l \in Limits,
           NEW now \in 0..clock, asg[m][v].assigned
    PROVE  LET as == [asg EXCEPT ![m][v].enabled = e, ![m][v].limit = l,
                                 ![m][v].quota = quotaState(l, asg[m][v].used)]
               kicked == \/ asg[m][v].enabled /\ ~e
                         \/ ~Limited(user, asg, m, v) /\ Limited(user, as, m, v)
           IN Sound(user, as, node, IF kicked THEN {<<m, v>>} ELSE {}, {m}, now)
<1> DEFINE q == quotaState(l, asg[m][v].used)
           r == [asg[m][v] EXCEPT !.enabled = e, !.limit = l, !.quota = q]
           as == [asg EXCEPT ![m][v] = r]
           kicked == \/ asg[m][v].enabled /\ ~e
                     \/ ~Limited(user, asg, m, v) /\ Limited(user, as, m, v)
           kicks == IF kicked THEN {<<m, v>>} ELSE {}
<1>1. asg[m][v] \in AssignmentRows
    BY RowFacts
<1>2. q \in QuotaStates
    BY <1>1, AsgRowType, LimitsNat, quotaStateType
<1>3. [asg EXCEPT ![m][v].enabled = e, ![m][v].limit = l,
                  ![m][v].quota = quotaState(l, asg[m][v].used)] = as
    BY Zenon DEF AccessInv, RowsTypeOK
<1> HIDE DEF q
<1>4. /\ r \in AssignmentRows /\ r.assigned = asg[m][v].assigned /\ r.enabled = e
      /\ r.limit = l /\ r.used = asg[m][v].used /\ r.quota = q
    BY <1>1, <1>2, Zenon DEF AssignmentRows
<1> HIDE DEF r
<1>5. /\ as \in [Nodes -> [Users -> AssignmentRows]] /\ as[m][v] = r
      /\ \A n \in Nodes, u \in Users : n # m \/ u # v => as[n][u] = asg[n][u]
    BY <1>4, AsgExcept
<1> HIDE DEF as
<1>6. /\ as[m][v].quota = quotaState(as[m][v].limit, as[m][v].used)
      /\ as[m][v].assigned = asg[m][v].assigned /\ as[m][v].enabled = e
    BY <1>4, <1>5, Zenon DEF q
<1>7. user[v].status # "none"
    BY Zenon DEF AccessInv, RowsOK
<1>8. \A n \in Nodes, u \in Users : n # m => <<n, u>> \notin kicks
    BY Zenon
<1>9. EntitledIn(user, asg, m, v) /\ ~EntitledIn(user, as, m, v) => kicked
    BY <1>6, Zenon DEF EntitledIn
<1>10. kicked => <<m, v>> \in kicks
    BY Zenon
<1> HIDE DEF kicked, kicks
<1>11. Sound(user, as, node, kicks, {m}, now)
    BY <1>5, <1>6, <1>7, <1>8, <1>9, <1>10, OneAssignment, Zenon
<1> QED BY <1>3, <1>11, Zenon DEF kicks, kicked

\* UpdateAssignment is one sound transaction.
LEMMA UpdateAssignmentCommits ==
    ASSUME AccessInv, NEW m \in Nodes, NEW v \in Users, NEW e \in BOOLEAN, NEW l \in Limits,
           NEW now \in 0..clock, UpdateAssignment(v, m, e, l, now)
    PROVE  \E as, kicks : /\ Sound(user, as, node, kicks, {m}, now)
                          /\ Commit(user, as, node, kicks, {m}, now)
<1> DEFINE as == [asg EXCEPT ![m][v].enabled = e, ![m][v].limit = l,
                             ![m][v].quota = quotaState(l, asg[m][v].used)]
           kicked == \/ asg[m][v].enabled /\ ~e
                     \/ ~Limited(user, asg, m, v) /\ Limited(user, as, m, v)
           kicks == IF kicked THEN {<<m, v>>} ELSE {}
<1>1. asg[m][v].assigned /\ Commit(user, as, node, kicks, {m}, now)
    BY Zenon DEF UpdateAssignment
<1>2. Sound(user, as, node, kicks, {m}, now)
    BY <1>1, UpdateAssignmentSound, Zenon
<1> HIDE DEF as, kicks
<1> QED BY <1>1, <1>2, Zenon

\* Traffic never lifts a limit.
LEMMA quotaStateGrows ==
    ASSUME NEW l \in Nat, NEW b \in Nat, quotaState(l, b) = "limited"
    PROVE  quotaState(l, b + 1) = "limited"
BY DEF quotaState

\* IngestTrafficBatch kicks from, and publishes, every node on which the user
\* becomes limited; the entries of the other nodes stay right.
LEMMA IngestTrafficSound ==
    ASSUME AccessInv, NEW m \in Nodes, NEW v \in Users, NEW now \in 0..clock,
           user[v].status = "live", asg[m][v].assigned
    PROVE  LET us == [user EXCEPT ![v].used = @ + 1,
                                  ![v].quota = quotaState(user[v].limit, user[v].used + 1)]
               as == [asg EXCEPT ![m][v].used = @ + 1,
                                 ![m][v].quota = quotaState(asg[m][v].limit, asg[m][v].used + 1)]
               limited == {n \in Nodes : ~Limited(user, asg, n, v) /\ Limited(us, as, n, v)}
           IN Sound(us, as, node, limited \X {v}, limited, now)
<1> DEFINE p == quotaState(user[v].limit, user[v].used + 1)
           q == quotaState(asg[m][v].limit, asg[m][v].used + 1)
           r == [user[v] EXCEPT !.used = user[v].used + 1, !.quota = p]
           t == [asg[m][v] EXCEPT !.used = asg[m][v].used + 1, !.quota = q]
           us == [user EXCEPT ![v] = r]
           as == [asg EXCEPT ![m][v] = t]
           limited == {n \in Nodes : ~Limited(user, asg, n, v) /\ Limited(us, as, n, v)}
           kicks == limited \X {v}
<1>1. /\ user[v] \in UserRows /\ asg[m][v] \in AssignmentRows
      /\ user[v].limit \in Nat /\ user[v].used \in Nat
      /\ asg[m][v].limit \in Nat /\ asg[m][v].used \in Nat
    BY RowFacts, UserRowType, AsgRowType, LimitsNat, Zenon
<1>2. /\ p \in QuotaStates /\ q \in QuotaStates
      /\ user[v].used + 1 \in Nat /\ asg[m][v].used + 1 \in Nat
    BY <1>1, quotaStateType
<1>3. /\ user[v].quota = quotaState(user[v].limit, user[v].used)
      /\ \A n \in Nodes : asg[n][v].quota = quotaState(asg[n][v].limit, asg[n][v].used)
    BY Zenon DEF AccessInv, RowsOK
<1>4. /\ user[v].quota = "limited" => p = "limited"
      /\ asg[m][v].quota = "limited" => q = "limited"
    BY <1>1, <1>3, quotaStateGrows
<1>5. /\ [user EXCEPT ![v].used = @ + 1,
                     ![v].quota = quotaState(user[v].limit, user[v].used + 1)] = us
      /\ [asg EXCEPT ![m][v].used = @ + 1,
                    ![m][v].quota = quotaState(asg[m][v].limit, asg[m][v].used + 1)] = as
    BY Zenon DEF AccessInv, RowsTypeOK
<1>6. r.limit = user[v].limit /\ r.used = user[v].used + 1 /\ r.quota = p
    BY <1>1, Zenon DEF UserRows
<1>7. t.limit = asg[m][v].limit /\ t.used = asg[m][v].used + 1 /\ t.quota = q
    BY <1>1, Zenon DEF AssignmentRows
<1>8. r.quota = quotaState(r.limit, r.used) /\ t.quota = quotaState(t.limit, t.used)
    BY <1>6, <1>7, Zenon
<1> HIDE DEF p, q
<1>9. /\ r \in UserRows /\ r.status = user[v].status /\ r.enabled = user[v].enabled
      /\ r.expires = user[v].expires /\ r.enforced = user[v].enforced
    BY <1>1, <1>2, Zenon DEF UserRows
<1>10. /\ t \in AssignmentRows /\ t.assigned = asg[m][v].assigned
       /\ t.enabled = asg[m][v].enabled
    BY <1>1, <1>2, Zenon DEF AssignmentRows
<1> HIDE DEF r, t
<1>11. us \in [Users -> UserRows] /\ us[v] = r /\ \A u \in Users : u # v => us[u] = user[u]
    BY <1>9 DEF AccessInv, RowsTypeOK
<1>12. /\ as \in [Nodes -> [Users -> AssignmentRows]] /\ as[m][v] = t
       /\ \A n \in Nodes, u \in Users : n # m \/ u # v => as[n][u] = asg[n][u]
    BY <1>10, AsgExcept
<1> HIDE DEF us, as
<1>13. ASSUME NEW n \in Nodes
       PROVE  /\ as[n][v].assigned = asg[n][v].assigned /\ as[n][v].enabled = asg[n][v].enabled
              /\ asg[n][v].quota = "limited" => as[n][v].quota = "limited"
              /\ as[n][v].quota = quotaState(as[n][v].limit, as[n][v].used)
    <2>1. CASE n = m
        BY <1>4, <1>7, <1>8, <1>10, <1>12, <2>1, Zenon
    <2>2. CASE n # m
        <3>1. as[n][v] = asg[n][v]
            BY <1>12, <2>2, Zenon
        <3> QED BY <1>3, <3>1, Zenon
    <2> QED BY <2>1, <2>2, Zenon
<1>14. ASSUME NEW n \in Nodes, Limited(user, asg, n, v) PROVE Limited(us, as, n, v)
    BY <1>4, <1>6, <1>9, <1>11, <1>13, <1>14, Zenon DEF Limited
<1>15. ASSUME NEW n \in Nodes, n \notin limited
       PROVE  EntryOK(us, as, node, clock, n, v, pub[n].users[v])
    <2>1. Limited(us, as, n, v) <=> Limited(user, asg, n, v)
        BY <1>14, <1>15, Zenon
    <2>2. EntryOK(user, asg, node, clock, n, v, pub[n].users[v])
        BY RowFacts, Zenon
    <2>3. /\ us[v].status = user[v].status /\ us[v].expires = user[v].expires
          /\ us[v].enabled <=> user[v].enabled
        BY <1>9, <1>11, Zenon
    <2>4. /\ as[n][v].assigned <=> asg[n][v].assigned
          /\ as[n][v].enabled <=> asg[n][v].enabled
        BY <1>13, Zenon
    <2> QED BY <2>1, <2>2, <2>3, <2>4, EntryKept, Zenon
<1>16. ASSUME NEW n \in Nodes, EntitledIn(user, asg, n, v), ~EntitledIn(us, as, n, v)
       PROVE  <<n, v>> \in kicks
    <2>1. ~Limited(user, asg, n, v) /\ Limited(us, as, n, v)
        BY <1>9, <1>11, <1>13, <1>16, Zenon DEF EntitledIn
    <2> QED BY <2>1, Zenon
<1>17. \A n \in Nodes, u \in Users : n \notin limited => <<n, u>> \notin kicks
    BY Zenon
<1> HIDE DEF limited, kicks
<1>18. /\ us[v].quota = quotaState(us[v].limit, us[v].used)
       /\ us[v].status # "none" /\ (us[v].enforced => user[v].enforced)
       /\ us[v].enforced => us[v].expires <= clock
    BY <1>8, <1>9, <1>11, Zenon DEF AccessInv, RowsOK
<1>19. node \in [Nodes -> [enabled : BOOLEAN, archived : BOOLEAN]]
    BY DEF AccessInv, RowsTypeOK
<1>20. \A u \in Users : u # v => us[u] = user[u] /\ \A n \in Nodes : as[n][u] = asg[n][u]
    BY <1>11, <1>12, Zenon
<1>21. us \in [Users -> UserRows] /\ as \in [Nodes -> [Users -> AssignmentRows]]
    BY <1>11, <1>12, Zenon
<1>22. \A n \in Nodes : as[n][v].quota = quotaState(as[n][v].limit, as[n][v].used)
    BY <1>13, Zenon
<1>23. Sound(us, as, node, kicks, limited, now)
    BY <1>15, <1>16, <1>17, <1>18, <1>19, <1>20, <1>21, <1>22, OneUser, Zenon
<1> QED BY <1>5, <1>23, Zenon DEF kicks, limited

\* The time and the users of a maintenance cycle.
LEMMA SweepType ==
    ASSUME AccessInv, sweep.on
    PROVE  sweep.now \in 0..clock /\ sweep.users \subseteq Users
<1>1. sweep # NoSweep
    BY DEF NoSweep
<1>2. sweep \in Sweeps /\ sweep.now <= clock /\ clock \in Nat
    BY <1>1, RowFacts, Zenon DEF AccessInv, FlightOK
<1>3. sweep.now \in 0..LastTime /\ sweep.users \in SUBSET Users /\ LastTime \in Nat
    BY <1>2, RowFacts DEF Sweeps
<1> QED BY <1>2, <1>3

\* EnforceExpiredUsers kicks from, and publishes, every node of those it marks.
LEMMA MarkExpiredSound ==
    ASSUME AccessInv, sweep.on
    PROVE  Sound([u \in Users |-> IF u \in Marked THEN [user[u] EXCEPT !.enforced = TRUE]
                                  ELSE user[u]],
                 asg, node, MarkedPairs, MarkedNodes, sweep.now)
<1> DEFINE R(u) == IF u \in Marked THEN [user[u] EXCEPT !.enforced = TRUE] ELSE user[u]
           us == [u \in Users |-> R(u)]
<1>1. sweep.now \in 0..clock /\ Marked \subseteq Users /\ clock \in Nat
    BY SweepType, RowFacts DEF Marked
<1>2. ASSUME NEW u \in Users
      PROVE  /\ R(u) \in UserRows /\ R(u).status = user[u].status
             /\ R(u).expires = user[u].expires /\ R(u).limit = user[u].limit
             /\ R(u).used = user[u].used /\ R(u).quota = user[u].quota
             /\ R(u).enabled = user[u].enabled
             /\ R(u).enforced = (user[u].enforced \/ u \in Marked)
    <2>1. user[u] \in UserRows
        BY RowFacts
    <2> QED BY <2>1, Zenon DEF UserRows
<1>3. us \in [Users -> UserRows] /\ \A u \in Users : us[u] = R(u)
    BY <1>2, Zenon
<1> HIDE DEF R
<1> HIDE DEF us
<1>4. ASSUME NEW u \in Users
      PROVE  /\ us[u].status = user[u].status /\ us[u].expires = user[u].expires
             /\ us[u].limit = user[u].limit /\ us[u].used = user[u].used
             /\ us[u].quota = user[u].quota /\ (us[u].enabled <=> user[u].enabled)
             /\ us[u].enforced <=> (user[u].enforced \/ u \in Marked)
    BY <1>2, <1>3, Zenon
<1>5. RowsOK(us, asg, clock)
    <2> SUFFICES ASSUME NEW u \in Users
                 PROVE  /\ us[u].quota = quotaState(us[u].limit, us[u].used)
                        /\ us[u].enforced => us[u].expires <= clock
                        /\ us[u].status = "none" => \A n \in Nodes : ~asg[n][u].assigned
                        /\ \A n \in Nodes :
                             asg[n][u].quota = quotaState(asg[n][u].limit, asg[n][u].used)
        BY Zenon DEF RowsOK
    <2>1. u \in Marked => user[u].expires <= clock
        <3>1. user[u].expires \in Nat /\ sweep.now \in 0..clock /\ clock \in Nat
            BY <1>1, RowFacts, UserRowType
        <3>2. u \in Marked => user[u].expires <= sweep.now
            BY DEF Marked
        <3> QED BY <3>1, <3>2
    <2> QED BY <1>4, <2>1, Zenon DEF AccessInv, RowsOK
<1>6. ASSUME NEW n \in Nodes, NEW u \in Users
      PROVE  Limited(us, asg, n, u) <=> Limited(user, asg, n, u)
    BY <1>4, Zenon DEF Limited
<1>7. ASSUME NEW n \in Nodes, n \notin MarkedNodes, NEW u \in Users
      PROVE  /\ EntryOK(us, asg, node, clock, n, u, pub[n].users[u])
             /\ us[u].enforced /\ us[u].status = "live" /\ asg[n][u].assigned => user[u].enforced
             /\ <<n, u>> \notin MarkedPairs
    <2>1. EntryOK(us, asg, node, clock, n, u, pub[n].users[u])
        BY <1>4, <1>6, RowFacts, EntryKept, Zenon
    <2>2. u \in Marked => ~asg[n][u].assigned
        BY <1>7 DEF MarkedNodes
    <2>3. us[u].enforced /\ us[u].status = "live" /\ asg[n][u].assigned => user[u].enforced
        BY <1>4, <2>2, Zenon
    <2>4. <<n, u>> \notin MarkedPairs
        BY <2>2 DEF MarkedPairs
    <2> QED BY <2>1, <2>3, <2>4, Zenon
<1>8. ASSUME NEW n \in Nodes, NEW u \in Users,
             EntitledIn(user, asg, n, u), ~EntitledIn(us, asg, n, u)
      PROVE  <<n, u>> \in MarkedPairs
    <2>1. u \in Marked /\ asg[n][u].assigned
        BY <1>4, <1>6, <1>8, Zenon DEF EntitledIn
    <2> QED BY <2>1 DEF MarkedPairs
<1>9. /\ asg \in [Nodes -> [Users -> AssignmentRows]]
      /\ node \in [Nodes -> [enabled : BOOLEAN, archived : BOOLEAN]]
    BY DEF AccessInv, RowsTypeOK
<1>10. Sound(us, asg, node, MarkedPairs, MarkedNodes, sweep.now)
    BY <1>1, <1>3, <1>5, <1>7, <1>8, <1>9, Zenon DEF Sound
<1> QED BY <1>10 DEF us, R

----------------------------------------------------------------------------
(* Every step of the server is sound. *)

RowsInv ==
    /\ RowsTypeOK /\ RowsOK(user, asg, clock)
    /\ Published /\ KicksPublished /\ EnforcedIsWithdrawn

\* A step that leaves the rows alone, at most the clock moves
LEMMA RowsStay ==
    ASSUME AccessInv, UNCHANGED <<user, asg, node, gen, pub, late>>,
           clock' = clock \/ clock' = clock + 1
    PROVE  RowsInv' /\ LossStep /\ Grows
<1>1. clock \in Nat /\ clock' \in Nat /\ clock <= clock'
    BY RowFacts
<1>2. RowsTypeOK' /\ KicksPublished' /\ EnforcedIsWithdrawn'
    BY Zenon DEF AccessInv, RowsTypeOK, KicksPublished, EnforcedIsWithdrawn
<1>3. RowsOK(user, asg, clock)'
    <2>1. ASSUME NEW u \in Users PROVE user[u].enforced => user[u].expires <= clock'
        <3>1. user[u].expires \in Nat
            BY RowFacts, UserRowType
        <3>2. user[u].enforced => user[u].expires <= clock
            BY Zenon DEF AccessInv, RowsOK
        <3> QED BY <1>1, <3>1, <3>2
    <2> QED BY <2>1, Zenon DEF AccessInv, RowsOK
<1>4. Published'
    <2> SUFFICES ASSUME NEW n \in Nodes, NEW u \in Users
                 PROVE  EntryOK(user, asg, node, clock', n, u, pub[n].users[u])
        BY Zenon DEF Published
    <2>1. clock' < user[u].expires => clock < user[u].expires
        <3>1. user[u].expires \in Nat
            BY RowFacts, UserRowType
        <3> QED BY <1>1, <3>1
    <2>2. EntryOK(user, asg, node, clock, n, u, pub[n].users[u])
        BY RowFacts
    <2> QED BY <2>1, <2>2, Zenon DEF EntryOK
<1>5. LossStep
    BY Zenon DEF LossStep, Entitled, Limited
<1>6. Grows
    <2>1. \A n \in Nodes : pub[n].version \in Nat /\ \A u \in Users : gen[n][u] \in Nat
        BY DEF AccessInv, RowsTypeOK, Snapshots
    <2> QED BY <1>1, <2>1 DEF Grows
<1> QED BY <1>2, <1>3, <1>4, <1>5, <1>6 DEF RowsInv

\* CommitStep, for the part of the invariant that is about rows and snapshots.
LEMMA RowsCommit ==
    ASSUME AccessInv, NEW us, NEW as, NEW nd, NEW kicks, NEW bumped, NEW now,
           Sound(us, as, nd, kicks, bumped, now),
           Commit(us, as, nd, kicks, bumped, now), clock' = clock
    PROVE  RowsInv' /\ LossStep /\ Grows
BY CommitStep, Zenon DEF RowsInv

\* A request that was overtaken keeps its shape and its time.
LEMMA OvertakenOK ==
    ASSUME AccessInv
    PROVE  /\ Overtaken \in UserRequests \cup AssignmentRequests \cup {NoRequest}
           /\ Overtaken # NoRequest => Overtaken.now <= clock
<1> DEFINE r == [request EXCEPT !.fresh = FALSE]
<1>1. Overtaken \in {request, r} /\ (request = NoRequest => Overtaken = request)
    BY Zenon DEF Overtaken, NoRequest
<1>2. CASE request \in UserRequests
    <2>1. r \in UserRequests /\ r.now = request.now
        BY <1>2, Zenon DEF UserRequests
    <2>2. request # NoRequest
        BY <1>2 DEF UserRequests, NoRequest
    <2> QED BY <1>1, <1>2, <2>1, <2>2, Zenon DEF AccessInv, FlightOK
<1>3. CASE request \in AssignmentRequests
    <2>1. r \in AssignmentRequests /\ r.now = request.now
        BY <1>3, Zenon DEF AssignmentRequests
    <2>2. request # NoRequest
        BY <1>3 DEF AssignmentRequests, NoRequest
    <2> QED BY <1>1, <1>3, <2>1, <2>2, Zenon DEF AccessInv, FlightOK
<1>4. CASE request = NoRequest
    BY <1>1, <1>4
<1> QED BY <1>2, <1>3, <1>4 DEF AccessInv, FlightOK

\* The step of an administrator's request
LEMMA WriteStep ==
    ASSUME AccessInv, NEW us, NEW as, NEW nd, NEW kicks, NEW bumped, NEW now,
           Sound(us, as, nd, kicks, bumped, now),
           Commit(us, as, nd, kicks, bumped, now),
           request' = Overtaken, UNCHANGED <<clock, sweep>>
    PROVE  AccessInv' /\ LossStep /\ Grows
<1>1. RowsInv' /\ LossStep /\ Grows
    BY RowsCommit, Zenon
<1>2. FlightOK'
    BY OvertakenOK, Zenon DEF AccessInv, FlightOK
<1> QED BY <1>1, <1>2 DEF AccessInv, RowsInv

\* The time a transaction works with is not in the future.
LEMMA CapturedPast ==
    ASSUME AccessInv, NEW now \in Captured
    PROVE  now \in 0..clock
BY DEF Captured

\* Every request of an administrator keeps the invariant and takes no right
\* without a kick.
LEMMA AdministratorStep ==
    ASSUME AccessInv, Administrator
    PROVE  AccessInv' /\ LossStep /\ Grows
<1> DEFINE Goal == AccessInv' /\ LossStep /\ Grows
<1>1. ASSUME NEW u \in Users, NEW now \in Captured, NEW ns \in SUBSET Nodes,
             NEW e \in BOOLEAN, NEW x \in Expiries, NEW l \in Limits,
             CreateUser(u, ns, e, x, l, now)
      PROVE  Goal
    <2>1. now \in 0..clock /\ user[u].status = "none"
        BY <1>1, CapturedPast, Zenon DEF CreateUser
    <2> QED BY <1>1, <2>1, CreateUserSound, WriteStep, Zenon DEF CreateUser, Write
<1>2. ASSUME NEW u \in Users, NEW now \in Captured,
             NEW e \in BOOLEAN, NEW x \in Expiries, NEW l \in Limits,
             UpdateUser(u, e, x, l, now)
      PROVE  Goal
    <2>1. now \in 0..clock /\ user[u].status = "live"
        BY <1>2, CapturedPast DEF UpdateUser, updateUserTx
    <2> QED BY <1>2, <2>1, UpdateUserSound, WriteStep, Zenon DEF UpdateUser, updateUserTx
<1>3. ASSUME NEW u \in Users, NEW now \in Captured, ArchiveUser(u, now) PROVE Goal
    <2>1. now \in 0..clock /\ user[u].status = "live"
        BY <1>3, CapturedPast DEF ArchiveUser
    <2> QED BY <1>3, <2>1, ArchiveUserSound, WriteStep DEF ArchiveUser, Write
<1>4. ASSUME NEW u \in Users, NEW now \in Captured, NEW ns, RequestUserKick(u, ns, now)
      PROVE  Goal
    <2>1. now \in 0..clock
        BY CapturedPast
    <2>2. \A n \in Nodes, w \in Users : n \notin ns => <<n, w>> \notin ns \X {u}
        OBVIOUS
    <2>3. node \in [Nodes -> [enabled : BOOLEAN, archived : BOOLEAN]]
        BY DEF AccessInv, RowsTypeOK
    <2>4. Sound(user, asg, node, ns \X {u}, ns, now)
        BY <2>1, <2>2, <2>3, SameRowsSound
    <2> QED BY <1>4, <2>4, WriteStep DEF RequestUserKick, Write
<1>5. ASSUME NEW u \in Users, NEW now \in Captured, NEW n \in Nodes, NEW l \in Limits,
             AssignUser(u, n, l, now)
      PROVE  Goal
    <2>1. now \in 0..clock /\ user[u].status = "live" /\ ~asg[n][u].assigned
        BY <1>5, CapturedPast DEF AssignUser
    <2> QED BY <1>5, <2>1, AssignUserSound, WriteStep, Zenon DEF AssignUser, Write
<1>6. ASSUME NEW u \in Users, NEW now \in Captured, NEW n \in Nodes, UnassignUser(u, n, now)
      PROVE  Goal
    <2>1. now \in 0..clock
        BY CapturedPast
    <2> QED BY <1>6, <2>1, UnassignUserSound, WriteStep, Zenon DEF UnassignUser, Write
<1>7. ASSUME NEW u \in Users, NEW e \in BOOLEAN, NEW x \in Expiries, BeginUpdateUser(u, e, x)
      PROVE  Goal
    <2>1. RowsInv' /\ LossStep /\ Grows
        BY <1>7, RowsStay, Zenon DEF BeginUpdateUser
    <2>2. user[u].limit \in Limits /\ clock \in 0..LastTime /\ clock <= clock
        <3>1. user[u] \in UserRows /\ clock \in Nat
            BY RowFacts, Zenon
        <3>2. clock \in 0..LastTime
            BY Zenon DEF AccessInv, FlightOK
        <3> QED BY <3>1, <3>2, UserRowType
    <2>3. request' \in UserRequests /\ request'.now = clock
        BY <1>7, <2>2, Zenon DEF BeginUpdateUser, UserRequests
    <2>4. FlightOK'
        BY <1>7, <2>2, <2>3, Zenon DEF BeginUpdateUser, AccessInv, FlightOK
    <2> QED BY <2>1, <2>4 DEF AccessInv, RowsInv
<1>8. ASSUME NEW u \in Users, NEW n \in Nodes,
             NEW given \in (SUBSET {"enabled", "limit"}) \ {{}},
             NEW e \in BOOLEAN, NEW l \in Limits, BeginUpdateAssignment(u, n, given, e, l)
      PROVE  Goal
    <2>1. RowsInv' /\ LossStep /\ Grows
        BY <1>8, RowsStay, Zenon DEF BeginUpdateAssignment
    <2>2. /\ asg[n][u].limit \in Limits /\ asg[n][u].enabled \in BOOLEAN
          /\ clock \in 0..LastTime /\ clock <= clock
        BY RowFacts, AsgRowType DEF AccessInv, FlightOK
    <2>3. request' \in AssignmentRequests /\ request'.now = clock
        BY <1>8, <2>2, Zenon DEF BeginUpdateAssignment, AssignmentRequests
    <2>4. FlightOK'
        BY <1>8, <2>2, <2>3, Zenon DEF BeginUpdateAssignment, AccessInv, FlightOK
    <2> QED BY <2>1, <2>4 DEF AccessInv, RowsInv
<1>9. ASSUME NEW u \in Users, NEW n \in Nodes,
             NEW given \in (SUBSET {"enabled", "limit"}) \ {{}},
             NEW e \in BOOLEAN, NEW l \in Limits, NEW now \in Captured,
             OtherUpdateAssignment(u, n, given, e, l, now)
      PROVE  Goal
    <2> DEFINE e1 == IF "enabled" \in given THEN e ELSE asg[n][u].enabled
               l1 == IF "limit" \in given THEN l ELSE asg[n][u].limit
    <2>1. now \in 0..clock /\ e1 \in BOOLEAN /\ l1 \in Limits
        BY CapturedPast, RowFacts, AsgRowType, Zenon
    <2>2. /\ UpdateAssignment(u, n, e1, l1, now)
          /\ request' = Overtaken /\ UNCHANGED <<clock, sweep>>
        BY <1>9, Zenon DEF OtherUpdateAssignment
    <2> HIDE DEF e1, l1
    <2>3. PICK as, kicks : /\ Sound(user, as, node, kicks, {n}, now)
                           /\ Commit(user, as, node, kicks, {n}, now)
        BY <2>1, <2>2, UpdateAssignmentCommits, Zenon
    <2> QED BY <2>2, <2>3, WriteStep, Zenon
<1>10. ASSUME NEW n \in Nodes, NEW e \in BOOLEAN, NEW now \in Captured, UpdateNode(n, e, now)
       PROVE  Goal
    <2> DEFINE nd == [node EXCEPT ![n].enabled = e]
    <2>1. now \in 0..clock
        BY CapturedPast
    <2>2. /\ nd \in [Nodes -> [enabled : BOOLEAN, archived : BOOLEAN]]
          /\ \A m \in Nodes : m \notin {n} => (nd[m].enabled => node[m].enabled)
        BY Zenon DEF AccessInv, RowsTypeOK
    <2> HIDE DEF nd
    <2>3. Sound(user, asg, nd, {}, {n}, now)
        BY <2>1, <2>2, SameRowsSound
    <2> QED BY <1>10, <2>3, WriteStep DEF UpdateNode, Write, nd
<1>11. ASSUME NEW n \in Nodes, ArchiveNode(n) PROVE Goal
    <2> DEFINE nd == [node EXCEPT ![n] = [enabled |-> FALSE, archived |-> TRUE]]
    <2>1. clock \in 0..clock
        BY RowFacts
    <2>2. /\ nd \in [Nodes -> [enabled : BOOLEAN, archived : BOOLEAN]]
          /\ \A m \in Nodes : m \notin {} => (nd[m].enabled => node[m].enabled)
        BY DEF AccessInv, RowsTypeOK
    <2> HIDE DEF nd
    <2>3. Sound(user, asg, nd, {}, {}, clock)
        BY <2>1, <2>2, SameRowsSound
    <2> QED BY <1>11, <2>3, WriteStep, Zenon DEF ArchiveNode, Write, nd
<1> HIDE DEF Goal
<1>12. Goal
    BY <1>1, <1>2, <1>3, <1>4, <1>5, <1>6, <1>7, <1>8, <1>9, <1>10, <1>11, Zenon DEF Administrator
<1> QED BY <1>12 DEF Goal

\* So does every step of the server.
LEMMA AccessStep ==
    ASSUME AccessInv, AccessNext
    PROVE  AccessInv' /\ LossStep /\ Grows
<1> DEFINE Goal == AccessInv' /\ LossStep /\ Grows
<1>1. ASSUME Administrator PROVE Goal
    BY <1>1, AdministratorStep
<1>2. ASSUME EndUpdateUser PROVE Goal
    <2>1. request \in UserRequests /\ request # NoRequest
        BY <1>2 DEF EndUpdateUser, AccessInv, FlightOK, NoRequest, AssignmentRequests
    <2>2. /\ request.user \in Users /\ request.enabled \in BOOLEAN
          /\ request.expires \in Expiries /\ request.limit \in Limits
          /\ request.now \in 0..LastTime
        BY <2>1 DEF UserRequests
    <2>3. request.now \in 0..clock
        <3>1. request.now <= clock
            BY <2>1 DEF AccessInv, FlightOK
        <3> QED BY <2>2, <3>1, RowFacts
    <2>4. RowsInv' /\ LossStep /\ Grows
        <3>1. CASE updateUserTx(request.user, request.enabled, request.expires, request.limit,
                                request.now)
            <4>1. user[request.user].status = "live"
                BY <3>1 DEF updateUserTx
            <4>2. clock' = clock
                BY <1>2 DEF EndUpdateUser
            <4> QED BY <2>2, <2>3, <3>1, <4>1, <4>2, UpdateUserSound, RowsCommit, Zenon
                    DEF updateUserTx
        <3>2. CASE UNCHANGED <<user, asg, node, gen, pub, late, asked>>
            BY <1>2, <3>2, RowsStay DEF EndUpdateUser
        <3> QED BY <1>2, <3>1, <3>2 DEF EndUpdateUser
    <2>5. FlightOK'
        BY <1>2 DEF EndUpdateUser, AccessInv, FlightOK
    <2> QED BY <2>4, <2>5 DEF AccessInv, RowsInv
<1>3. ASSUME EndUpdateAssignment PROVE Goal
    <2>1. request \in AssignmentRequests /\ request # NoRequest
        BY <1>3 DEF EndUpdateAssignment, AccessInv, FlightOK, NoRequest, UserRequests
    <2>2. /\ request.user \in Users /\ request.node \in Nodes /\ request.enabled \in BOOLEAN
          /\ request.limit \in Limits /\ request.now \in 0..LastTime
        BY <2>1 DEF AssignmentRequests
    <2>3. request.now \in 0..clock
        <3>1. request.now <= clock
            BY <2>1 DEF AccessInv, FlightOK
        <3> QED BY <2>2, <3>1, RowFacts
    <2>4. RowsInv' /\ LossStep /\ Grows
        <3>1. CASE UpdateAssignment(request.user, request.node, request.enabled, request.limit,
                                    request.now)
            <4>1. PICK as, kicks :
                    /\ Sound(user, as, node, kicks, {request.node}, request.now)
                    /\ Commit(user, as, node, kicks, {request.node}, request.now)
                BY <2>2, <2>3, <3>1, UpdateAssignmentCommits, Zenon
            <4>2. clock' = clock
                BY <1>3, Zenon DEF EndUpdateAssignment
            <4> QED BY <4>1, <4>2, RowsCommit, Zenon
        <3>2. CASE UNCHANGED <<user, asg, node, gen, pub, late, asked>>
            BY <1>3, <3>2, RowsStay, Zenon DEF EndUpdateAssignment
        <3> QED BY <1>3, <3>1, <3>2, Zenon DEF EndUpdateAssignment
    <2>5. FlightOK'
        BY <1>3, Zenon DEF EndUpdateAssignment, AccessInv, FlightOK
    <2> QED BY <2>4, <2>5 DEF AccessInv, RowsInv
<1>4. ASSUME NEW n \in Nodes, NEW u \in Users, NEW now \in Captured, IngestTraffic(n, u, now)
      PROVE  Goal
    <2>1. now \in 0..clock /\ user[u].status = "live" /\ asg[n][u].assigned
        BY <1>4, CapturedPast, Zenon DEF IngestTraffic
    <2>2. clock' = clock
        BY <1>4, Zenon DEF IngestTraffic
    <2>3. RowsInv' /\ LossStep /\ Grows
        <3> DEFINE us == [user EXCEPT ![u].used = @ + 1,
                              ![u].quota = quotaState(user[u].limit, user[u].used + 1)]
                   as == [asg EXCEPT ![n][u].used = @ + 1,
                              ![n][u].quota = quotaState(asg[n][u].limit, asg[n][u].used + 1)]
                   limited == {m \in Nodes : ~Limited(user, asg, m, u) /\ Limited(us, as, m, u)}
        <3>1. Commit(us, as, node, limited \X {u}, limited, now)
            BY <1>4, Zenon DEF IngestTraffic
        <3>2. Sound(us, as, node, limited \X {u}, limited, now)
            BY <2>1, IngestTrafficSound, Zenon
        <3> HIDE DEF us, as, limited
        <3> QED BY <2>2, <3>1, <3>2, RowsCommit, Zenon
    <2>4. FlightOK'
        BY <1>4, Zenon DEF IngestTraffic, AccessInv, FlightOK
    <2> QED BY <2>3, <2>4 DEF AccessInv, RowsInv
<1>5. ASSUME ListExpired PROVE Goal
    <2>1. RowsInv' /\ LossStep /\ Grows
        BY <1>5, RowsStay, Zenon DEF ListExpired
    <2>2. PICK us \in SUBSET Due : sweep' = [on |-> TRUE, now |-> clock, users |-> us]
        BY <1>5, Zenon DEF ListExpired
    <2>3. sweep' \in Sweeps /\ sweep'.now <= clock
        BY <2>2, RowFacts DEF Due, Sweeps, AccessInv, FlightOK
    <2>4. FlightOK'
        BY <1>5, <2>3, Zenon DEF ListExpired, AccessInv, FlightOK
    <2> QED BY <2>1, <2>4 DEF AccessInv, RowsInv
<1>6. ASSUME MarkExpired PROVE Goal
    <2>1. sweep.on /\ clock' = clock
        BY <1>6 DEF MarkExpired
    <2>2. RowsInv' /\ LossStep /\ Grows
        BY <1>6, <2>1, MarkExpiredSound, RowsCommit DEF MarkExpired
    <2>3. FlightOK'
        BY <1>6 DEF MarkExpired, AccessInv, FlightOK
    <2> QED BY <2>2, <2>3 DEF AccessInv, RowsInv
<1>7. ASSUME MarkExpiredRefused \/ ServerFails PROVE Goal
    <2>1. RowsInv' /\ LossStep /\ Grows
        BY <1>7, RowsStay DEF MarkExpiredRefused, ServerFails
    <2>2. FlightOK'
        BY <1>7, Zenon DEF MarkExpiredRefused, ServerFails, AccessInv, FlightOK
    <2> QED BY <2>1, <2>2 DEF AccessInv, RowsInv
<1>8. ASSUME Tick PROVE Goal
    <2>1. RowsInv' /\ LossStep /\ Grows
        BY <1>8, RowsStay DEF Tick
    <2>2. FlightOK'
        <3>1. clock' \in 0..LastTime
            BY <1>8, RowFacts DEF Tick
        <3>2. request # NoRequest => request.now <= clock'
            <4>1. request # NoRequest => request.now \in 0..LastTime /\ request.now <= clock
                BY DEF AccessInv, FlightOK, UserRequests, AssignmentRequests
            <4> QED BY <1>8, <4>1, RowFacts DEF Tick
        <3>3. sweep # NoSweep => sweep.now <= clock'
            <4>1. sweep # NoSweep => sweep.now \in 0..LastTime /\ sweep.now <= clock
                BY Zenon DEF AccessInv, FlightOK, Sweeps
            <4> QED BY <1>8, <4>1, RowFacts DEF Tick
        <3> QED BY <1>8, <3>1, <3>2, <3>3 DEF Tick, AccessInv, FlightOK
    <2> QED BY <2>1, <2>2 DEF AccessInv, RowsInv
<1> HIDE DEF Goal
<1>9. Goal
    BY <1>1, <1>2, <1>3, <1>4, <1>5, <1>6, <1>7, <1>8 DEF AccessNext, Traffic
<1> QED BY <1>9 DEF Goal

\* The invariant holds initially.
LEMMA AccessInitInv ==
    ASSUME AccessInit
    PROVE  AccessInv
<1>1. clock = 0 /\ clock \in Nat /\ 0 \in 0..clock /\ LastTime \in Nat
    <2>1. clock = 0
        BY Zenon DEF AccessInit
    <2> QED BY <2>1, AccessAssumption
<1>m. PICK members \in SUBSET bound.users : \E x \in [members -> Expiries] :
         /\ user = [u \in Users |->
                  [status |-> IF u \in members THEN "live" ELSE "none", enabled |-> TRUE,
                   expires |-> IF u \in members THEN x[u] ELSE Never, enforced |-> FALSE,
                   limit |-> 0, used |-> 0, quota |-> "unlimited"]]
         /\ asg = [n \in Nodes |-> [u \in Users |->
                  [assigned |-> u \in members, enabled |-> TRUE, limit |-> 0,
                   used |-> 0, quota |-> "unlimited"]]]
    BY Zenon DEF AccessInit
<1>2. PICK x \in [members -> Expiries] :
         /\ user = [u \in Users |->
                  [status |-> IF u \in members THEN "live" ELSE "none", enabled |-> TRUE,
                   expires |-> IF u \in members THEN x[u] ELSE Never, enforced |-> FALSE,
                   limit |-> 0, used |-> 0, quota |-> "unlimited"]]
         /\ asg = [n \in Nodes |-> [u \in Users |->
                  [assigned |-> u \in members, enabled |-> TRUE, limit |-> 0,
                   used |-> 0, quota |-> "unlimited"]]]
    BY <1>m, Zenon
<1>3. quotaState(0, 0) = "unlimited" /\ "unlimited" \in QuotaStates /\ 0 \in Limits
    BY LimitsNat DEF quotaState, QuotaStates
<1>4. ASSUME NEW u \in Users
      PROVE  /\ user[u] \in UserRows /\ ~user[u].enforced
             /\ user[u].limit = 0 /\ user[u].used = 0 /\ user[u].quota = "unlimited"
             /\ user[u].status = "none" => u \notin members
    <2>1. (IF u \in members THEN x[u] ELSE Never) \in Expiries
        BY <1>2, NeverType, Zenon
    <2> QED BY <1>2, <1>3, <2>1, Zenon DEF UserRows
<1>5. user \in [Users -> UserRows]
    BY <1>2, <1>4, Zenon
<1>6. ASSUME NEW n \in Nodes, NEW u \in Users
      PROVE  /\ asg[n][u] \in AssignmentRows /\ (asg[n][u].assigned <=> u \in members)
             /\ asg[n][u].limit = 0 /\ asg[n][u].used = 0 /\ asg[n][u].quota = "unlimited"
    <2> DEFINE a == u \in members
    <2>1. asg[n][u] = [assigned |-> a, enabled |-> TRUE, limit |-> 0, used |-> 0,
                       quota |-> "unlimited"]
        BY <1>2, Zenon
    <2>2. a \in BOOLEAN
        OBVIOUS
    <2> HIDE DEF a
    <2>3. /\ asg[n][u].assigned = a
          /\ asg[n][u].limit = 0 /\ asg[n][u].used = 0 /\ asg[n][u].quota = "unlimited"
        BY <2>1, <2>2
    <2>4. asg[n][u] \in AssignmentRows
        BY <1>3, <2>1, <2>2, AsgRowOf, Zenon
    <2> QED BY <2>3, <2>4, Zenon DEF a
<1>7. asg \in [Nodes -> [Users -> AssignmentRows]]
    BY <1>2, <1>6, Zenon
<1>8. /\ node \in [Nodes -> [enabled : BOOLEAN, archived : BOOLEAN]]
      /\ gen \in [Nodes -> [Users -> Nat]]
    BY Zenon DEF AccessInit
<1>9. ASSUME NEW n \in Nodes
      PROVE  /\ pub[n] \in Snapshots /\ pub[n].kicks = gen[n]
             /\ \A u \in Users : pub[n].users[u] = DesiredUser(user, asg, node, n, u, 0)
    <2> DEFINE es == [u \in Users |-> DesiredUser(user, asg, node, n, u, 0)]
    <2>1. es \in [Users -> Entries]
        BY <1>1, <1>5, <1>7, <1>8, DesiredUserOK, Zenon
    <2>2. \A u \in Users : es[u] = DesiredUser(user, asg, node, n, u, 0)
        BY Zenon
    <2>3. pub[n] = [version |-> 1, users |-> es, kicks |-> gen[n]]
        BY Zenon DEF AccessInit
    <2>4. gen[n] \in [Users -> Nat] /\ 1 \in Nat
        BY <1>8
    <2> HIDE DEF es
    <2>5. pub[n] \in Snapshots /\ pub[n].users = es /\ pub[n].kicks = gen[n]
        BY <2>1, <2>3, <2>4, SnapshotFields
    <2> QED BY <2>2, <2>5, Zenon
<1>10. pub \in [Nodes -> Snapshots]
    BY <1>9, Zenon DEF AccessInit
<1>11. Published
    <2> SUFFICES ASSUME NEW n \in Nodes, NEW u \in Users
                 PROVE  EntryOK(user, asg, node, clock, n, u, pub[n].users[u])
        BY DEF Published
    <2>1. EntryOK(user, asg, node, clock, n, u, DesiredUser(user, asg, node, n, u, 0))
        BY <1>1, <1>5, <1>7, <1>8, DesiredUserOK, Zenon
    <2> QED BY <1>9, <2>1, Zenon
<1>12. RowsOK(user, asg, clock)
    <2> SUFFICES ASSUME NEW u \in Users
                 PROVE  /\ user[u].quota = quotaState(user[u].limit, user[u].used)
                        /\ user[u].enforced => user[u].expires <= clock
                        /\ user[u].status = "none" => \A n \in Nodes : ~asg[n][u].assigned
                        /\ \A n \in Nodes :
                             asg[n][u].quota = quotaState(asg[n][u].limit, asg[n][u].used)
        BY Zenon DEF RowsOK
    <2> QED BY <1>3, <1>4, <1>6, Zenon
<1>13. EnforcedIsWithdrawn
    BY <1>4 DEF EnforcedIsWithdrawn
<1>14. KicksPublished
    BY <1>9 DEF KicksPublished
<1>15. FlightOK
    <2>1. request = NoRequest /\ sweep = NoSweep
        BY Zenon DEF AccessInit
    <2> QED BY <1>1, <2>1 DEF FlightOK
<1> QED BY <1>5, <1>7, <1>8, <1>10, <1>11, <1>12, <1>13, <1>14, <1>15
        DEF AccessInv, RowsTypeOK

----------------------------------------------------------------------------
(* What the requests asked for *)

\* What the requests asked for has its shape.
AskedRow == [enabled : BOOLEAN, limit : Limits]
AskedRows == [Nodes -> [Users -> AskedRow]]
AskedType == asked \in [asg : AskedRows, limit : [Users -> Limits]]

\* A request that has not been overtaken carries, in the fields it leaves out,
\* what the row says.
FreshOK ==
    /\ request.kind = "user" /\ request.fresh => request.limit = user[request.user].limit
    /\ request.kind = "assignment" /\ request.fresh =>
         /\ "enabled" \notin request.given
                => request.enabled = asg[request.node][request.user].enabled
         /\ "limit" \notin request.given
                => request.limit = asg[request.node][request.user].limit

AskedInv == AskedType /\ LastRequestHolds /\ FreshOK

\* LastRequestHolds for one user
HoldsFor(u) ==
    user[u].status = "live" =>
        /\ user[u].limit = asked.limit[u]
        /\ \A n \in Nodes : asg[n][u].assigned =>
              asg[n][u].enabled = asked.asg[n][u].enabled /\ asg[n][u].limit = asked.asg[n][u].limit

\* A step that leaves what the rows of a user say, and what was asked for
KeepsAssignment(n, u) ==
    asg'[n][u].assigned =>
        /\ asg[n][u].assigned /\ asg'[n][u].enabled = asg[n][u].enabled
        /\ asg'[n][u].limit = asg[n][u].limit /\ asked'.asg[n][u] = asked.asg[n][u]
KeepsUser(u) ==
    user'[u].status = "live" =>
        /\ user[u].status = "live" /\ user'[u].limit = user[u].limit
        /\ asked'.limit[u] = asked.limit[u]
        /\ \A n \in Nodes : KeepsAssignment(n, u)

\* Such a step keeps them in agreement.
LEMMA KeepsUserHolds ==
    ASSUME NEW u \in Users, HoldsFor(u), KeepsUser(u)
    PROVE  HoldsFor(u)'
BY Zenon DEF HoldsFor, KeepsUser, KeepsAssignment

\* The fields of a request in flight
LEMMA RequestFields ==
    ASSUME AccessInv
    PROVE  /\ request.kind = "user" => request \in UserRequests /\ request.user \in Users
           /\ request.kind = "assignment" =>
                request \in AssignmentRequests /\ request.user \in Users /\ request.node \in Nodes
BY DEF AccessInv, FlightOK, UserRequests, AssignmentRequests, NoRequest

\* A request stays fresh only while its row stays as it was.
LEMMA OvertakenFresh ==
    ASSUME AccessInv, FreshOK, request' = Overtaken
    PROVE  FreshOK'
<1> DEFINE stale == \/ request.kind = "assignment"
                       /\ asg'[request.node][request.user] # asg[request.node][request.user]
                    \/ request.kind = "user"
                       /\ user'[request.user].limit # user[request.user].limit
           r == [request EXCEPT !.fresh = FALSE]
<1>1. CASE stale
    <2>1. request' = r
        BY <1>1, Zenon DEF Overtaken
    <2>2. r.fresh = FALSE
        <3>1. CASE request \in UserRequests
            BY <3>1, Zenon DEF UserRequests
        <3>2. CASE request \in AssignmentRequests
            BY <3>2, Zenon DEF AssignmentRequests
        <3> QED BY <1>1, <3>1, <3>2, RequestFields
    <2> HIDE DEF r
    <2> QED BY <2>1, <2>2, Zenon DEF FreshOK
<1>2. CASE ~stale
    <2>1. request' = request
        BY <1>2 DEF Overtaken
    <2> QED BY <1>2, <2>1, Zenon DEF FreshOK
<1> QED BY <1>1, <1>2, Zenon

\* So it does if no limit and no assignment changes in what was read.
LEMMA UntouchedFresh ==
    ASSUME AccessInv, FreshOK, request' \in {request, NoRequest},
           \A u \in Users : user'[u].limit = user[u].limit,
           \A n \in Nodes, u \in Users : /\ asg'[n][u].enabled = asg[n][u].enabled
                                         /\ asg'[n][u].limit = asg[n][u].limit
    PROVE  FreshOK'
<1>1. CASE request' = NoRequest
    BY <1>1, Zenon DEF FreshOK, NoRequest
<1>2. CASE request' = request
    BY <1>2, RequestFields, Zenon DEF FreshOK
<1> QED BY <1>1, <1>2

\* LastRequestHolds, user by user
LEMMA HoldsForAll ==
    /\ LastRequestHolds <=> \A u \in Users : HoldsFor(u)
    /\ LastRequestHolds' <=> \A u \in Users : HoldsFor(u)'
BY Zenon DEF LastRequestHolds, HoldsFor

\* What asked becomes when a request sets a limit
LEMMA AskedLimit ==
    ASSUME AskedType, NEW v \in Users, NEW l \in Limits,
           asked' = [asked EXCEPT !.limit[v] = l]
    PROVE  /\ AskedType' /\ asked'.asg = asked.asg /\ asked'.limit[v] = l
           /\ \A u \in Users : u # v => asked'.limit[u] = asked.limit[u]
BY DEF AskedType

\* One row of what was asked for
LEMMA AskedExcept ==
    ASSUME NEW f \in AskedRows, NEW m \in Nodes, NEW v \in Users, NEW r \in AskedRow
    PROVE  /\ [f EXCEPT ![m][v] = r] \in AskedRows /\ [f EXCEPT ![m][v] = r][m][v] = r
           /\ \A n \in Nodes, u \in Users :
                n # m \/ u # v => [f EXCEPT ![m][v] = r][n][u] = f[n][u]
BY DEF AskedRows

\* A row whose enabled was asked for
LEMMA AskedRowEnabled ==
    ASSUME NEW x \in AskedRow, NEW e \in BOOLEAN
    PROVE  [x EXCEPT !.enabled = e] = [enabled |-> e, limit |-> x.limit]
BY DEF AskedRow

\* What asked becomes when a request sets the fields g of an assignment
AskedFields(m, v, g, e, l) ==
    [asked EXCEPT !.asg[m][v].enabled = IF "enabled" \in g THEN e ELSE @,
                  !.asg[m][v].limit = IF "limit" \in g THEN l ELSE @]

\* The fields in g are as the request says, everything else is as before.
LEMMA AskedAssignment ==
    ASSUME AskedType, NEW m \in Nodes, NEW v \in Users, NEW e \in BOOLEAN, NEW l \in Limits,
           NEW g, asked' = AskedFields(m, v, g, e, l)
    PROVE  /\ AskedType' /\ asked'.limit = asked.limit
           /\ asked'.asg[m][v].enabled = IF "enabled" \in g THEN e ELSE asked.asg[m][v].enabled
           /\ asked'.asg[m][v].limit = IF "limit" \in g THEN l ELSE asked.asg[m][v].limit
           /\ \A n \in Nodes, u \in Users : n # m \/ u # v => asked'.asg[n][u] = asked.asg[n][u]
<1> DEFINE e1 == IF "enabled" \in g THEN e ELSE asked.asg[m][v].enabled
           l1 == IF "limit" \in g THEN l ELSE asked.asg[m][v].limit
           r == [enabled |-> e1, limit |-> l1]
<1>1. /\ asked.asg[m][v] \in AskedRow
      /\ asked = [asg |-> asked.asg, limit |-> asked.limit] /\ asked.asg \in AskedRows
    BY DEF AskedType, AskedRows
<1>2. e1 \in BOOLEAN /\ l1 \in Limits
    BY <1>1, Zenon DEF AskedRow
<1>3. asked' = [[asked EXCEPT !.asg[m][v].enabled = e1] EXCEPT !.asg[m][v].limit = l1]
    BY <1>1, Zenon DEF AskedRows, AskedFields
<1> HIDE DEF e1, l1
<1> DEFINE r1 == [enabled |-> e1, limit |-> asked.asg[m][v].limit]
           a1 == [asked.asg EXCEPT ![m][v] = r1]
<1>4. [asked EXCEPT !.asg[m][v].enabled = e1] = [asg |-> a1, limit |-> asked.limit]
    <2>1. [asked.asg[m][v] EXCEPT !.enabled = e1] = r1
        BY <1>1, <1>2, AskedRowEnabled
    <2>2. [asked EXCEPT !.asg[m][v].enabled = e1]
            = [asked EXCEPT !.asg = [asked.asg EXCEPT ![m][v] = [asked.asg[m][v] EXCEPT !.enabled = e1]]]
        BY Zenon
    <2> HIDE DEF r1
    <2>3. [asked EXCEPT !.asg[m][v].enabled = e1] = [asked EXCEPT !.asg = a1]
        BY <2>1, <2>2, Zenon
    <2> HIDE DEF a1
    <2> QED BY <1>1, <2>3
<1>5. asked' = [[asg |-> a1, limit |-> asked.limit] EXCEPT !.asg[m][v].limit = l1]
    BY <1>3, <1>4, Zenon
<1>6. r1 \in AskedRow /\ [r1 EXCEPT !.limit = l1] = r
    BY <1>1, <1>2 DEF AskedRow
<1>7. r \in AskedRow /\ r.enabled = e1 /\ r.limit = l1
    BY <1>2 DEF AskedRow
<1> HIDE DEF r, r1
<1>8. /\ a1 \in AskedRows /\ a1[m][v] = r1
      /\ \A n \in Nodes, u \in Users : n # m \/ u # v => a1[n][u] = asked.asg[n][u]
    BY <1>1, <1>6, AskedExcept
<1> HIDE DEF a1
<1>9. asked'.limit = asked.limit /\ asked'.asg = [a1 EXCEPT ![m][v] = [a1[m][v] EXCEPT !.limit = l1]]
    <2>1. asked'.limit = asked.limit /\ asked'.asg = [a1 EXCEPT ![m][v].limit = l1]
        BY <1>5, Zenon
    <2>2. [a1 EXCEPT ![m][v].limit = l1] = [a1 EXCEPT ![m][v] = [a1[m][v] EXCEPT !.limit = l1]]
        BY Zenon
    <2> QED BY <2>1, <2>2
<1>10. asked' = [asg |-> asked'.asg, limit |-> asked'.limit]
    BY <1>5, Zenon
<1>11. asked'.asg = [a1 EXCEPT ![m][v] = r]
    BY <1>6, <1>8, <1>9, Zenon
<1>12. /\ asked'.asg \in AskedRows /\ asked'.asg[m][v] = r
       /\ \A n \in Nodes, u \in Users : n # m \/ u # v => asked'.asg[n][u] = a1[n][u]
    <2> DEFINE a2 == [a1 EXCEPT ![m][v] = r]
    <2>1. /\ a2 \in AskedRows /\ a2[m][v] = r
          /\ \A n \in Nodes, u \in Users : n # m \/ u # v => a2[n][u] = a1[n][u]
        BY <1>7, <1>8, AskedExcept
    <2>2. asked'.asg = a2
        BY <1>11
    <2> HIDE DEF a2
    <2> QED BY <2>1, <2>2
<1>13. AskedType'
    <2>1. asked.limit \in [Users -> Limits]
        BY DEF AskedType
    <2> QED BY <2>1, <1>9, <1>10, <1>12, Zenon DEF AskedType, AskedRows
<1>14. asked'.asg[m][v].enabled = IF "enabled" \in g THEN e ELSE asked.asg[m][v].enabled
    BY <1>7, <1>12, Zenon DEF e1
<1>15. asked'.asg[m][v].limit = IF "limit" \in g THEN l ELSE asked.asg[m][v].limit
    BY <1>7, <1>12, Zenon DEF l1
<1>16. \A n \in Nodes, u \in Users : n # m \/ u # v => asked'.asg[n][u] = asked.asg[n][u]
    BY <1>8, <1>12
<1> QED BY <1>9, <1>13, <1>14, <1>15, <1>16, Zenon

\* updateUserTx sets the limit it is given, on no other user.
LEMMA UpdateUserRows ==
    ASSUME AccessInv, NEW v \in Users, NEW e \in BOOLEAN, NEW x \in Expiries, NEW l \in Limits,
           NEW now \in 0..clock, updateUserTx(v, e, x, l, now)
    PROVE  /\ user[v].status = "live" /\ asg' = asg /\ user'[v].limit = l
           /\ \A u \in Users : u # v => user'[u] = user[u]
<1> DEFINE r == UpdatedUser(v, e, x, l, now)
<1>1. user[v].status = "live" /\ asg' = asg /\ user' = [user EXCEPT ![v] = r]
    BY Zenon DEF updateUserTx, Commit
<1>2. r.limit = l
    BY RowFacts, Zenon DEF UpdatedUser, UserRows
<1> HIDE DEF r
<1> QED BY <1>1, <1>2 DEF AccessInv, RowsTypeOK

\* UpdateAssignment sets the fields it is given, on no other assignment.
LEMMA UpdateAssignmentRows ==
    ASSUME AccessInv, NEW m \in Nodes, NEW v \in Users, NEW e \in BOOLEAN, NEW l \in Limits,
           NEW now, UpdateAssignment(v, m, e, l, now)
    PROVE  /\ user' = user /\ asg[m][v].assigned
           /\ asg'[m][v].enabled = e /\ asg'[m][v].limit = l
           /\ \A n \in Nodes, u \in Users : n # m \/ u # v => asg'[n][u] = asg[n][u]
<1> DEFINE q == quotaState(l, asg[m][v].used)
           r == [asg[m][v] EXCEPT !.enabled = e, !.limit = l, !.quota = q]
           as == [asg EXCEPT ![m][v] = r]
<1>1. asg[m][v] \in AssignmentRows
    BY RowFacts
<1>2. q \in QuotaStates
    BY <1>1, AsgRowType, LimitsNat, quotaStateType
<1>3. [asg EXCEPT ![m][v].enabled = e, ![m][v].limit = l,
                  ![m][v].quota = quotaState(l, asg[m][v].used)] = as
    BY Zenon DEF AccessInv, RowsTypeOK
<1>4. user' = user /\ asg[m][v].assigned /\ asg' = as
    BY <1>3, Zenon DEF UpdateAssignment, Commit
<1> HIDE DEF q
<1>5. r \in AssignmentRows /\ r.enabled = e /\ r.limit = l
    BY <1>1, <1>2, Zenon DEF AssignmentRows
<1> HIDE DEF r
<1>6. as[m][v] = r /\ \A n \in Nodes, u \in Users : n # m \/ u # v => as[n][u] = asg[n][u]
    BY <1>5, AsgExcept
<1> HIDE DEF as
<1> QED BY <1>4, <1>5, <1>6, Zenon

\* IngestTrafficBatch changes no field a request may ask for.
LEMMA IngestTrafficRows ==
    ASSUME AccessInv, NEW m \in Nodes, NEW v \in Users, NEW now, IngestTraffic(m, v, now)
    PROVE  /\ \A u \in Users : user'[u].limit = user[u].limit /\ user'[u].status = user[u].status
           /\ \A n \in Nodes, u \in Users :
                /\ asg'[n][u].assigned = asg[n][u].assigned
                /\ asg'[n][u].enabled = asg[n][u].enabled /\ asg'[n][u].limit = asg[n][u].limit
<1> DEFINE qu == quotaState(user[v].limit, user[v].used + 1)
           bu == user[v].used + 1
           ru == [user[v] EXCEPT !.used = bu, !.quota = qu]
           qa == quotaState(asg[m][v].limit, asg[m][v].used + 1)
           ba == asg[m][v].used + 1
           ra == [asg[m][v] EXCEPT !.used = ba, !.quota = qa]
<1>1. /\ user[v] \in UserRows /\ asg[m][v] \in AssignmentRows
      /\ user[v].limit \in Nat /\ user[v].used \in Nat
      /\ asg[m][v].limit \in Nat /\ asg[m][v].used \in Nat
    BY RowFacts, UserRowType, AsgRowType, LimitsNat, Zenon
<1>2. qu \in QuotaStates /\ qa \in QuotaStates /\ bu \in Nat /\ ba \in Nat
    BY <1>1, quotaStateType
<1>3. user' = [user EXCEPT ![v] = ru]
    BY Zenon DEF IngestTraffic, Commit, AccessInv, RowsTypeOK
<1>4. asg' = [asg EXCEPT ![m][v] = ra]
    BY Zenon DEF IngestTraffic, Commit, AccessInv, RowsTypeOK
<1> HIDE DEF qu, qa, bu, ba
<1>5. ru.limit = user[v].limit /\ ru.status = user[v].status
    BY <1>1, <1>2, Zenon DEF UserRows
<1>6. /\ ra \in AssignmentRows /\ ra.assigned = asg[m][v].assigned
      /\ ra.enabled = asg[m][v].enabled /\ ra.limit = asg[m][v].limit
    BY <1>1, <1>2, Zenon DEF AssignmentRows
<1> HIDE DEF ru, ra
<1>7. \A u \in Users : user'[u].limit = user[u].limit /\ user'[u].status = user[u].status
    BY <1>3, <1>5 DEF AccessInv, RowsTypeOK
<1>8. /\ asg'[m][v] = ra
      /\ \A n \in Nodes, u \in Users : n # m \/ u # v => asg'[n][u] = asg[n][u]
    BY <1>4, <1>6, AsgExcept
<1> QED BY <1>6, <1>7, <1>8, Zenon

\* A step that asks for nothing and changes no field a request may ask for
LEMMA NothingAsked ==
    ASSUME AccessInv, AskedInv, asked' = asked, FreshOK',
           \A u \in Users : user'[u].status = "live" =>
                user[u].status = "live" /\ user'[u].limit = user[u].limit,
           \A n \in Nodes, u \in Users : asg'[n][u].assigned =>
                /\ asg[n][u].assigned /\ asg'[n][u].enabled = asg[n][u].enabled
                /\ asg'[n][u].limit = asg[n][u].limit
    PROVE  AskedInv'
<1>1. \A u \in Users : KeepsUser(u)
    BY Zenon DEF KeepsUser, KeepsAssignment
<1>2. LastRequestHolds'
    BY <1>1, HoldsForAll, KeepsUserHolds DEF AskedInv
<1> QED BY <1>2, Zenon DEF AskedInv, AskedType, AskedRows

\* A request that sets the limit of a user
LEMMA UserAsked ==
    ASSUME AccessInv, AskedInv, FreshOK', AskedType', NEW v \in Users,
           asg' = asg, user'[v].limit = asked'.limit[v], user[v].status = "live",
           \A u \in Users : u # v => user'[u] = user[u] /\ asked'.limit[u] = asked.limit[u],
           asked'.asg = asked.asg
    PROVE  AskedInv'
<1>1. ASSUME NEW u \in Users PROVE HoldsFor(u)'
    <2>1. HoldsFor(u)
        BY HoldsForAll DEF AskedInv
    <2>2. CASE u = v
        BY <2>1, <2>2, Zenon DEF HoldsFor
    <2>3. CASE u # v
        BY <2>1, <2>3, Zenon DEF HoldsFor
    <2> QED BY <2>2, <2>3
<1>2. LastRequestHolds'
    BY <1>1, HoldsForAll
<1> QED BY <1>2 DEF AskedInv

\* A request that sets the fields of an assignment
LEMMA AssignmentAsked ==
    ASSUME AccessInv, AskedInv, FreshOK', AskedType', NEW m \in Nodes, NEW v \in Users,
           user' = user, asked'.limit = asked.limit,
           user[v].status = "live" =>
               /\ asg'[m][v].enabled = asked'.asg[m][v].enabled
               /\ asg'[m][v].limit = asked'.asg[m][v].limit,
           \A n \in Nodes, u \in Users : n # m \/ u # v =>
                asg'[n][u] = asg[n][u] /\ asked'.asg[n][u] = asked.asg[n][u]
    PROVE  AskedInv'
<1>1. ASSUME NEW u \in Users PROVE HoldsFor(u)'
    <2>1. HoldsFor(u)
        BY HoldsForAll, Zenon DEF AskedInv
    <2> SUFFICES ASSUME user[u].status = "live", NEW n \in Nodes, asg'[n][u].assigned
                 PROVE  /\ asg'[n][u].enabled = asked'.asg[n][u].enabled
                        /\ asg'[n][u].limit = asked'.asg[n][u].limit
        BY <2>1, Zenon DEF HoldsFor
    <2>2. CASE n = m /\ u = v
        BY <2>2, Zenon
    <2>3. CASE n # m \/ u # v
        BY <2>1, <2>3, Zenon DEF HoldsFor
    <2> QED BY <2>2, <2>3, Zenon
<1>2. LastRequestHolds'
    BY <1>1, HoldsForAll, Zenon
<1> QED BY <1>2, Zenon DEF AskedInv

\* The rows as and what was asked for, ask, agree where user v is assigned to
\* the nodes ns, and are as before everywhere else.
AssignedAsAsked(as, ask, ns, v) ==
    /\ ask \in AskedRows
    /\ \A n \in Nodes, u \in Users :
         n \notin ns \/ u # v => ask[n][u] = asked.asg[n][u] /\ as[n][u] = asg[n][u]
    /\ \A n \in Nodes : n \in ns =>
         as[n][v].enabled = ask[n][v].enabled /\ as[n][v].limit = ask[n][v].limit

\* What assignUserTx writes is what was asked for.
LEMMA AssignAsked ==
    ASSUME AccessInv, AskedType, NEW ns, NEW v \in Users, NEW l \in Limits
    PROVE  AssignedAsAsked(assignUserTx(ns, v, l), AskedAssign(ns, v, l), ns, v)
<1> DEFINE r == [enabled |-> TRUE, limit |-> l]
<1>1. AskedAssign(ns, v, l)
        = [n \in Nodes |-> IF n \in ns THEN [asked.asg[n] EXCEPT ![v] = r] ELSE asked.asg[n]]
    BY Zenon DEF AskedAssign
<1>2. r \in AskedRow /\ r.enabled = TRUE /\ r.limit = l
    BY DEF AskedRow
<1> HIDE DEF r
<1>3. asked.asg \in AskedRows
    BY DEF AskedType
<1>4. /\ AskedAssign(ns, v, l) \in AskedRows
      /\ \A n \in Nodes : n \in ns => AskedAssign(ns, v, l)[n][v] = r
      /\ \A n \in Nodes, u \in Users :
                n \notin ns \/ u # v => AskedAssign(ns, v, l)[n][u] = asked.asg[n][u]
    BY <1>1, <1>2, <1>3 DEF AskedRows
<1>5. ASSUME NEW n \in Nodes, n \in ns
      PROVE  assignUserTx(ns, v, l)[n][v].enabled = TRUE /\ assignUserTx(ns, v, l)[n][v].limit = l
    <2> DEFINE R(k) == [assigned |-> TRUE, enabled |-> TRUE, limit |-> l,
                        used |-> asg[k][v].used, quota |-> quotaState(l, asg[k][v].used)]
               F(k) == IF k \in ns THEN [asg[k] EXCEPT ![v] = R(k)] ELSE asg[k]
               t == R(n)
    <2>0. assignUserTx(ns, v, l) = [k \in Nodes |-> F(k)]
        BY DEF assignUserTx
    <2>1. assignUserTx(ns, v, l)[n] = [asg[n] EXCEPT ![v] = t]
        <3>1. assignUserTx(ns, v, l)[n] = F(n)
            BY <2>0, Zenon
        <3>2. F(n) = [asg[n] EXCEPT ![v] = t]
            BY <1>5
        <3> QED BY <3>1, <3>2, Zenon
    <2>2. t.enabled = TRUE /\ t.limit = l
        OBVIOUS
    <2> HIDE DEF t
    <2>3. asg[n] \in [Users -> AssignmentRows]
        BY DEF AccessInv, RowsTypeOK
    <2>4. assignUserTx(ns, v, l)[n][v] = t
        BY <2>1, <2>3
    <2> QED BY <2>2, <2>4
<1>6. \A n \in Nodes, u \in Users :
                n \notin ns \/ u # v => assignUserTx(ns, v, l)[n][u] = asg[n][u]
    BY assignUserTxOK
<1> QED BY <1>2, <1>4, <1>5, <1>6, ZenonT(30) DEF AssignedAsAsked

\* CreateUser asks for the user's limit and for an assignment on every node of
\* the request; a new user has no other.
LEMMA CreateUserAsked ==
    ASSUME AccessInv, AskedInv, NEW v \in Users, NEW ns, NEW e \in BOOLEAN, NEW x \in Expiries,
           NEW l \in Limits, NEW now, CreateUser(v, ns, e, x, l, now)
    PROVE  AskedInv'
<1> DEFINE r == [status |-> "live", enabled |-> e, expires |-> x, enforced |-> x <= now,
                 limit |-> l, used |-> 0, quota |-> quotaState(l, 0)]
<1>1. /\ user[v].status = "none" /\ user' = [user EXCEPT ![v] = r]
      /\ asg' = assignUserTx(ns, v, 0) /\ request' = Overtaken
      /\ asked' = [asg |-> AskedAssign(ns, v, 0), limit |-> [asked.limit EXCEPT ![v] = l]]
    BY Zenon DEF CreateUser, Write, Commit
<1>2. r.limit = l
    OBVIOUS
<1> HIDE DEF r
<1>3. 0 \in Limits /\ AskedType /\ FreshOK
    BY LimitsNat DEF AskedInv
<1> DEFINE as == assignUserTx(ns, v, 0)
           ask == AskedAssign(ns, v, 0)
<1>4. /\ AssignedAsAsked(as, ask, ns, v) /\ asg' = as
      /\ asked' = [asg |-> ask, limit |-> [asked.limit EXCEPT ![v] = l]]
    BY <1>1, <1>3, AssignAsked, Zenon
<1> HIDE DEF as, ask
<1>5. /\ AskedType' /\ asked'.asg = ask /\ asked'.limit[v] = l
      /\ \A u \in Users : u # v => asked'.limit[u] = asked.limit[u]
    BY <1>3, <1>4, Zenon DEF AskedType, AskedRows, AssignedAsAsked
<1>6. user'[v].limit = l /\ \A u \in Users : u # v => user'[u] = user[u]
    BY <1>1, <1>2, ZenonT(30) DEF AccessInv, RowsTypeOK
<1>7. FreshOK'
    BY <1>1, <1>3, OvertakenFresh
<1>8. ASSUME NEW u \in Users PROVE HoldsFor(u)'
    <2>1. HoldsFor(u)
        BY HoldsForAll DEF AskedInv
    <2>2. CASE u = v
        <3> SUFFICES ASSUME NEW n \in Nodes, asg'[n][v].assigned
                     PROVE  /\ asg'[n][v].enabled = asked'.asg[n][v].enabled
                            /\ asg'[n][v].limit = asked'.asg[n][v].limit
            BY <1>5, <1>6, <2>2, Zenon DEF HoldsFor
        <3>1. ~asg[n][v].assigned
            BY <1>1, Zenon DEF AccessInv, RowsOK
        <3>2. n \in ns
            BY <1>4, <3>1, Zenon DEF AssignedAsAsked
        <3> QED BY <1>4, <1>5, <3>2, Zenon DEF AssignedAsAsked
    <2>3. CASE u # v
        <3>1. \A n \in Nodes : asg'[n][u] = asg[n][u] /\ asked'.asg[n][u] = asked.asg[n][u]
            BY <1>4, <1>5, <2>3, Zenon DEF AssignedAsAsked
        <3> QED BY <1>5, <1>6, <2>1, <2>3, <3>1, Zenon DEF HoldsFor
    <2> QED BY <2>2, <2>3
<1> QED BY <1>5, <1>7, <1>8, HoldsForAll DEF AskedInv

\* AssignUser asks for an assignment that is enabled, with the limit given.
LEMMA AssignUserAsked ==
    ASSUME AccessInv, AskedInv, NEW v \in Users, NEW m \in Nodes, NEW l \in Limits, NEW now,
           AssignUser(v, m, l, now)
    PROVE  AskedInv'
<1> DEFINE as == assignUserTx({m}, v, l)
           ask == AskedAssign({m}, v, l)
<1>1. /\ user' = user /\ asg' = as /\ request' = Overtaken
      /\ asked' = [asked EXCEPT !.asg = ask]
    BY Zenon DEF AssignUser, Write, Commit
<1>2. AskedType /\ FreshOK
    BY Zenon DEF AskedInv
<1>3. AssignedAsAsked(as, ask, {m}, v)
    BY <1>2, AssignAsked, Zenon
<1> HIDE DEF as, ask
<1>4. /\ ask \in AskedRows
      /\ as[m][v].enabled = ask[m][v].enabled /\ as[m][v].limit = ask[m][v].limit
      /\ \A n \in Nodes, u \in Users : n # m \/ u # v =>
                ask[n][u] = asked.asg[n][u] /\ as[n][u] = asg[n][u]
    BY <1>3, Zenon DEF AssignedAsAsked
<1>5. AskedType' /\ asked'.asg = ask /\ asked'.limit = asked.limit
    BY <1>1, <1>2, <1>4, Zenon DEF AskedType, AskedRows
<1>6. FreshOK'
    BY <1>1, <1>2, OvertakenFresh
<1>7. /\ asg'[m][v].enabled = asked'.asg[m][v].enabled
      /\ asg'[m][v].limit = asked'.asg[m][v].limit
      /\ \A n \in Nodes, u \in Users : n # m \/ u # v =>
                asg'[n][u] = asg[n][u] /\ asked'.asg[n][u] = asked.asg[n][u]
    BY <1>1, <1>4, <1>5, Zenon
<1> QED BY <1>1, <1>5, <1>6, <1>7, AssignmentAsked, Zenon

\* UpdateUser asks for the limit.
LEMMA UpdateUserAsked ==
    ASSUME AccessInv, AskedInv, NEW v \in Users, NEW e \in BOOLEAN, NEW x \in Expiries,
           NEW l \in Limits, NEW now \in 0..clock, UpdateUser(v, e, x, l, now)
    PROVE  AskedInv'
<1>1. /\ updateUserTx(v, e, x, l, now) /\ request' = Overtaken
      /\ asked' = [asked EXCEPT !.limit[v] = l]
    BY DEF UpdateUser
<1>2. AskedType /\ FreshOK
    BY DEF AskedInv
<1>3. FreshOK'
    BY <1>1, <1>2, OvertakenFresh
<1>4. /\ user[v].status = "live" /\ asg' = asg /\ user'[v].limit = l
      /\ \A u \in Users : u # v => user'[u] = user[u]
    BY <1>1, UpdateUserRows
<1>5. /\ AskedType' /\ asked'.asg = asked.asg /\ asked'.limit[v] = l
      /\ \A u \in Users : u # v => asked'.limit[u] = asked.limit[u]
    BY <1>1, <1>2, AskedLimit
<1> QED BY <1>3, <1>4, <1>5, UserAsked

\* A request that reads the row and writes it at once changes what it was given.
LEMMA OtherUpdateAssignmentAsked ==
    ASSUME AccessInv, AskedInv, NEW v \in Users, NEW m \in Nodes, NEW given,
           NEW e \in BOOLEAN, NEW l \in Limits, NEW now,
           OtherUpdateAssignment(v, m, given, e, l, now)
    PROVE  AskedInv'
<1> DEFINE e1 == IF "enabled" \in given THEN e ELSE asg[m][v].enabled
           l1 == IF "limit" \in given THEN l ELSE asg[m][v].limit
<1>1. /\ user[v].status = "live" /\ UpdateAssignment(v, m, e1, l1, now) /\ request' = Overtaken
      /\ asked' = AskedFields(m, v, given, e, l)
    BY Zenon DEF OtherUpdateAssignment, AskedFields
<1>2. AskedType /\ FreshOK /\ e1 \in BOOLEAN /\ l1 \in Limits
    BY RowFacts, AsgRowType DEF AskedInv
<1>3. FreshOK'
    BY <1>1, <1>2, OvertakenFresh
<1>4. /\ AskedType' /\ asked'.limit = asked.limit
      /\ asked'.asg[m][v].enabled = IF "enabled" \in given THEN e ELSE asked.asg[m][v].enabled
      /\ asked'.asg[m][v].limit = IF "limit" \in given THEN l ELSE asked.asg[m][v].limit
      /\ \A n \in Nodes, u \in Users : n # m \/ u # v => asked'.asg[n][u] = asked.asg[n][u]
    BY <1>1, <1>2, AskedAssignment
<1> HIDE DEF e1, l1
<1>5. /\ user' = user /\ asg[m][v].assigned
      /\ asg'[m][v].enabled = e1 /\ asg'[m][v].limit = l1
      /\ \A n \in Nodes, u \in Users : n # m \/ u # v => asg'[n][u] = asg[n][u]
    BY <1>1, <1>2, UpdateAssignmentRows, Zenon
<1>6. /\ asg[m][v].enabled = asked.asg[m][v].enabled /\ asg[m][v].limit = asked.asg[m][v].limit
    BY <1>1, <1>5, Zenon DEF AskedInv, LastRequestHolds
<1>7. /\ asg'[m][v].enabled = asked'.asg[m][v].enabled
      /\ asg'[m][v].limit = asked'.asg[m][v].limit
    BY <1>4, <1>5, <1>6 DEF e1, l1
<1> QED BY <1>3, <1>4, <1>5, <1>7, AssignmentAsked, Zenon

\* A request for a user that was not overtaken writes back the limit that is
\* there; one that was has asked for the older limit.
LEMMA EndUpdateUserAsked ==
    ASSUME AccessInv, AskedInv, EndUpdateUser
    PROVE  AskedInv'
<1> DEFINE v == request.user
           l == request.limit
<1>1. /\ request \in UserRequests /\ v \in Users /\ request.enabled \in BOOLEAN
      /\ request.expires \in Expiries /\ l \in Limits /\ request.kind = "user"
      /\ request.now \in 0..clock
    <2>1. request \in UserRequests /\ request.kind = "user"
        BY RequestFields DEF EndUpdateUser
    <2>2. request # NoRequest
        BY <2>1 DEF NoRequest
    <2>3. request.now <= clock
        BY <2>2 DEF AccessInv, FlightOK
    <2>4. /\ v \in Users /\ request.enabled \in BOOLEAN /\ request.expires \in Expiries
          /\ l \in Limits /\ request.now \in 0..LastTime
        BY <2>1 DEF UserRequests
    <2>5. request.now \in 0..clock
        BY <2>3, <2>4, RowFacts
    <2> QED BY <2>1, <2>4, <2>5
<1>2. AskedType /\ FreshOK /\ request' = NoRequest
    BY Zenon DEF AskedInv, EndUpdateUser
<1>3. FreshOK'
    BY <1>2 DEF FreshOK, NoRequest
<1>4. CASE /\ updateUserTx(v, request.enabled, request.expires, l, request.now)
           /\ asked' = IF request.fresh THEN asked ELSE [asked EXCEPT !.limit[v] = l]
    <2>1. /\ user[v].status = "live" /\ asg' = asg /\ user'[v].limit = l
          /\ \A u \in Users : u # v => user'[u] = user[u]
        BY <1>1, <1>4, UpdateUserRows
    <2>2. /\ AskedType' /\ asked'.asg = asked.asg /\ asked'.limit[v] = l
          /\ \A u \in Users : u # v => asked'.limit[u] = asked.limit[u]
        <3>1. CASE request.fresh
            <4>1. asked' = asked
                BY <1>4, <3>1
            <4>2. l = user[v].limit /\ user[v].limit = asked.limit[v]
                BY <1>1, <1>2, <2>1, <3>1 DEF FreshOK, AskedInv, LastRequestHolds
            <4> QED BY <1>2, <4>1, <4>2 DEF AskedType, AskedRows
        <3>2. CASE ~request.fresh
            <4>1. asked' = [asked EXCEPT !.limit[v] = l]
                BY <1>4, <3>2
            <4> HIDE DEF v, l
            <4> QED BY <1>1, <1>2, <4>1, AskedLimit
        <3> QED BY <3>1, <3>2
    <2> HIDE DEF v, l
    <2> QED BY <1>1, <1>3, <2>1, <2>2, UserAsked
<1>5. CASE UNCHANGED <<user, asg, node, gen, pub, late, asked>>
    BY <1>3, <1>5, NothingAsked
<1> QED BY <1>4, <1>5 DEF EndUpdateUser

\* So it is with a request for an assignment, for the fields it left out.
LEMMA EndUpdateAssignmentAsked ==
    ASSUME AccessInv, AskedInv, EndUpdateAssignment
    PROVE  AskedInv'
<1> DEFINE v == request.user
           m == request.node
           given == IF request.fresh THEN request.given ELSE {"enabled", "limit"}
<1>1. /\ request \in AssignmentRequests /\ v \in Users /\ m \in Nodes
      /\ request.enabled \in BOOLEAN /\ request.limit \in Limits /\ request.kind = "assignment"
    <2>1. request \in AssignmentRequests /\ request.kind = "assignment"
        BY RequestFields DEF EndUpdateAssignment
    <2> QED BY <2>1 DEF AssignmentRequests
<1>2. AskedType /\ FreshOK /\ request' = NoRequest
    BY Zenon DEF AskedInv, EndUpdateAssignment
<1>3. FreshOK'
    BY <1>2 DEF FreshOK, NoRequest
<1>4. CASE /\ UpdateAssignment(v, m, request.enabled, request.limit, request.now)
           /\ asked' = AskedFields(m, v, given, request.enabled, request.limit)
    <2>1. /\ user' = user /\ asg[m][v].assigned
          /\ asg'[m][v].enabled = request.enabled /\ asg'[m][v].limit = request.limit
          /\ \A n \in Nodes, u \in Users : n # m \/ u # v => asg'[n][u] = asg[n][u]
        <3>1. UpdateAssignment(v, m, request.enabled, request.limit, request.now)
            BY <1>4
        <3> HIDE DEF v, m
        <3> QED BY <1>1, <3>1, UpdateAssignmentRows
    <2>2. /\ "enabled" \notin given => request.enabled = asg[m][v].enabled
          /\ "limit" \notin given => request.limit = asg[m][v].limit
        <3>1. CASE request.fresh
            BY <1>1, <1>2, <3>1, Zenon DEF FreshOK
        <3>2. CASE ~request.fresh
            BY <3>2
        <3> QED BY <3>1, <3>2
    <2> HIDE DEF given, v, m
    <2>3. /\ AskedType' /\ asked'.limit = asked.limit
          /\ asked'.asg[m][v].enabled
                = IF "enabled" \in given THEN request.enabled ELSE asked.asg[m][v].enabled
          /\ asked'.asg[m][v].limit
                = IF "limit" \in given THEN request.limit ELSE asked.asg[m][v].limit
          /\ \A n \in Nodes, u \in Users : n # m \/ u # v => asked'.asg[n][u] = asked.asg[n][u]
        <3>1. asked' = AskedFields(m, v, given, request.enabled, request.limit)
            BY <1>4
        <3> QED BY <1>1, <1>2, <3>1, AskedAssignment
    <2>4. user[v].status = "live" =>
               /\ asg[m][v].enabled = asked.asg[m][v].enabled
               /\ asg[m][v].limit = asked.asg[m][v].limit
        BY <1>1, <2>1, Zenon DEF AskedInv, LastRequestHolds
    <2>5. user[v].status = "live" =>
               /\ asg'[m][v].enabled = asked'.asg[m][v].enabled
               /\ asg'[m][v].limit = asked'.asg[m][v].limit
        BY <2>1, <2>2, <2>3, <2>4
    <2> QED BY <1>1, <1>3, <2>1, <2>3, <2>5, AssignmentAsked, Zenon
<1>5. CASE UNCHANGED <<user, asg, node, gen, pub, late, asked>>
    BY <1>3, <1>5, NothingAsked
<1> QED BY <1>4, <1>5 DEF EndUpdateAssignment, AskedFields

\* Every request of an administrator leaves the rows as the requests asked.
LEMMA AdministratorAsked ==
    ASSUME AccessInv, AskedInv, Administrator
    PROVE  AskedInv'
<1> DEFINE Goal == AskedInv'
<1>0. FreshOK /\ (request' = Overtaken => FreshOK')
    BY OvertakenFresh DEF AskedInv
<1>1. ASSUME NEW u \in Users, NEW now \in Captured, NEW ns \in SUBSET Nodes,
             NEW e \in BOOLEAN, NEW x \in Expiries, NEW l \in Limits,
             CreateUser(u, ns, e, x, l, now)
      PROVE  Goal
    BY <1>1, CreateUserAsked
<1>2. ASSUME NEW u \in Users, NEW now \in Captured,
             NEW e \in BOOLEAN, NEW x \in Expiries, NEW l \in Limits,
             UpdateUser(u, e, x, l, now)
      PROVE  Goal
    BY <1>2, CapturedPast, UpdateUserAsked
<1>3. ASSUME NEW u \in Users, NEW now \in Captured, ArchiveUser(u, now) PROVE Goal
    <2> DEFINE r == [user[u] EXCEPT !.enabled = FALSE, !.status = "archived"]
    <2>0. [user EXCEPT ![u].enabled = FALSE, ![u].status = "archived"] = [user EXCEPT ![u] = r]
        BY Zenon DEF AccessInv, RowsTypeOK
    <2>1. /\ request' = Overtaken /\ asked' = asked /\ asg' = asg
          /\ user' = [user EXCEPT ![u] = r]
        BY <1>3, <2>0, Zenon DEF ArchiveUser, Write, Commit
    <2>2. \A w \in Users : user'[w].status = "live" =>
                user[w].status = "live" /\ user'[w].limit = user[w].limit
        <3>1. r.status = "archived"
            BY RowFacts, Zenon DEF UserRows
        <3> HIDE DEF r
        <3>2. user'[u] = r /\ \A w \in Users : w # u => user'[w] = user[w]
            BY <2>1 DEF AccessInv, RowsTypeOK
        <3> QED BY <3>1, <3>2
    <2> QED BY <1>0, <2>1, <2>2, NothingAsked
<1>4. ASSUME NEW u \in Users, NEW now \in Captured, NEW ns, RequestUserKick(u, ns, now)
      PROVE  Goal
    BY <1>0, <1>4, NothingAsked DEF RequestUserKick, Write, Commit
<1>5. ASSUME NEW u \in Users, NEW now \in Captured, NEW n \in Nodes, NEW l \in Limits,
             AssignUser(u, n, l, now)
      PROVE  Goal
    BY <1>5, AssignUserAsked
<1>6. ASSUME NEW u \in Users, NEW now \in Captured, NEW n \in Nodes, UnassignUser(u, n, now)
      PROVE  Goal
    <2> DEFINE r == [asg[n][u] EXCEPT !.assigned = FALSE]
    <2>1. /\ request' = Overtaken /\ asked' = asked /\ user' = user
          /\ asg' = [asg EXCEPT ![n][u] = r]
        BY <1>6 DEF UnassignUser, Write, Commit
    <2>2. r \in AssignmentRows /\ ~r.assigned
        BY RowFacts, Zenon DEF AssignmentRows
    <2> HIDE DEF r
    <2>3. /\ asg'[n][u] = r
          /\ \A m \in Nodes, w \in Users : m # n \/ w # u => asg'[m][w] = asg[m][w]
        BY <2>1, <2>2, AsgExcept
    <2>4. \A m \in Nodes, w \in Users : asg'[m][w].assigned =>
                /\ asg[m][w].assigned /\ asg'[m][w].enabled = asg[m][w].enabled
                /\ asg'[m][w].limit = asg[m][w].limit
        BY <2>2, <2>3, Zenon
    <2> QED BY <1>0, <2>1, <2>4, NothingAsked
<1>7. ASSUME NEW u \in Users, NEW e \in BOOLEAN, NEW x \in Expiries, BeginUpdateUser(u, e, x)
      PROVE  Goal
    <2>1. /\ UNCHANGED <<user, asg, asked>> /\ request'.kind = "user" /\ request'.user = u
          /\ request'.limit = user[u].limit
        BY <1>7 DEF BeginUpdateUser
    <2>2. FreshOK'
        BY <2>1 DEF FreshOK
    <2> QED BY <2>1, <2>2, NothingAsked
<1>8. ASSUME NEW u \in Users, NEW n \in Nodes,
             NEW given \in (SUBSET {"enabled", "limit"}) \ {{}},
             NEW e \in BOOLEAN, NEW l \in Limits, BeginUpdateAssignment(u, n, given, e, l)
      PROVE  Goal
    <2>1. /\ UNCHANGED <<user, asg, asked>> /\ request'.kind = "assignment"
          /\ request'.user = u /\ request'.node = n /\ request'.given = given
          /\ request'.enabled = IF "enabled" \in given THEN e ELSE asg[n][u].enabled
          /\ request'.limit = IF "limit" \in given THEN l ELSE asg[n][u].limit
        BY <1>8 DEF BeginUpdateAssignment
    <2>2. FreshOK'
        BY <2>1 DEF FreshOK
    <2> QED BY <2>1, <2>2, NothingAsked
<1>9. ASSUME NEW u \in Users, NEW n \in Nodes,
             NEW given \in (SUBSET {"enabled", "limit"}) \ {{}},
             NEW e \in BOOLEAN, NEW l \in Limits, NEW now \in Captured,
             OtherUpdateAssignment(u, n, given, e, l, now)
      PROVE  Goal
    BY <1>9, OtherUpdateAssignmentAsked
<1>10. ASSUME NEW n \in Nodes, NEW e \in BOOLEAN, NEW now \in Captured, UpdateNode(n, e, now)
       PROVE  Goal
    BY <1>0, <1>10, NothingAsked DEF UpdateNode, Write, Commit
<1>11. ASSUME NEW n \in Nodes, ArchiveNode(n) PROVE Goal
    BY <1>0, <1>11, NothingAsked DEF ArchiveNode, Write, Commit
<1> HIDE DEF Goal
<1>12. Goal
    BY <1>1, <1>2, <1>3, <1>4, <1>5, <1>6, <1>7, <1>8, <1>9, <1>10, <1>11, Zenon DEF Administrator
<1> QED BY <1>12 DEF Goal

\* So does every step of the server.
LEMMA AskedStep ==
    ASSUME AccessInv, AskedInv, AccessNext
    PROVE  AskedInv'
<1> DEFINE Goal == AskedInv'
<1>0. FreshOK
    BY DEF AskedInv
<1>1. ASSUME NEW n \in Nodes, NEW u \in Users, NEW now \in Captured, IngestTraffic(n, u, now)
      PROVE  Goal
    <2>1. request' = request /\ asked' = asked
        BY <1>1 DEF IngestTraffic
    <2>2. /\ \A w \in Users : user'[w].limit = user[w].limit /\ user'[w].status = user[w].status
          /\ \A m \in Nodes, w \in Users :
                /\ asg'[m][w].assigned = asg[m][w].assigned
                /\ asg'[m][w].enabled = asg[m][w].enabled /\ asg'[m][w].limit = asg[m][w].limit
        BY <1>1, IngestTrafficRows, Zenon
    <2>3. FreshOK'
        BY <1>0, <2>1, <2>2, UntouchedFresh
    <2> QED BY <2>1, <2>2, <2>3, NothingAsked
<1>2. ASSUME MarkExpired PROVE Goal
    <2>1. /\ request' = request /\ asked' = asked /\ asg' = asg
          /\ user' = [u \in Users |-> IF u \in Marked THEN [user[u] EXCEPT !.enforced = TRUE]
                                      ELSE user[u]]
        BY <1>2 DEF MarkExpired, Commit
    <2>2. ASSUME NEW u \in Users
          PROVE  user'[u].status = user[u].status /\ user'[u].limit = user[u].limit
        <3> DEFINE r == [user[u] EXCEPT !.enforced = TRUE]
        <3>1. r.status = user[u].status /\ r.limit = user[u].limit
            BY RowFacts, Zenon DEF UserRows
        <3>2. user'[u] \in {r, user[u]}
            BY <2>1
        <3> HIDE DEF r
        <3> QED BY <3>1, <3>2
    <2>3. FreshOK'
        BY <1>0, <2>1, <2>2, UntouchedFresh
    <2> QED BY <2>1, <2>2, <2>3, NothingAsked
<1>3. ASSUME ListExpired \/ MarkExpiredRefused \/ ServerFails \/ Tick PROVE Goal
    <2>1. request' \in {request, NoRequest} /\ UNCHANGED <<user, asg, asked>>
        BY <1>3 DEF ListExpired, MarkExpiredRefused, ServerFails, Tick
    <2>2. FreshOK'
        BY <1>0, <2>1, UntouchedFresh
    <2> QED BY <2>1, <2>2, NothingAsked
<1> HIDE DEF Goal
<1>4. Goal
    <2>1. ASSUME Administrator \/ EndUpdateUser \/ EndUpdateAssignment PROVE Goal
        BY <2>1, AdministratorAsked, EndUpdateUserAsked, EndUpdateAssignmentAsked DEF Goal
    <2> QED BY <1>1, <1>2, <1>3, <2>1 DEF AccessNext, Traffic
<1> QED BY <1>4 DEF Goal

\* Initially nothing was asked for but what the rows say.
LEMMA AskedInit ==
    ASSUME AccessInit
    PROVE  AskedInv
<1>1. request = NoRequest
    BY Zenon DEF AccessInit
<1>2. /\ \A u \in Users : user[u].limit = 0
      /\ \A n \in Nodes, u \in Users : asg[n][u].enabled = TRUE /\ asg[n][u].limit = 0
    <2>1. PICK members \in SUBSET bound.users : \E x \in [members -> Expiries] :
            /\ user = [u \in Users |->
                  [status |-> IF u \in members THEN "live" ELSE "none", enabled |-> TRUE,
                   expires |-> IF u \in members THEN x[u] ELSE Never, enforced |-> FALSE,
                   limit |-> 0, used |-> 0, quota |-> "unlimited"]]
            /\ asg = [n \in Nodes |-> [u \in Users |->
                  [assigned |-> u \in members, enabled |-> TRUE, limit |-> 0,
                   used |-> 0, quota |-> "unlimited"]]]
        BY Zenon DEF AccessInit
    <2> QED BY <2>1
<1> DEFINE r == [enabled |-> TRUE, limit |-> 0]
<1>3. asked = [asg |-> [n \in Nodes |-> [u \in Users |-> r]], limit |-> [u \in Users |-> 0]]
    BY Zenon DEF AccessInit
<1>4. r \in AskedRow /\ r.enabled = TRUE /\ r.limit = 0
    BY LimitsNat DEF AskedRow
<1> HIDE DEF r
<1>5. AskedType /\ \A u \in Users : asked.limit[u] = 0 /\ \A n \in Nodes : asked.asg[n][u] = r
    BY <1>3, <1>4, LimitsNat DEF AskedType, AskedRows
<1> QED BY <1>1, <1>2, <1>4, <1>5, ZenonT(30) DEF AskedInv, LastRequestHolds, FreshOK, NoRequest
=============================================================================
