----------------------------- MODULE KickProofs ------------------------------
(*****************************************************************************)
(* What the agent knows of the kicks of its node, that every step keeps it,  *)
(* and so that nobody keeps a connection without a right to it, for any      *)
(* users, nodes, limits and bounds.                                          *)
(*****************************************************************************)
EXTENDS KickDelivery, AccessProofs

Busy == {"fetched", "queued", "cached", "mark", "kicked"}

AgentTypeOK ==
    /\ applied \in Nat /\ saved \in Nat
    /\ cache \in Snapshots /\ env \in Snapshots
    /\ queued \in [Users -> Nat] /\ done \in [Users -> Nat] /\ kicking \in [Users -> Nat]
    /\ pc \in Busy \cup {"idle", "usageMark"}
    /\ session \subseteq Users /\ split \in BOOLEAN /\ full \in BOOLEAN

EntitledUsers == {u \in Users : Entitled(Host, u)}

\* At time t the snapshot does not let the user in.
Refuses(s, u, t) == ~Admits(s, u) \/ s.users[u].expires <= t

\* A snapshot that carries the newest kick, g[u], of a user who has lost the
\* node refuses the user.
Told(s, g, us, t) ==
    \A u \in Users : /\ s.kicks[u] <= g[u]
                     /\ s.kicks[u] = g[u] /\ u \notin us => Refuses(s, u, t)

\* No kick is known to the agent that was not requested.
Requested ==
    \A u \in Users : /\ done[u] <= gen[Host][u] /\ kicking[u] <= gen[Host][u]
                     /\ queued[u] <= gen[Host][u]

\* Whoever is connected after the newest kick has a right to the node.
SessionsOK ==
    ~split => \A u \in session :
        done[u] = gen[Host][u] \/ kicking[u] = gen[Host][u] => u \in EntitledUsers

\* The cache has seen every kick that was executed or is about to be.
CacheLeads ==
    ~split => \A u \in Users :
        /\ done[u] <= cache.kicks[u] /\ kicking[u] <= cache.kicks[u]
        /\ queued[u] <= cache.kicks[u] \/ (pc = "queued" /\ queued[u] <= env.kicks[u])

\* The kicks listed are of the queue, and all of it unless they are KickLimit.
Listed == {u \in Users : kicking[u] # 0}
ListingOK ==
    /\ pc \notin {"mark", "usageMark"} => kicking = NoKicks
    /\ \A u \in Users : kicking[u] \in {0, queued[u]}
    /\ pc \in {"mark", "usageMark"} /\ Cardinality(Listed) # KickLimit => kicking = queued

\* Where the poll is with the kicks of its snapshot
PollOK ==
    /\ pc \in Busy =>
         /\ env.version <= pub[Host].version
         /\ env.version = pub[Host].version => env = pub[Host]
         /\ \A u \in Users : cache.kicks[u] <= env.kicks[u]
    /\ pc \in {"queued", "cached", "mark"} =>
         \A u \in Users : env.kicks[u] <= queued[u] \/ env.kicks[u] <= done[u]
    /\ pc = "kicked" =>
         \A u \in Users : env.kicks[u] <= done[u] \/ (full /\ env.kicks[u] <= queued[u])

\* An applied version had its kicks executed, except those the limit left.
AppliedOK ==
    \A v \in {applied, saved} :
        /\ v <= pub[Host].version
        /\ v = pub[Host].version =>
             \A u \in Users : gen[Host][u] <= done[u] \/ (full /\ gen[Host][u] <= queued[u])

AgentInv ==
    /\ AgentTypeOK
    /\ Told(cache, gen[Host], EntitledUsers, clock)
    /\ Told(env, gen[Host], EntitledUsers, clock)
    /\ Requested /\ SessionsOK /\ CacheLeads /\ ListingOK /\ PollOK /\ AppliedOK


\* What the invariant of the rows says of the node whose agent is modelled.
LEMMA HostFacts ==
    ASSUME AccessInv
    PROVE  /\ Host \in Nodes /\ Host \in Kickable
           /\ gen[Host] \in [Users -> Nat] /\ pub[Host] \in Snapshots
           /\ pub[Host].kicks = gen[Host] /\ pub[Host].version \in Nat
           /\ \A u \in Users : gen[Host][u] \in Nat
           /\ clock \in Nat
<1>1. Host \in Nodes /\ Host \in Kickable
    BY HostAssumption DEF Kickable
<1>2. /\ gen[Host] \in [Users -> Nat] /\ pub[Host] \in Snapshots
      /\ pub[Host].kicks = gen[Host]
    BY <1>1 DEF AccessInv, RowsTypeOK, KicksPublished
<1>3. pub[Host].version \in Nat
    BY <1>2 DEF Snapshots
<1> QED BY <1>1, <1>2, <1>3, RowFacts

\* Versions, kick generations and expiries in a snapshot are numbers.
LEMMA SnapshotTypes ==
    ASSUME NEW s \in Snapshots
    PROVE  /\ s.version \in Nat
           /\ \A u \in Users : s.kicks[u] \in Nat /\ s.users[u].expires \in Nat
BY NeverType, Zenon DEF Snapshots, Entries

\* The newest snapshot refuses whoever has no right to the node.
LEMMA PubTold ==
    ASSUME AccessInv
    PROVE  Told(pub[Host], gen[Host], EntitledUsers, clock)
<1> SUFFICES ASSUME NEW u \in Users, u \notin EntitledUsers
             PROVE  Refuses(pub[Host], u, clock)
    BY HostFacts DEF Told
<1>1. ~Entitled(Host, u)
    BY DEF EntitledUsers
<1>2. EntryOK(user, asg, node, clock, Host, u, pub[Host].users[u])
    BY HostFacts, RowFacts, Zenon
<1>3. user[u].enforced => user[u].expires <= clock
    BY Zenon DEF AccessInv, RowsOK
<1> QED BY <1>1, <1>2, <1>3, Zenon DEF Entitled, EntryOK, Refuses, Admits

\* What a snapshot tells stays true until the next kick.
LEMMA ToldStays ==
    ASSUME AccessInv, AccessInv', LossStep, Grows,
           NEW s \in Snapshots, Told(s, gen[Host], EntitledUsers, clock)
    PROVE  Told(s, gen'[Host], EntitledUsers', clock')
<1>1. /\ \A u \in Users : s.kicks[u] \in Nat /\ s.users[u].expires \in Nat
      /\ \A u \in Users : gen[Host][u] \in Nat /\ gen'[Host][u] \in Nat
      /\ clock \in Nat /\ clock' \in Nat
    BY HostFacts, SnapshotTypes DEF AccessInv, RowsTypeOK, FlightOK
<1>2. /\ \A u \in Users : gen'[Host][u] >= gen[Host][u]
      /\ clock' >= clock
    BY HostFacts, Zenon DEF Grows
<1>3. \A u \in Users :
        gen'[Host][u] = gen[Host][u] /\ u \notin EntitledUsers' => u \notin EntitledUsers
    <2> SUFFICES ASSUME NEW u \in Users, gen'[Host][u] = gen[Host][u],
                        u \in EntitledUsers, u \notin EntitledUsers'
                 PROVE  FALSE
        OBVIOUS
    <2>1. Entitled(Host, u) /\ ~Entitled(Host, u)'
        BY DEF EntitledUsers
    <2>2. gen'[Host][u] > gen[Host][u]
        BY <2>1, HostFacts, Zenon DEF LossStep
    <2> QED BY <1>1, <2>2
<1> SUFFICES ASSUME NEW u \in Users
             PROVE  /\ s.kicks[u] <= gen'[Host][u]
                    /\ s.kicks[u] = gen'[Host][u] /\ u \notin EntitledUsers'
                         => Refuses(s, u, clock')
    BY DEF Told
<1>4. s.kicks[u] <= gen[Host][u]
    BY DEF Told
<1>5. s.kicks[u] <= gen'[Host][u]
    BY <1>1, <1>2, <1>4
<1>6. ASSUME s.kicks[u] = gen'[Host][u], u \notin EntitledUsers'
      PROVE  Refuses(s, u, clock')
    <2>1. gen'[Host][u] = gen[Host][u]
        BY <1>1, <1>2, <1>4, <1>6
    <2>2. Refuses(s, u, clock)
        BY <1>3, <1>6, <2>1 DEF Told
    <2>3. s.users[u].expires <= clock => s.users[u].expires <= clock'
        BY <1>1, <1>2
    <2> QED BY <2>2, <2>3, Zenon DEF Refuses
<1> QED BY <1>5, <1>6

\* What the agent holds has its shape.
LEMMA AgentTypes ==
    ASSUME AgentInv
    PROVE  /\ cache \in Snapshots /\ env \in Snapshots
           /\ applied \in Nat /\ saved \in Nat /\ env.version \in Nat
           /\ queued \in [Users -> Nat] /\ done \in [Users -> Nat] /\ kicking \in [Users -> Nat]
           /\ \A u \in Users : /\ queued[u] \in Nat /\ done[u] \in Nat /\ kicking[u] \in Nat
                               /\ cache.kicks[u] \in Nat /\ env.kicks[u] \in Nat
           /\ session \subseteq Users /\ split \in BOOLEAN /\ full \in BOOLEAN
BY SnapshotTypes, Zenon DEF AgentInv, AgentTypeOK

\* Steps of the server, seen from the agent
LEMMA ServerKeepsAgentInv ==
    ASSUME AccessInv, AccessInv', LossStep, Grows, AgentInv, UNCHANGED agent
    PROVE  AgentInv'
<1>0. UNCHANGED <<applied, saved, cache, queued, done, kicking, pc, env, session, split, full>>
    BY DEF agent
<1>1. AgentTypeOK'
    BY <1>0 DEF AgentInv, AgentTypeOK
<1>2. /\ Told(cache, gen[Host], EntitledUsers, clock)'
      /\ Told(env, gen[Host], EntitledUsers, clock)'
    <2>1. /\ Told(cache, gen'[Host], EntitledUsers', clock')
          /\ Told(env, gen'[Host], EntitledUsers', clock')
        BY AgentTypes, ToldStays, Zenon DEF AgentInv
    <2> QED BY <1>0, <2>1
<1>3. /\ \A u \in Users : /\ gen[Host][u] \in Nat /\ gen'[Host][u] \in Nat
                          /\ gen'[Host][u] >= gen[Host][u]
      /\ pub[Host].version \in Nat /\ pub'[Host].version \in Nat
      /\ pub'[Host].version >= pub[Host].version
      /\ pub'[Host].version = pub[Host].version => pub'[Host] = pub[Host] /\ gen'[Host] = gen[Host]
    <2>1. /\ Host \in Nodes /\ pub[Host].kicks = gen[Host] /\ pub[Host].version \in Nat
          /\ gen[Host] \in [Users -> Nat]
        BY HostFacts
    <2>2. /\ gen'[Host] \in [Users -> Nat] /\ pub'[Host] \in Snapshots
          /\ pub'[Host].kicks = gen'[Host]
        BY <2>1, Zenon DEF AccessInv, RowsTypeOK, KicksPublished
    <2>3. pub'[Host].version \in Nat
        BY <2>2 DEF Snapshots
    <2> QED BY <2>1, <2>2, <2>3, Zenon DEF Grows
<1>4. Requested'
    BY <1>0, <1>3, AgentTypes DEF AgentInv, Requested
<1>5. SessionsOK'
    <2> SUFFICES ASSUME ~split, NEW u \in session,
                        done[u] = gen'[Host][u] \/ kicking[u] = gen'[Host][u]
                 PROVE  u \in EntitledUsers'
        BY <1>0 DEF SessionsOK
    <2>1. u \in Users /\ done[u] <= gen[Host][u] /\ kicking[u] <= gen[Host][u]
        BY AgentTypes, Zenon DEF AgentInv, Requested
    <2>2. gen'[Host][u] = gen[Host][u]
        BY <1>3, <2>1, AgentTypes
    <2>3. u \in EntitledUsers
        BY <2>2 DEF AgentInv, SessionsOK
    <2>4. CASE u \notin EntitledUsers'
        <3>1. Entitled(Host, u) /\ ~Entitled(Host, u)'
            BY <2>1, <2>3, <2>4 DEF EntitledUsers
        <3>2. gen'[Host][u] > gen[Host][u]
            BY <2>1, <3>1, HostFacts DEF LossStep
        <3> QED BY <1>3, <2>1, <2>2, <3>2
    <2> QED BY <2>4
<1>6. CacheLeads'
    BY <1>0, Zenon DEF AgentInv, CacheLeads
<1>7. PollOK'
    <2>1. ASSUME pc \in Busy
          PROVE  /\ env.version <= pub'[Host].version
                 /\ env.version = pub'[Host].version => env = pub'[Host]
        <3>1. /\ env.version <= pub[Host].version
              /\ env.version = pub[Host].version => env = pub[Host]
            BY <2>1, Zenon DEF AgentInv, PollOK
        <3> QED BY <1>3, <3>1, AgentTypes
    <2> QED BY <1>0, <2>1, Zenon DEF AgentInv, PollOK
<1>8. AppliedOK'
    <2>1. ASSUME NEW v \in {applied, saved}
          PROVE  /\ v <= pub'[Host].version
                 /\ v = pub'[Host].version =>
                      \A u \in Users : gen'[Host][u] <= done[u] \/ (full /\ gen'[Host][u] <= queued[u])
        <3>1. /\ v <= pub[Host].version /\ v \in Nat
              /\ v = pub[Host].version =>
                   \A u \in Users : gen[Host][u] <= done[u] \/ (full /\ gen[Host][u] <= queued[u])
            BY AgentTypes, Zenon DEF AgentInv, AppliedOK
        <3>2. v = pub'[Host].version => pub'[Host].version = pub[Host].version
            BY <1>3, <3>1
        <3> QED BY <1>3, <3>1, <3>2
    <2> QED BY <1>0, <2>1 DEF AppliedOK
<1>11. ListingOK'
    BY <1>0, Zenon DEF AgentInv, ListingOK, Listed
<1> QED BY <1>11, <1>1, <1>2, <1>4, <1>5, <1>6, <1>7, <1>8 DEF AgentInv

\* Rights change only with the rows.
LEMMA EntitledStays ==
    ASSUME UNCHANGED <<user, asg>>
    PROVE  EntitledUsers' = EntitledUsers
BY DEF EntitledUsers, Entitled, Limited

\* The empty snapshot lets nobody in.
LEMMA NoSnapshotTold ==
    ASSUME AccessInv
    PROVE  NoSnapshot \in Snapshots /\ Told(NoSnapshot, gen[Host], EntitledUsers, clock)
<1>1. NoEntry \in Entries /\ ~NoEntry.listed
    BY NeverType DEF NoEntry, Entries
<1>2. /\ NoSnapshot.kicks = NoKicks /\ NoSnapshot.version = 0
      /\ NoSnapshot.users = [u \in Users |-> NoEntry]
    BY DEF NoSnapshot
<1>3. NoSnapshot \in Snapshots
    <2>1. [u \in Users |-> NoEntry] \in [Users -> Entries] /\ NoKicks \in [Users -> Nat]
        BY <1>1 DEF NoKicks
    <2> QED BY <2>1 DEF NoSnapshot, Snapshots
<1>4. ASSUME NEW u \in Users
      PROVE  NoSnapshot.kicks[u] <= gen[Host][u] /\ Refuses(NoSnapshot, u, clock)
    <2>1. NoSnapshot.kicks[u] = 0 /\ NoSnapshot.users[u] = NoEntry /\ gen[Host][u] \in Nat
        BY <1>2, HostFacts DEF NoKicks
    <2>2. ~Admits(NoSnapshot, u)
        BY <1>1, <2>1, Zenon DEF Admits
    <2> QED BY <2>1, <2>2 DEF Refuses
<1> QED BY <1>3, <1>4 DEF Told

\* A client that connects or leaves keeps the invariant: the cache lets in nobody
\* who was kicked by it.
LEMMA ConnectKeepsAgentInv ==
    ASSUME AccessInv, AgentInv, NEW v \in Users, Connect(v) \/ Disconnect(v)
    PROVE  AgentInv'
<1>0. /\ UNCHANGED <<clock, user, asg, gen, pub>>
      /\ UNCHANGED <<applied, saved, cache, queued, done, kicking, pc, env, split, full>>
    BY Zenon DEF Connect, Disconnect, access
<1>1. EntitledUsers' = EntitledUsers
    BY <1>0, EntitledStays
<1>2. session' \subseteq Users
    BY AgentTypes, Zenon DEF Connect, Disconnect
<1>3. SessionsOK'
    <2> SUFFICES ASSUME ~split, NEW u \in session',
                        done[u] = gen[Host][u] \/ kicking[u] = gen[Host][u]
                 PROVE  u \in EntitledUsers
        BY <1>0, <1>1 DEF SessionsOK
    <2>1. CASE u \in session
        BY <2>1 DEF AgentInv, SessionsOK
    <2>2. CASE u \notin session
        <3>1. u = v /\ Admits(cache, v) /\ clock < cache.users[v].expires
            BY <2>2 DEF Connect, Disconnect
        <3>2. /\ cache.kicks[v] <= gen[Host][v]
              /\ done[v] <= cache.kicks[v] /\ kicking[v] <= cache.kicks[v]
            BY Zenon DEF AgentInv, Told, CacheLeads
        <3>3. cache.kicks[v] = gen[Host][v]
            BY <3>1, <3>2, AgentTypes, HostFacts
        <3>4. ~Refuses(cache, v, clock)
            <4>1. ~(cache.users[v].expires <= clock)
                BY <3>1, AgentTypes, SnapshotTypes, HostFacts
            <4> QED BY <3>1, <4>1, Zenon DEF Refuses
        <3> QED BY <3>1, <3>3, <3>4, Zenon DEF AgentInv, Told
    <2> QED BY <2>1, <2>2
<1> QED BY <1>0, <1>1, <1>2, <1>3, Zenon
        DEF AgentInv, AgentTypeOK, Told, Requested, CacheLeads, ListingOK, Listed,
            PollOK, AppliedOK

\* Fetching the newest snapshot keeps the invariant.
LEMMA PollDesiredKeepsAgentInv ==
    ASSUME AccessInv, AgentInv, PollDesired
    PROVE  AgentInv'
<1>0. /\ UNCHANGED <<clock, user, asg, gen, pub>>
      /\ UNCHANGED <<applied, saved, cache, queued, done, kicking, session, split, full>>
      /\ pc = "idle" /\ pc' = "fetched" /\ env' = pub[Host]
    BY DEF PollDesired, access
<1>1. EntitledUsers' = EntitledUsers
    BY <1>0, EntitledStays
<1>2. pub[Host] \in Snapshots /\ pub[Host].kicks = gen[Host] /\ pub[Host].version \in Nat
    BY HostFacts
<1>3. AgentTypeOK'
    BY <1>0, <1>2, Zenon DEF AgentInv, AgentTypeOK, Busy
<1>4. /\ Told(cache, gen[Host], EntitledUsers, clock)'
      /\ Told(env, gen[Host], EntitledUsers, clock)'
    BY <1>0, <1>1, PubTold DEF AgentInv
<1>5. Requested' /\ SessionsOK' /\ AppliedOK'
    BY <1>0, <1>1, Zenon DEF AgentInv, Requested, SessionsOK, AppliedOK
<1>6. CacheLeads'
    BY <1>0, Zenon DEF AgentInv, CacheLeads
<1>7. PollOK'
    BY <1>0, <1>2 DEF AgentInv, PollOK, Told
<1>11. ListingOK'
    BY <1>0 DEF AgentInv, ListingOK, Listed
<1> QED BY <1>11, <1>3, <1>4, <1>5, <1>6, <1>7 DEF AgentInv

\* queueKicks keeps the invariant: the kicks of the snapshot are queued or done.
LEMMA QueueKicksKeepsAgentInv ==
    ASSUME AccessInv, AgentInv, QueueKicks
    PROVE  AgentInv'
<1>0. /\ UNCHANGED <<clock, user, asg, gen, pub>>
      /\ UNCHANGED <<applied, saved, cache, done, kicking, env, session, split, full>>
      /\ pc = "fetched" /\ pc' = "queued"
    BY DEF QueueKicks, access
<1>1. EntitledUsers' = EntitledUsers
    BY <1>0, EntitledStays
<1>2. /\ queued' \in [Users -> Nat]
      /\ \A u \in Users : queued'[u] =
            IF env.kicks[u] > done[u] /\ env.kicks[u] > queued[u] THEN env.kicks[u] ELSE queued[u]
    BY AgentTypes, Zenon DEF QueueKicks
<1>3. AgentTypeOK'
    BY <1>0, <1>2, Zenon DEF AgentInv, AgentTypeOK, Busy
<1>4. /\ Told(cache, gen[Host], EntitledUsers, clock)'
      /\ Told(env, gen[Host], EntitledUsers, clock)'
    BY <1>0, <1>1 DEF AgentInv
<1>5. Requested'
    BY <1>0, <1>2, AgentTypes, HostFacts, Zenon DEF AgentInv, Requested, Told
<1>6. SessionsOK'
    BY <1>0, <1>1, Zenon DEF AgentInv, SessionsOK
<1>9. AppliedOK'
    <2>1. ASSUME NEW u \in Users, gen[Host][u] <= queued[u] PROVE gen[Host][u] <= queued'[u]
        BY <1>2, <2>1, AgentTypes, HostFacts
    <2> QED BY <1>0, <2>1, Zenon DEF AgentInv, AppliedOK
<1>7. CacheLeads'
    BY <1>0, <1>2, AgentTypes DEF AgentInv, CacheLeads
<1>8. PollOK'
    BY <1>0, <1>2, AgentTypes DEF AgentInv, PollOK, Busy
<1>11. ListingOK'
    BY <1>0, AgentTypes DEF AgentInv, ListingOK, Listed, NoKicks
<1> QED BY <1>11, <1>3, <1>4, <1>5, <1>6, <1>7, <1>8, <1>9, Zenon DEF AgentInv

\* authCache.Apply keeps the invariant: from here on the cache refuses whom the
\* queued kicks are about.
LEMMA ApplyCacheKeepsAgentInv ==
    ASSUME AccessInv, AgentInv, ApplyCache
    PROVE  AgentInv'
<1>0. /\ UNCHANGED <<clock, user, asg, gen, pub>>
      /\ UNCHANGED <<applied, saved, queued, done, kicking, env, session, split, full>>
      /\ pc = "queued" /\ pc' = "cached" /\ cache' = env
    BY DEF ApplyCache, access
<1>1. EntitledUsers' = EntitledUsers
    BY <1>0, EntitledStays
<1>2. AgentTypeOK'
    BY <1>0 DEF AgentInv, AgentTypeOK, Busy
<1>3. /\ Told(cache, gen[Host], EntitledUsers, clock)'
      /\ Told(env, gen[Host], EntitledUsers, clock)'
    BY <1>0, <1>1 DEF AgentInv
<1>4. Requested' /\ SessionsOK' /\ AppliedOK'
    BY <1>0, <1>1, Zenon DEF AgentInv, Requested, SessionsOK, AppliedOK
<1>5. \A u \in Users : cache.kicks[u] <= env.kicks[u]
    BY <1>0, Zenon DEF AgentInv, PollOK, Busy
<1>6. CacheLeads'
    BY <1>0, <1>5, AgentTypes, SMTT(20) DEF AgentInv, CacheLeads
<1>7. PollOK'
    BY <1>0, AgentTypes DEF AgentInv, PollOK, Busy
<1>11. ListingOK'
    BY <1>0 DEF AgentInv, ListingOK, Listed
<1> QED BY <1>11, <1>2, <1>3, <1>4, <1>6, <1>7 DEF AgentInv

\* executePendingKicks keeps the invariant: no session of a listed user is left.
LEMMA ExecuteKicksKeepsAgentInv ==
    ASSUME AccessInv, AgentInv,
           ExecuteKicks("cached", "mark") \/ ExecuteKicks("idle", "usageMark")
    PROVE  AgentInv'
<1>0. /\ UNCHANGED <<clock, user, asg, gen, pub>>
      /\ UNCHANGED <<applied, saved, cache, queued, done, env, split, full>>
      /\ \/ pc = "cached" /\ pc' = "mark"
         \/ pc = "idle" /\ pc' = "usageMark"
      /\ \E S \in ListPendingKicks :
            /\ kicking' = [u \in Users |-> IF u \in S THEN queued[u] ELSE 0]
            /\ session' = session \ S
    <2>1. ExecuteKicks("cached", "mark") => /\ pc = "cached" /\ pc' = "mark"
        BY DEF ExecuteKicks
    <2>2. ExecuteKicks("idle", "usageMark") => /\ pc = "idle" /\ pc' = "usageMark"
        BY DEF ExecuteKicks
    <2> QED BY <2>1, <2>2, Zenon DEF ExecuteKicks, access
<1>1. EntitledUsers' = EntitledUsers
    BY <1>0, EntitledStays
<1>a. PICK S \in ListPendingKicks :
         /\ kicking' = [u \in Users |-> IF u \in S THEN queued[u] ELSE 0]
         /\ session' = session \ S
    BY <1>0, Zenon
<1>b. /\ S \subseteq Users /\ \A u \in S : queued[u] # 0
      /\ S = Waiting \/ Cardinality(S) = KickLimit
    BY Zenon DEF ListPendingKicks, Waiting
<1>c. /\ kicking' \in [Users -> Nat] /\ session' \subseteq Users
      /\ \A u \in Users : kicking'[u] = IF u \in S THEN queued[u] ELSE 0
    BY <1>a, AgentTypes
<1>2. AgentTypeOK'
    BY <1>0, <1>c, Zenon DEF AgentInv, AgentTypeOK, Busy
<1>3. /\ Told(cache, gen[Host], EntitledUsers, clock)'
      /\ Told(env, gen[Host], EntitledUsers, clock)'
    BY <1>0, <1>1 DEF AgentInv
<1>4. Requested' /\ AppliedOK'
    <2>1. \A u \in Users : kicking'[u] <= gen[Host][u]
        BY <1>c, HostFacts DEF AgentInv, Requested
    <2> QED BY <1>0, <2>1, Zenon DEF AgentInv, Requested, AppliedOK
<1>5. SessionsOK'
    <2> SUFFICES ASSUME ~split, NEW u \in session, u \notin S,
                        done[u] = gen[Host][u] \/ kicking'[u] = gen[Host][u]
                 PROVE  u \in EntitledUsers
        BY <1>0, <1>1, <1>a DEF SessionsOK
    <2>1. u \in Users /\ done[u] <= gen[Host][u]
        BY AgentTypes, Zenon DEF AgentInv, Requested
    <2>2. done[u] = gen[Host][u]
        BY <1>c, <2>1, AgentTypes
    <2> QED BY <2>2 DEF AgentInv, SessionsOK
<1>6. CacheLeads'
    <2> SUFFICES ASSUME ~split, NEW u \in Users
                 PROVE  /\ done[u] <= cache.kicks[u] /\ kicking'[u] <= cache.kicks[u]
                        /\ queued[u] <= cache.kicks[u]
        BY <1>0, Zenon DEF CacheLeads
    <2>1. done[u] <= cache.kicks[u] /\ queued[u] <= cache.kicks[u]
        BY <1>0, Zenon DEF AgentInv, CacheLeads
    <2> QED BY <1>c, <2>1, AgentTypes
<1>7. PollOK'
    BY <1>0, SMTT(20) DEF AgentInv, PollOK, Busy
<1>8. ListingOK'
    <2>1. Listed' = S
        BY <1>b, <1>c, Zenon DEF Listed
    <2>2. S = Waiting => kicking' = queued
        BY <1>a, AgentTypes DEF Waiting
    <2>3. \A u \in Users : kicking'[u] \in {0, queued'[u]}
        BY <1>0, <1>c
    <2>4. pc' \in {"mark", "usageMark"} /\ queued' = queued
        BY <1>0
    <2> QED BY <1>b, <2>1, <2>2, <2>3, <2>4, Zenon DEF ListingOK
<1> QED BY <1>2, <1>3, <1>4, <1>5, <1>6, <1>7, <1>8 DEF AgentInv

\* markKicksApplied keeps the invariant: what it records was executed.
LEMMA MarkKicksAppliedKeepsAgentInv ==
    ASSUME AccessInv, AgentInv,
           MarkKicksApplied("mark", "kicked") \/ MarkKicksApplied("usageMark", "idle")
    PROVE  AgentInv'
<1>0. /\ UNCHANGED <<clock, user, asg, gen, pub>>
      /\ UNCHANGED <<applied, saved, cache, env, session, split>>
      /\ \/ pc = "mark" /\ pc' = "kicked"
         \/ pc = "usageMark" /\ pc' = "idle"
    <2>1. MarkKicksApplied("mark", "kicked") => /\ pc = "mark" /\ pc' = "kicked"
        BY Zenon DEF MarkKicksApplied
    <2>2. MarkKicksApplied("usageMark", "idle") => /\ pc = "usageMark" /\ pc' = "idle"
        BY Zenon DEF MarkKicksApplied
    <2> QED BY <2>1, <2>2, Zenon DEF MarkKicksApplied, access
<1>1. EntitledUsers' = EntitledUsers
    BY <1>0, EntitledStays
<1>2. /\ done' \in [Users -> Nat] /\ queued' \in [Users -> Nat] /\ kicking' \in [Users -> Nat]
      /\ \A u \in Users : /\ done'[u] = IF kicking[u] > done[u] THEN kicking[u] ELSE done[u]
                          /\ queued'[u] = IF queued[u] <= kicking[u] THEN 0 ELSE queued[u]
                          /\ kicking'[u] = 0
    <2>1. /\ done' = [u \in Users |-> IF kicking[u] > done[u] THEN kicking[u] ELSE done[u]]
          /\ queued' = [u \in Users |-> IF queued[u] <= kicking[u] THEN 0 ELSE queued[u]]
          /\ kicking' = [u \in Users |-> 0]
        BY Zenon DEF MarkKicksApplied, NoKicks
    <2> QED BY <2>1, AgentTypes
<1>c. full' \in BOOLEAN /\ kicking' = NoKicks
    <2>1. full' = (Cardinality({u \in Users : kicking[u] # 0}) = KickLimit)
        BY Zenon DEF MarkKicksApplied
    <2> QED BY <2>1, Zenon DEF MarkKicksApplied
<1>a. ASSUME ~full', NEW u \in Users PROVE kicking[u] = queued[u]
    <2>1. Cardinality(Listed) # KickLimit
        BY <1>a, Zenon DEF MarkKicksApplied, Listed
    <2> QED BY <1>0, <2>1, Zenon DEF AgentInv, ListingOK
<1>b. ASSUME NEW u \in Users, NEW g \in Nat, g <= queued[u] \/ g <= done[u]
      PROVE  g <= done'[u] \/ (full' /\ g <= queued'[u])
    <2>1. kicking[u] = queued[u] => g <= done'[u]
        BY <1>2, <1>b, AgentTypes
    <2>2. kicking[u] \in {0, queued[u]}
        BY Zenon DEF AgentInv, ListingOK
    <2>3. kicking[u] = 0 => g <= done'[u] \/ g <= queued'[u]
        BY <1>2, <1>b, AgentTypes
    <2>4. full' \/ ~full'
        OBVIOUS
    <2> QED BY <1>a, <2>1, <2>2, <2>3, <2>4, Zenon
<1>3. AgentTypeOK'
    BY <1>0, <1>2, <1>c, Zenon DEF AgentInv, AgentTypeOK, Busy
<1>4. /\ Told(cache, gen[Host], EntitledUsers, clock)'
      /\ Told(env, gen[Host], EntitledUsers, clock)'
    BY <1>0, <1>1 DEF AgentInv
<1>5. Requested'
    BY <1>0, <1>2, AgentTypes, HostFacts, SMTT(20) DEF AgentInv, Requested
<1>6. SessionsOK'
    <2> SUFFICES ASSUME ~split, NEW u \in session,
                        done'[u] = gen[Host][u] \/ kicking'[u] = gen[Host][u]
                 PROVE  u \in EntitledUsers
        BY <1>0, <1>1, Zenon DEF SessionsOK
    <2>1. u \in Users /\ done[u] <= gen[Host][u]
        BY AgentTypes, Zenon DEF AgentInv, Requested
    <2>2. done[u] = gen[Host][u] \/ kicking[u] = gen[Host][u]
        BY <1>2, <2>1, AgentTypes, HostFacts
    <2> QED BY <2>2 DEF AgentInv, SessionsOK
<1>7. CacheLeads'
    <2> SUFFICES ASSUME ~split, NEW u \in Users
                 PROVE  /\ done'[u] <= cache.kicks[u] /\ kicking'[u] <= cache.kicks[u]
                        /\ queued'[u] <= cache.kicks[u]
        BY <1>0 DEF CacheLeads
    <2>1. /\ done[u] <= cache.kicks[u] /\ kicking[u] <= cache.kicks[u]
          /\ queued[u] <= cache.kicks[u]
        BY <1>0, Zenon DEF AgentInv, CacheLeads
    <2> QED BY <1>2, <2>1, AgentTypes
<1>8. PollOK'
    <2>1. ASSUME pc' = "kicked", NEW u \in Users
          PROVE  env.kicks[u] <= done'[u] \/ (full' /\ env.kicks[u] <= queued'[u])
        <3>1. env.kicks[u] <= queued[u] \/ env.kicks[u] <= done[u]
            BY <1>0, <2>1 DEF AgentInv, PollOK
        <3> QED BY <1>b, <3>1, AgentTypes
    <2> QED BY <1>0, <2>1, Zenon DEF AgentInv, PollOK, Busy
<1>9. AppliedOK'
    <2>1. ASSUME NEW u \in Users, gen[Host][u] <= done[u] \/ (full /\ gen[Host][u] <= queued[u])
          PROVE  gen[Host][u] <= done'[u] \/ (full' /\ gen[Host][u] <= queued'[u])
        BY <1>b, <2>1, HostFacts
    <2> QED BY <1>0, <2>1, Zenon DEF AgentInv, AppliedOK
<1>10. ListingOK'
    BY <1>0, <1>2, <1>c DEF ListingOK
<1> QED BY <1>3, <1>4, <1>5, <1>6, <1>7, <1>8, <1>9, <1>10 DEF AgentInv

\* Saving the applied version, or failing to, keeps the invariant.
LEMMA PersistStateKeepsAgentInv ==
    ASSUME AccessInv, AgentInv, PersistState \/ PersistStateFails
    PROVE  AgentInv'
<1>0. /\ UNCHANGED <<clock, user, asg, gen, pub>>
      /\ UNCHANGED <<cache, queued, done, kicking, session, full>>
      /\ pc = "kicked" /\ pc' = "idle" /\ env' = NoSnapshot
      /\ applied' = env.version /\ saved' \in {saved, env.version} /\ split' = split
    <2>1. split \in BOOLEAN
        BY AgentTypes
    <2> QED BY <2>1, Zenon DEF PersistState, PersistStateFails, Fault, access
<1>1. EntitledUsers' = EntitledUsers
    BY <1>0, EntitledStays
<1>2. AgentTypeOK'
    BY <1>0, AgentTypes, NoSnapshotTold, Zenon DEF AgentInv, AgentTypeOK
<1>3. /\ Told(cache, gen[Host], EntitledUsers, clock)'
      /\ Told(env, gen[Host], EntitledUsers, clock)'
    BY <1>0, <1>1, NoSnapshotTold DEF AgentInv
<1>4. Requested' /\ SessionsOK'
    BY <1>0, <1>1, SMTT(20), Zenon DEF AgentInv, Requested, SessionsOK
<1>5. CacheLeads'
    BY <1>0, Zenon DEF AgentInv, CacheLeads
<1>6. PollOK'
    BY <1>0 DEF PollOK, Busy
<1>7. AppliedOK'
    <2>1. /\ env.version <= pub[Host].version
          /\ env.version = pub[Host].version => env = pub[Host]
          /\ \A u \in Users : env.kicks[u] <= done[u] \/ (full /\ env.kicks[u] <= queued[u])
        BY <1>0, Zenon DEF AgentInv, PollOK, Busy
    <2>2. env.version = pub[Host].version =>
            \A u \in Users : gen[Host][u] <= done[u] \/ (full /\ gen[Host][u] <= queued[u])
        BY <2>1, HostFacts
    <2> QED BY <1>0, <2>1, <2>2, Zenon DEF AgentInv, AppliedOK
<1>11. ListingOK'
    BY <1>0 DEF AgentInv, ListingOK, Listed
<1> QED BY <1>11, <1>2, <1>3, <1>4, <1>5, <1>6, <1>7 DEF AgentInv

\* Only at "queued" may a kick be known that the cache has not seen.
LEMMA FaultKeepsAgentInv ==
    ASSUME AccessInv, AgentInv, StepFails \/ Crash
    PROVE  AgentInv'
<1>0. /\ UNCHANGED <<clock, user, asg, gen, pub>>
      /\ UNCHANGED <<saved, cache, queued, done, session, full>>
      /\ pc' = "idle" /\ env' = NoSnapshot /\ kicking' = NoKicks
      /\ applied' \in {applied, saved}
      /\ split' = (split \/ pc = "queued")
    BY Zenon DEF StepFails, Crash, Fault
<1>1. EntitledUsers' = EntitledUsers
    BY <1>0, EntitledStays
<1>2. /\ kicking' \in [Users -> Nat] /\ \A u \in Users : kicking'[u] = 0
      /\ split' \in BOOLEAN /\ (~split' => ~split /\ pc # "queued")
    BY <1>0, AgentTypes, Zenon DEF NoKicks
<1>3. AgentTypeOK'
    BY <1>0, <1>2, AgentTypes, NoSnapshotTold, Zenon DEF AgentInv, AgentTypeOK
<1>4. /\ Told(cache, gen[Host], EntitledUsers, clock)'
      /\ Told(env, gen[Host], EntitledUsers, clock)'
    BY <1>0, <1>1, NoSnapshotTold DEF AgentInv
<1>5. Requested'
    BY <1>0, <1>2, HostFacts DEF AgentInv, Requested
<1>6. SessionsOK'
    <2> SUFFICES ASSUME ~split', NEW u \in session,
                        done[u] = gen[Host][u] \/ kicking'[u] = gen[Host][u]
                 PROVE  u \in EntitledUsers
        BY <1>0, <1>1 DEF SessionsOK
    <2>1. u \in Users /\ done[u] <= gen[Host][u] /\ done[u] \in Nat
        BY AgentTypes, Zenon DEF AgentInv, Requested
    <2>2. done[u] = gen[Host][u]
        BY <1>2, <2>1
    <2> QED BY <1>2, <2>2 DEF AgentInv, SessionsOK
<1>7. CacheLeads'
    BY <1>0, <1>2, AgentTypes, SMTT(20) DEF AgentInv, CacheLeads
<1>8. PollOK'
    BY <1>0 DEF PollOK, Busy
<1>9. AppliedOK'
    BY <1>0, Zenon DEF AgentInv, AppliedOK
<1>11. ListingOK'
    BY <1>0, <1>2 DEF ListingOK, NoKicks
<1> QED BY <1>11, <1>3, <1>4, <1>5, <1>6, <1>7, <1>8, <1>9 DEF AgentInv

----------------------------------------------------------------------------
(* The rows and the snapshots *)

\* The steps of the agent leave the server alone.
LEMMA NextStep ==
    ASSUME AccessInv, [Next]_vars
    PROVE  AccessInv' /\ LossStep /\ Grows
<1>1. CASE Server
    BY <1>1, AccessStep DEF Server
<1>2. CASE UNCHANGED <<clock, user, asg, node, gen, pub, request, sweep, late>>
    <2>1. RowsInv' /\ LossStep /\ Grows
        BY <1>2, RowsStay
    <2>2. FlightOK'
        BY <1>2 DEF AccessInv, FlightOK
    <2> QED BY <2>1, <2>2 DEF AccessInv, RowsInv
<1> QED BY <1>1, <1>2, Zenon
        DEF Next, vars, access, Connect, Disconnect, PollDesired, QueueKicks, ApplyCache,
            ExecuteKicks, MarkKicksApplied, PersistState, Fault, StepFails,
            PersistStateFails, Crash

\* In every reachable state the rows are consistent and the newest snapshot of
\* every node says what they say, whatever the server's transactions
\* (updateUserTx, UpdateAssignment, IngestTrafficBatch, EnforceExpiredUsers and
\* the others of UserAccess) and the agent do.
THEOREM AccessInvariant == Spec => []AccessInv
<1>1. Init => AccessInv
    BY AccessInitInv DEF Init
<1>2. AccessInv /\ [Next]_vars => AccessInv'
    BY NextStep
<1> QED BY <1>1, <1>2, PTL DEF Spec

\* No transaction takes a user's right to a node without a kick: of the nodes
\* requestKickTx serves, every one the change reaches is asked to drop the user.
THEOREM NoLossWithoutKick == Spec => LossIsKicked
<1>1. AccessInv /\ [Next]_vars => [LossStep]_access
    BY NextStep
<1> QED BY <1>1, AccessInvariant, PTL DEF Spec, LossIsKicked, LossStep

\* A user whose expiry EnforceExpiredUsers, updateUserTx or CreateUser has
\* marked is not enabled on a Reality node, unless its newest snapshot was
\* built with an older time.
THEOREM ExpiredIsWithdrawn == Spec => []EnforcedIsWithdrawn
<1>1. AccessInv => EnforcedIsWithdrawn
    BY DEF AccessInv
<1> QED BY <1>1, AccessInvariant, PTL

\* What ResolveSubscription may render for a user, the newest snapshot of the
\* node admits: insertSnapshot and the subscription agree.
THEOREM SubscriptionIsServed == Spec => []RenderedIsAdmitted
<1>1. AccessInv => RenderedIsAdmitted
    <2> SUFFICES ASSUME AccessInv, NEW n \in Nodes, NEW u \in Users, Renders(n, u)
                 PROVE  Admits(pub[n], u)
        BY DEF RenderedIsAdmitted
    <2>1. EntryOK(user, asg, node, clock, n, u, pub[n].users[u])
        BY RowFacts
    <2> QED BY <2>1, Zenon DEF Renders, Admits, EntryOK, Limited
<1> QED BY <1>1, AccessInvariant, PTL

\* A request of handleUpdateUser or handleUpdateAssignment that leaves a field
\* out does not change it, unless the row changed between its read and its
\* transaction: limits and enabled flags are what was asked for last.
THEOREM LastRequestIsKept == Spec => []LastRequestHolds
<1>1. Init => AskedInv
    BY AskedInit DEF Init
<1>2. AccessInv /\ AskedInv /\ [Next]_vars => AskedInv'
    <2> SUFFICES ASSUME AccessInv, AskedInv, [Next]_vars PROVE AskedInv'
        OBVIOUS
    <2>1. CASE AccessNext
        BY <2>1, AskedStep
    <2>2. CASE UNCHANGED <<user, asg, request, asked>>
        BY <2>2, Zenon DEF AskedInv, AskedType, AskedRows, AskedRow, LastRequestHolds, FreshOK
    <2> QED BY <2>1, <2>2, Zenon
            DEF Next, Server, vars, access, Connect, Disconnect, PollDesired, QueueKicks,
                ApplyCache, ExecuteKicks, MarkKicksApplied, PersistState, Fault, StepFails,
                PersistStateFails, Crash
<1>3. AskedInv => LastRequestHolds
    BY DEF AskedInv
<1> QED BY <1>1, <1>2, <1>3, AccessInvariant, PTL DEF Spec

----------------------------------------------------------------------------
(* The agent *)

\* The agent starts up to date, with nobody connected.
LEMMA AgentInitInv ==
    ASSUME Init
    PROVE  AgentInv
<1>0. AccessInv
    BY AccessInitInv DEF Init
<1>1. /\ applied = 1 /\ saved = 1 /\ cache = pub[Host] /\ env = NoSnapshot /\ pc = "idle"
      /\ session = {} /\ split = FALSE /\ full = FALSE /\ kicking = NoKicks
      /\ queued \in [Users -> Nat] /\ done \in [Users -> Nat] /\ kicking \in [Users -> Nat]
      /\ \A u \in Users : queued[u] = 0 /\ done[u] = 0 /\ kicking[u] = 0
    BY DEF Init, NoKicks
<1>2. /\ pub[Host].version = 1 /\ pub[Host] \in Snapshots /\ pub[Host].kicks = gen[Host]
      /\ \A u \in Users : gen[Host][u] = 0
    BY <1>0, HostFacts, Zenon DEF Init, AccessInit
<1>3. AgentTypeOK
    BY <1>0, <1>1, <1>2, NoSnapshotTold, Zenon DEF AgentTypeOK
<1>4. /\ Told(cache, gen[Host], EntitledUsers, clock)
      /\ Told(env, gen[Host], EntitledUsers, clock)
    BY <1>0, <1>1, PubTold, NoSnapshotTold
<1>5. Requested /\ SessionsOK /\ CacheLeads /\ ListingOK /\ PollOK /\ AppliedOK
    BY <1>1, <1>2 DEF Requested, SessionsOK, CacheLeads, ListingOK, PollOK, AppliedOK, Busy
<1> QED BY <1>3, <1>4, <1>5 DEF AgentInv

\* Once the agent has applied the newest snapshot, whoever is connected has a
\* right to the node or a kick that the limit of one call left in the queue,
\* for any users, nodes, requests, traffic and faults:
\* requestKickTx, queueKicks, authCache.Apply, executePendingKicks and
\* markKicksApplied in the order they have.
THEOREM NobodyStaysDenied == Spec => []DeniedIsDisconnected
<1>1. Init => AgentInv
    BY AgentInitInv
<1>2. AccessInv /\ AccessInv' /\ AgentInv /\ [Next]_vars => AgentInv'
    <2> SUFFICES ASSUME AccessInv, AccessInv', AgentInv, [Next]_vars
                 PROVE  AgentInv'
        OBVIOUS
    <2>1. LossStep /\ Grows
        BY NextStep
    <2>2. CASE Server \/ UNCHANGED vars
        BY <2>1, <2>2, ServerKeepsAgentInv DEF Server, vars
    <2>3. CASE \E u \in Users : Connect(u) \/ Disconnect(u)
        BY <2>3, ConnectKeepsAgentInv
    <2>4. CASE PollDesired
        BY <2>4, PollDesiredKeepsAgentInv
    <2>5. CASE QueueKicks
        BY <2>5, QueueKicksKeepsAgentInv
    <2>6. CASE ApplyCache
        BY <2>6, ApplyCacheKeepsAgentInv
    <2>7. CASE ExecuteKicks("cached", "mark") \/ ExecuteKicks("idle", "usageMark")
        BY <2>7, ExecuteKicksKeepsAgentInv
    <2>8. CASE MarkKicksApplied("mark", "kicked") \/ MarkKicksApplied("usageMark", "idle")
        BY <2>8, MarkKicksAppliedKeepsAgentInv
    <2>9. CASE PersistState \/ PersistStateFails
        BY <2>9, PersistStateKeepsAgentInv
    <2>10. CASE StepFails \/ Crash
        BY <2>10, FaultKeepsAgentInv
    <2> QED BY <2>2, <2>3, <2>4, <2>5, <2>6, <2>7, <2>8, <2>9, <2>10 DEF Next
<1>3. AccessInv /\ AgentInv => DeniedIsDisconnected
    <2> SUFFICES ASSUME AccessInv, AgentInv, applied = pub[Host].version, ~split,
                        NEW u \in session
                 PROVE  Entitled(Host, u) \/ (full /\ queued[u] # 0)
        BY DEF DeniedIsDisconnected
    <2>1. /\ u \in Users /\ done[u] <= gen[Host][u]
          /\ gen[Host][u] <= done[u] \/ (full /\ gen[Host][u] <= queued[u])
        BY AgentTypes DEF AgentInv, AppliedOK, Requested
    <2>2. done[u] = gen[Host][u] \/ (full /\ queued[u] # 0)
        BY <2>1, AgentTypes, HostFacts
    <2>3. done[u] = gen[Host][u] => u \in EntitledUsers
        BY Zenon DEF AgentInv, SessionsOK
    <2> QED BY <2>2, <2>3 DEF EntitledUsers
<1> QED BY <1>1, <1>2, <1>3, AccessInvariant, PTL DEF Spec
=============================================================================
