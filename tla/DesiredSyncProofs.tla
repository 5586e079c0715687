------------------------- MODULE DesiredSyncProofs -------------------------
(***************************************************************************)
(* The safety properties of DesiredSync, for any users, any number of      *)
(* versions, installations and faults.                                     *)
(***************************************************************************)
EXTENDS DesiredSync, TLAPS

NodeType ==
    [ applied : 0..MaxVersion, inst : 0..MaxInst, enabled : BOOLEAN,
      status : {"pending", "online", "degraded", "disabled"},
      archived : {"no", "plain", "forced"} ]

CredStates == {"unused", "staged", "applied", "retired", "revoked"}

\* insertSnapshot writes a well-formed entry for every user.
LEMMA EntryType ==
    ASSUME NEW us, NEW as \in [Users -> Assignment], NEW cs, NEW en \in BOOLEAN,
           NEW u \in Users, as[u].state # "none" => as[u].cred \in Creds
    PROVE  EntryOf(us, as, cs, en, u) \in Entry
BY Zenon DEF EntryOf, Entry, NoEntry, Assignment

\* The state of a fresh database and of an agent that was never started.
LEMMA InitIInv == Init => IInv
<1> SUFFICES ASSUME Init PROVE IInv OBVIOUS
<1>1. TypeOK
  BY BoundsAssumption DEF Init, TypeOK, ServerTypeOK, AgentTypeOK, Versions, Entry,
       NoEntry, Assignment, NoAssignment
<1>2. RowsOK /\ RetiredOK /\ ArchivedOK /\ CacheOK /\ AgentOK /\ LateOK
  BY BoundsAssumption DEF Init, RowsOK, RetiredOK, ArchivedOK, CacheOK, AgentOK, LateOK,
       Bound, NoAssignment, Versions
<1>3. SnapshotsOK
  BY Zenon DEF Init, SnapshotsOK, CurrentEntry, EntryOf, NoAssignment, Versions
<1> QED BY <1>1, <1>2, <1>3 DEF IInv

\* What an operator's transaction has to establish about the rows it writes
\* for the snapshot it publishes to preserve the invariant: a user whose
\* entry changes has an assignment at the new version, or none.
LEMMA BumpStep ==
    ASSUME IInv,
           BumpNodeSnapshot(userState', asg', credState', node'.enabled),
           userState' \in [Users -> {"enabled", "disabled", "archived"}],
           asg' \in [Users -> Assignment],
           credState' \in [Creds -> CredStates],
           node' \in NodeType,
           node'.inst = node.inst, node'.applied = node.applied, node'.archived = "no",
           RowsOK',
           \A u \in Users :
              asg'[u].state # "none" /\ asg'[u].desired # desiredVersion + 1 =>
                 /\ asg[u].state # "none" /\ asg'[u].desired = asg[u].desired
                 /\ CurrentEntry(u)' = CurrentEntry(u),
           \A c \in Creds : credState'[c] = "retired" => credState[c] = "retired"
    PROVE  IInv'
<1> DEFINE next == desiredVersion + 1
<1>a. TypeOK /\ RowsOK /\ SnapshotsOK /\ RetiredOK /\ ArchivedOK /\ CacheOK /\ AgentOK /\ LateOK
  BY DEF IInv
<1>b. /\ desiredVersion \in Versions /\ next \in Versions /\ desiredVersion' = next
      /\ snap \in [Versions -> [Users -> Entry]]
      /\ node \in NodeType
      /\ UNCHANGED <<file, mem, cache, pc, env, late, faults>>
  BY <1>a, BoundsAssumption DEF BumpNodeSnapshot, TypeOK, ServerTypeOK, Versions, agentVars, NodeType
<1>c. \A u \in Users : CurrentEntry(u)' \in Entry
  BY EntryType, Zenon DEF CurrentEntry, RowsOK, NodeType
<1>d. /\ snap' \in [Versions -> [Users -> Entry]]
      /\ snap'[next] = [u \in Users |-> CurrentEntry(u)']
      /\ \A v \in Versions : v # next => snap'[v] = snap[v]
  BY <1>b, <1>c, Zenon DEF BumpNodeSnapshot, CurrentEntry
<1>1. TypeOK'
  <2>1. ServerTypeOK' BY <1>b, <1>d, Zenon DEF ServerTypeOK, NodeType, CredStates
  <2>2. AgentTypeOK' BY <1>a, <1>b, Zenon DEF TypeOK, AgentTypeOK
  <2> QED BY <2>1, <2>2 DEF TypeOK
<1>2. SnapshotsOK'
  <2> SUFFICES ASSUME NEW u \in Users, NEW v \in Versions, v <= next,
                      v = next \/ (asg'[u].state # "none" /\ asg'[u].desired <= v)
               PROVE  snap'[v][u] = CurrentEntry(u)'
    BY <1>b DEF SnapshotsOK
  <2>1. CASE v = next BY <1>d, <2>1
  <2>2. CASE v # next
    <3>1. v <= desiredVersion /\ asg'[u].desired # next
      BY <1>b, <2>2 DEF Versions, Assignment
    <3>2. snap[v][u] = CurrentEntry(u)
      BY <1>a, <2>2, <3>1, Zenon DEF SnapshotsOK
    <3> QED BY <1>d, <2>2, <3>1, <3>2, Zenon
  <2> QED BY <2>1, <2>2, Zenon
<1>3. RetiredOK'
  <2> SUFFICES ASSUME node.applied > 0, NEW u \in Users, NEW v \in Versions,
                      node.applied <= v, v <= next, snap'[v][u].cred # NoCred
               PROVE  credState'[snap'[v][u].cred] # "retired"
    BY <1>b, Zenon DEF RetiredOK
  <2>1. CASE v = next
    BY <1>d, <2>1 DEF CurrentEntry, EntryOf, NoEntry
  <2>2. CASE v # next
    <3>1. v <= desiredVersion /\ snap'[v][u] = snap[v][u]
      BY <1>b, <1>d, <2>2 DEF Versions
    <3>2. snap[v][u].cred \in Creds
      BY <1>b, <3>1 DEF Entry
    <3>3. credState[snap[v][u].cred] # "retired"
      BY <1>a, <3>1 DEF RetiredOK
    <3> QED BY <3>1, <3>2, <3>3, Zenon
  <2> QED BY <2>1, <2>2, Zenon
<1>4. ArchivedOK'
  BY <1>a, <1>b DEF ArchivedOK, Versions, NodeType
<1>5. CacheOK'
  <2>1. cache.version # 0 => cache.version \in Versions /\ cache.version # next
    BY <1>a, <1>b DEF CacheOK, TypeOK, AgentTypeOK, Versions
  <2> QED BY <1>a, <1>b, <1>d, <2>1 DEF CacheOK, Bound, Versions, TypeOK, AgentTypeOK
<1>6. AgentOK'
  BY <1>a, <1>b DEF AgentOK, Bound, Versions
<1>7. LateOK'
  BY <1>a, <1>b DEF LateOK, Versions, TypeOK, AgentTypeOK, Ack
<1> QED BY <1>1, <1>2, <1>3, <1>4, <1>5, <1>6, <1>7, Zenon DEF IInv

\* An entry depends on the user's row, the assignment and the state of its
\* desired credential only.
LEMMA SameEntry ==
    ASSUME NEW u \in Users, userState'[u] = userState[u],
           asg[u].state # "none", asg'[u].state # "none",
           asg'[u].cred = asg[u].cred, asg'[u].enabled = asg[u].enabled,
           node'.enabled = node.enabled,
           credState'[asg[u].cred] \in {"staged", "applied"} <=>
              credState[asg[u].cred] \in {"staged", "applied"}
    PROVE  CurrentEntry(u)' = CurrentEntry(u)
BY Zenon DEF CurrentEntry, EntryOf

\* markAssignmentPending changes the state and the desired version only.
LEMMA PendingRow ==
    ASSUME NEW a \in Assignment, desiredVersion + 1 \in 0..MaxVersion
    PROVE  /\ Pending(a) \in Assignment
           /\ Pending(a).state = "pending" /\ Pending(a).desired = desiredVersion + 1
           /\ Pending(a).enabled = a.enabled /\ Pending(a).cred = a.cred
           /\ Pending(a).acred = a.acred /\ Pending(a).applied = a.applied
BY Zenon DEF Pending, Assignment

\* Types of the rows, for the operations below.
LEMMA RowTypes ==
    ASSUME TypeOK
    PROVE  /\ desiredVersion \in Versions
           /\ node \in NodeType
           /\ userState \in [Users -> {"enabled", "disabled", "archived"}]
           /\ asg \in [Users -> Assignment]
           /\ credState \in [Creds -> CredStates]
BY DEF TypeOK, ServerTypeOK, NodeType, CredStates

\* A new assignment starts at the new version.
LEMMA AssignUserStep ==
    ASSUME IInv, NEW u \in Users, NEW c \in Creds, c[1] = u, AssignUser(u, c)
    PROVE  IInv'
<1>a. TypeOK /\ RowsOK BY DEF IInv
<1>b. /\ desiredVersion \in Versions /\ node \in NodeType
      /\ userState \in [Users -> {"enabled", "disabled", "archived"}]
      /\ asg \in [Users -> Assignment] /\ credState \in [Creds -> CredStates]
  BY <1>a, RowTypes
<1>0. node'.enabled \in BOOLEAN
       /\ BumpNodeSnapshot(userState', asg', credState', node'.enabled)
  BY <1>b DEF AssignUser, NodeType
<1>1. desiredVersion + 1 \in 0..MaxVersion /\ desiredVersion' = desiredVersion + 1
  BY <1>0, <1>b, BoundsAssumption DEF BumpNodeSnapshot, Versions
<1>2. /\ userState' \in [Users -> {"enabled", "disabled", "archived"}]
      /\ asg' \in [Users -> Assignment]
  BY <1>b, <1>1, BoundsAssumption DEF AssignUser, Assignment
<1>3. credState' \in [Creds -> CredStates] /\ node' \in NodeType
  BY <1>b, Zenon DEF AssignUser, CredStates, NodeType
<1>4. node'.inst = node.inst /\ node'.applied = node.applied /\ node'.archived = "no"
  BY <1>b, Zenon DEF AssignUser, BumpNodeSnapshot, NodeType
<1>5. RowsOK'
  BY <1>a, <1>b, <1>1, <1>4, PendingRow DEF AssignUser, RowsOK, NodeType, Assignment, Versions
<1>6. ASSUME NEW w \in Users, asg'[w].state # "none",
             asg'[w].desired # desiredVersion + 1
      PROVE  /\ asg[w].state # "none" /\ asg'[w].desired = asg[w].desired
             /\ CurrentEntry(w)' = CurrentEntry(w)
  BY <1>a, <1>b, <1>1, <1>6, PendingRow, SameEntry, ZenonT(30) DEF AssignUser, RowsOK, Assignment
<1>7. \A k \in Creds : credState'[k] = "retired" => credState[k] = "retired"
  BY <1>b DEF AssignUser
<1> QED BY <1>0, <1>2, <1>3, <1>4, <1>5, <1>6, <1>7, BumpStep, Zenon

\* A rotated assignment is pending at the new version.
LEMMA RotateCredentialStep ==
    ASSUME IInv, NEW u \in Users, NEW c \in Creds, c[1] = u, RotateCredential(u, c)
    PROVE  IInv'
<1>a. TypeOK /\ RowsOK BY DEF IInv
<1>b. /\ desiredVersion \in Versions /\ node \in NodeType
      /\ userState \in [Users -> {"enabled", "disabled", "archived"}]
      /\ asg \in [Users -> Assignment] /\ credState \in [Creds -> CredStates]
  BY <1>a, RowTypes
<1>0. node'.enabled \in BOOLEAN
       /\ BumpNodeSnapshot(userState', asg', credState', node'.enabled)
  BY <1>b DEF RotateCredential, NodeType
<1>1. desiredVersion + 1 \in 0..MaxVersion /\ desiredVersion' = desiredVersion + 1
  BY <1>0, <1>b, BoundsAssumption DEF BumpNodeSnapshot, Versions
<1>2. /\ userState' \in [Users -> {"enabled", "disabled", "archived"}]
      /\ asg' \in [Users -> Assignment]
  BY <1>b, <1>1, PendingRow DEF RotateCredential, Assignment
<1>3. credState' \in [Creds -> CredStates] /\ node' \in NodeType
  BY <1>b DEF RotateCredential, CredStates, NodeType
<1>4. node'.inst = node.inst /\ node'.applied = node.applied /\ node'.archived = "no"
  BY <1>b DEF RotateCredential, BumpNodeSnapshot, NodeType
<1>5. RowsOK'
  BY <1>a, <1>b, <1>1, <1>4, PendingRow DEF RotateCredential, RowsOK, NodeType, Assignment, Versions
<1>6. ASSUME NEW w \in Users, asg'[w].state # "none",
             asg'[w].desired # desiredVersion + 1
      PROVE  /\ asg[w].state # "none" /\ asg'[w].desired = asg[w].desired
             /\ CurrentEntry(w)' = CurrentEntry(w)
  BY <1>a, <1>b, <1>1, <1>6, PendingRow, SameEntry DEF RotateCredential, RowsOK, Assignment
<1>7. \A k \in Creds : credState'[k] = "retired" => credState[k] = "retired"
  BY <1>b DEF RotateCredential
<1> QED BY <1>0, <1>2, <1>3, <1>4, <1>5, <1>6, <1>7, BumpStep, Zenon

\* Revoking the credential of one user leaves the entries of the others.
LEMMA UnassignUserStep ==
    ASSUME IInv, NEW u \in Users, UnassignUser(u)
    PROVE  IInv'
<1>a. TypeOK /\ RowsOK BY DEF IInv
<1>b. /\ desiredVersion \in Versions /\ node \in NodeType
      /\ userState \in [Users -> {"enabled", "disabled", "archived"}]
      /\ asg \in [Users -> Assignment] /\ credState \in [Creds -> CredStates]
  BY <1>a, RowTypes
<1>0. node'.enabled \in BOOLEAN
       /\ BumpNodeSnapshot(userState', asg', credState', node'.enabled)
  BY <1>b DEF UnassignUser, NodeType
<1>1. desiredVersion + 1 \in 0..MaxVersion /\ desiredVersion' = desiredVersion + 1
  BY <1>0, <1>b, BoundsAssumption DEF BumpNodeSnapshot, Versions
<1>2. /\ userState' \in [Users -> {"enabled", "disabled", "archived"}]
      /\ asg' \in [Users -> Assignment]
  BY <1>b, <1>1, BoundsAssumption DEF UnassignUser, Assignment, NoAssignment
<1>3. credState' \in [Creds -> CredStates] /\ node' \in NodeType
  BY <1>b, Zenon DEF UnassignUser, CredStates, NodeType
<1>4. node'.inst = node.inst /\ node'.applied = node.applied /\ node'.archived = "no"
  BY <1>b DEF UnassignUser, BumpNodeSnapshot, NodeType
<1>5. RowsOK'
  BY <1>a, <1>b, <1>1, <1>4, PendingRow DEF UnassignUser, RowsOK, NodeType, Assignment, Versions, NoAssignment
<1>6. ASSUME NEW w \in Users, asg'[w].state # "none",
             asg'[w].desired # desiredVersion + 1
      PROVE  /\ asg[w].state # "none" /\ asg'[w].desired = asg[w].desired
             /\ CurrentEntry(w)' = CurrentEntry(w)
  <2>1. w # u BY <1>b, <1>6, Zenon DEF UnassignUser, NoAssignment
  <2>2. asg'[w] = asg[w] /\ asg[w].state # "none" /\ asg[u].state # "none"
    BY <1>b, <1>6, <2>1, Zenon DEF UnassignUser
  <2>3. asg[w].cred # asg[u].cred /\ asg[w].cred \in Creds
    BY <1>a, <2>1, <2>2 DEF RowsOK
  <2>4. credState'[asg[w].cred] = credState[asg[w].cred]
    BY <1>b, <2>3 DEF UnassignUser
  <2> QED BY <2>2, <2>4, SameEntry, Zenon DEF UnassignUser
<1>7. \A k \in Creds : credState'[k] = "retired" => credState[k] = "retired"
  BY <1>b DEF UnassignUser
<1> QED BY <1>0, <1>2, <1>3, <1>4, <1>5, <1>6, <1>7, BumpStep, Zenon

\* A change of a user row puts its assignment at the new version.
LEMMA UpdateUserStep ==
    ASSUME IInv, NEW u \in Users, NEW b \in BOOLEAN, UpdateUser(u, b)
    PROVE  IInv'
<1>a. TypeOK /\ RowsOK BY DEF IInv
<1>b. /\ desiredVersion \in Versions /\ node \in NodeType
      /\ userState \in [Users -> {"enabled", "disabled", "archived"}]
      /\ asg \in [Users -> Assignment] /\ credState \in [Creds -> CredStates]
  BY <1>a, RowTypes
<1>0. node'.enabled \in BOOLEAN
       /\ BumpNodeSnapshot(userState', asg', credState', node'.enabled)
  BY <1>b DEF UpdateUser, NodeType
<1>1. desiredVersion + 1 \in 0..MaxVersion /\ desiredVersion' = desiredVersion + 1
  BY <1>0, <1>b, BoundsAssumption DEF BumpNodeSnapshot, Versions
<1>2. /\ userState' \in [Users -> {"enabled", "disabled", "archived"}]
      /\ asg' \in [Users -> Assignment]
  BY <1>b, <1>1, PendingRow, Zenon DEF UpdateUser, Assignment
<1>3. credState' \in [Creds -> CredStates] /\ node' \in NodeType
  BY <1>b DEF UpdateUser, CredStates, NodeType
<1>4. node'.inst = node.inst /\ node'.applied = node.applied /\ node'.archived = "no"
  BY <1>b DEF UpdateUser, BumpNodeSnapshot, NodeType
<1>5. RowsOK'
  BY <1>a, <1>b, <1>1, <1>4, PendingRow DEF UpdateUser, RowsOK, NodeType, Assignment, Versions
<1>6. ASSUME NEW w \in Users, asg'[w].state # "none",
             asg'[w].desired # desiredVersion + 1
      PROVE  /\ asg[w].state # "none" /\ asg'[w].desired = asg[w].desired
             /\ CurrentEntry(w)' = CurrentEntry(w)
  BY <1>a, <1>b, <1>1, <1>6, PendingRow, SameEntry, Zenon DEF UpdateUser, RowsOK, Assignment
<1>7. \A k \in Creds : credState'[k] = "retired" => credState[k] = "retired"
  BY <1>b DEF UpdateUser
<1> QED BY <1>0, <1>2, <1>3, <1>4, <1>5, <1>6, <1>7, BumpStep, Zenon

\* So does a change of the assignment itself.
LEMMA UpdateAssignmentStep ==
    ASSUME IInv, NEW u \in Users, NEW b \in BOOLEAN, UpdateAssignment(u, b)
    PROVE  IInv'
<1>a. TypeOK /\ RowsOK BY DEF IInv
<1>b. /\ desiredVersion \in Versions /\ node \in NodeType
      /\ userState \in [Users -> {"enabled", "disabled", "archived"}]
      /\ asg \in [Users -> Assignment] /\ credState \in [Creds -> CredStates]
  BY <1>a, RowTypes
<1>0. node'.enabled \in BOOLEAN
       /\ BumpNodeSnapshot(userState', asg', credState', node'.enabled)
  BY <1>b DEF UpdateAssignment, NodeType
<1>1. desiredVersion + 1 \in 0..MaxVersion /\ desiredVersion' = desiredVersion + 1
  BY <1>0, <1>b, BoundsAssumption DEF BumpNodeSnapshot, Versions
<1>2. /\ userState' \in [Users -> {"enabled", "disabled", "archived"}]
      /\ asg' \in [Users -> Assignment]
  BY <1>b, <1>1, PendingRow DEF UpdateAssignment, Assignment
<1>3. credState' \in [Creds -> CredStates] /\ node' \in NodeType
  BY <1>b DEF UpdateAssignment, CredStates, NodeType
<1>4. node'.inst = node.inst /\ node'.applied = node.applied /\ node'.archived = "no"
  BY <1>b DEF UpdateAssignment, BumpNodeSnapshot, NodeType
<1>5. RowsOK'
  BY <1>a, <1>b, <1>1, <1>4, PendingRow DEF UpdateAssignment, RowsOK, NodeType, Assignment, Versions
<1>6. ASSUME NEW w \in Users, asg'[w].state # "none",
             asg'[w].desired # desiredVersion + 1
      PROVE  /\ asg[w].state # "none" /\ asg'[w].desired = asg[w].desired
             /\ CurrentEntry(w)' = CurrentEntry(w)
  BY <1>a, <1>b, <1>1, <1>6, PendingRow, SameEntry DEF UpdateAssignment, RowsOK, Assignment
<1>7. \A k \in Creds : credState'[k] = "retired" => credState[k] = "retired"
  BY <1>b DEF UpdateAssignment
<1> QED BY <1>0, <1>2, <1>3, <1>4, <1>5, <1>6, <1>7, BumpStep, Zenon

\* Archiving revokes credentials of that user only.
LEMMA ArchiveUserStep ==
    ASSUME IInv, NEW u \in Users, ArchiveUser(u)
    PROVE  IInv'
<1>a. TypeOK /\ RowsOK BY DEF IInv
<1>b. /\ desiredVersion \in Versions /\ node \in NodeType
      /\ userState \in [Users -> {"enabled", "disabled", "archived"}]
      /\ asg \in [Users -> Assignment] /\ credState \in [Creds -> CredStates]
  BY <1>a, RowTypes
<1>0. node'.enabled \in BOOLEAN
       /\ BumpNodeSnapshot(userState', asg', credState', node'.enabled)
  BY <1>b DEF ArchiveUser, NodeType
<1>1. desiredVersion + 1 \in 0..MaxVersion /\ desiredVersion' = desiredVersion + 1
  BY <1>0, <1>b, BoundsAssumption DEF BumpNodeSnapshot, Versions
<1>2. /\ userState' \in [Users -> {"enabled", "disabled", "archived"}]
      /\ asg' \in [Users -> Assignment]
  BY <1>b, <1>1, PendingRow, Zenon DEF ArchiveUser, Assignment
<1>3. credState' \in [Creds -> CredStates] /\ node' \in NodeType
  BY <1>b, Zenon DEF ArchiveUser, CredStates, NodeType, RevokeAll
<1>4. node'.inst = node.inst /\ node'.applied = node.applied /\ node'.archived = "no"
  BY <1>b DEF ArchiveUser, BumpNodeSnapshot, NodeType
<1>5. RowsOK'
  BY <1>a, <1>b, <1>1, <1>4, PendingRow DEF ArchiveUser, RowsOK, NodeType, Assignment, Versions
<1>6. ASSUME NEW w \in Users, asg'[w].state # "none",
             asg'[w].desired # desiredVersion + 1
      PROVE  /\ asg[w].state # "none" /\ asg'[w].desired = asg[w].desired
             /\ CurrentEntry(w)' = CurrentEntry(w)
  BY <1>a, <1>b, <1>1, <1>6, PendingRow, SameEntry DEF ArchiveUser, RowsOK, Assignment, RevokeAll
<1>7. \A k \in Creds : credState'[k] = "retired" => credState[k] = "retired"
  BY <1>b DEF ArchiveUser, RevokeAll
<1> QED BY <1>0, <1>2, <1>3, <1>4, <1>5, <1>6, <1>7, BumpStep, Zenon

\* UpdateNode puts every assignment at the new version.
LEMMA UpdateNodeStep ==
    ASSUME IInv, NEW b \in BOOLEAN, UpdateNode(b)
    PROVE  IInv'
<1>a. TypeOK /\ RowsOK BY DEF IInv
<1>b. /\ desiredVersion \in Versions /\ node \in NodeType
      /\ userState \in [Users -> {"enabled", "disabled", "archived"}]
      /\ asg \in [Users -> Assignment] /\ credState \in [Creds -> CredStates]
  BY <1>a, RowTypes
<1>0. node'.enabled \in BOOLEAN
       /\ BumpNodeSnapshot(userState', asg', credState', node'.enabled)
  BY <1>b DEF UpdateNode, NodeType
<1>1. desiredVersion + 1 \in 0..MaxVersion /\ desiredVersion' = desiredVersion + 1
  BY <1>0, <1>b, BoundsAssumption DEF BumpNodeSnapshot, Versions
<1>2. /\ userState' \in [Users -> {"enabled", "disabled", "archived"}]
      /\ asg' \in [Users -> Assignment]
  BY <1>b, <1>1, PendingRow, Zenon DEF UpdateNode, Assignment, AllPending
<1>3. credState' \in [Creds -> CredStates] /\ node' \in NodeType
  BY <1>b, Zenon DEF UpdateNode, CredStates, NodeType
<1>4. node'.inst = node.inst /\ node'.applied = node.applied /\ node'.archived = "no"
  BY <1>b DEF UpdateNode, BumpNodeSnapshot, NodeType
<1>5. RowsOK'
  BY <1>a, <1>b, <1>1, <1>4, PendingRow DEF UpdateNode, RowsOK, NodeType, Assignment, Versions, AllPending
<1>6. ASSUME NEW w \in Users, asg'[w].state # "none",
             asg'[w].desired # desiredVersion + 1
      PROVE  /\ asg[w].state # "none" /\ asg'[w].desired = asg[w].desired
             /\ CurrentEntry(w)' = CurrentEntry(w)
  BY <1>a, <1>b, <1>1, <1>6, PendingRow, SameEntry, Zenon DEF UpdateNode, RowsOK, Assignment, AllPending
<1>7. \A k \in Creds : credState'[k] = "retired" => credState[k] = "retired"
  BY <1>b DEF UpdateNode
<1> QED BY <1>0, <1>2, <1>3, <1>4, <1>5, <1>6, <1>7, BumpStep, Zenon

\* So does RetryNodeSync.
LEMMA RetryNodeSyncStep ==
    ASSUME IInv, RetryNodeSync
    PROVE  IInv'
<1>a. TypeOK /\ RowsOK BY DEF IInv
<1>b. /\ desiredVersion \in Versions /\ node \in NodeType
      /\ userState \in [Users -> {"enabled", "disabled", "archived"}]
      /\ asg \in [Users -> Assignment] /\ credState \in [Creds -> CredStates]
  BY <1>a, RowTypes
<1>0. node'.enabled \in BOOLEAN
       /\ BumpNodeSnapshot(userState', asg', credState', node'.enabled)
  BY <1>b DEF RetryNodeSync, NodeType
<1>1. desiredVersion + 1 \in 0..MaxVersion /\ desiredVersion' = desiredVersion + 1
  BY <1>0, <1>b, BoundsAssumption DEF BumpNodeSnapshot, Versions
<1>2. /\ userState' \in [Users -> {"enabled", "disabled", "archived"}]
      /\ asg' \in [Users -> Assignment]
  BY <1>b, <1>1, PendingRow, Zenon DEF RetryNodeSync, Assignment, AllPending
<1>3. credState' \in [Creds -> CredStates] /\ node' \in NodeType
  BY <1>b DEF RetryNodeSync, CredStates, NodeType
<1>4. node'.inst = node.inst /\ node'.applied = node.applied /\ node'.archived = "no"
  BY <1>b DEF RetryNodeSync, BumpNodeSnapshot, NodeType
<1>5. RowsOK'
  BY <1>a, <1>b, <1>1, <1>4, PendingRow DEF RetryNodeSync, RowsOK, NodeType, Assignment, Versions, AllPending
<1>6. ASSUME NEW w \in Users, asg'[w].state # "none",
             asg'[w].desired # desiredVersion + 1
      PROVE  /\ asg[w].state # "none" /\ asg'[w].desired = asg[w].desired
             /\ CurrentEntry(w)' = CurrentEntry(w)
  BY <1>a, <1>b, <1>1, <1>6, PendingRow, SameEntry, Zenon DEF RetryNodeSync, RowsOK, Assignment, AllPending
<1>7. \A k \in Creds : credState'[k] = "retired" => credState[k] = "retired"
  BY <1>b DEF RetryNodeSync
<1> QED BY <1>0, <1>2, <1>3, <1>4, <1>5, <1>6, <1>7, BumpStep, Zenon

\* A step that publishes no snapshot and leaves the agent alone.
LEMMA RowStep ==
    ASSUME IInv,
           UNCHANGED <<desiredVersion, snap, agentVars, late, faults>>,
           userState' \in [Users -> {"enabled", "disabled", "archived"}],
           asg' \in [Users -> Assignment],
           credState' \in [Creds -> CredStates],
           node' \in NodeType,
           RowsOK', RetiredOK', ArchivedOK',
           node'.inst = node.inst,
           node'.applied = node.applied,
           \A u \in Users : /\ asg'[u].state # "none" <=> asg[u].state # "none"
                            /\ asg'[u].desired = asg[u].desired
                            /\ CurrentEntry(u)' = CurrentEntry(u)
    PROVE  IInv'
<1>1. TypeOK'
  BY Zenon DEF IInv, TypeOK, ServerTypeOK, AgentTypeOK, NodeType, CredStates, agentVars
<1>2. SnapshotsOK'
  BY Zenon DEF IInv, SnapshotsOK
<1>3. CacheOK' /\ AgentOK' /\ LateOK'
  BY Zenon DEF IInv, CacheOK, AgentOK, LateOK, Bound, agentVars
<1> QED BY <1>1, <1>2, <1>3, Zenon DEF IInv

\* A user without an assignment is in no snapshot.
LEMMA IdleUserStep ==
    ASSUME IInv, NEW u \in Users,
           (\E b \in BOOLEAN : UpdateIdleUser(u, b)) \/ ArchiveIdleUser(u)
    PROVE  IInv'
<1>a. TypeOK /\ RowsOK /\ RetiredOK /\ ArchivedOK BY DEF IInv
<1>b. /\ desiredVersion \in Versions /\ node \in NodeType
      /\ userState \in [Users -> {"enabled", "disabled", "archived"}]
      /\ asg \in [Users -> Assignment] /\ credState \in [Creds -> CredStates]
  BY <1>a, RowTypes
<1>1. /\ UNCHANGED <<desiredVersion, snap, node, asg, agentVars, late, faults>>
      /\ asg[u].state = "none"
      /\ userState' \in [Users -> {"enabled", "disabled", "archived"}]
      /\ credState' \in [Creds -> CredStates]
      /\ \A w \in Users : w # u => userState'[w] = userState[w]
      /\ \A c \in Creds : c[1] # u => credState'[c] = credState[c]
      /\ \A c \in Creds : credState'[c] = "retired" => credState[c] = "retired"
  BY <1>b DEF UpdateIdleUser, ArchiveIdleUser, RevokeAll, CredStates
<1>2. RowsOK' /\ ArchivedOK'
  BY <1>a, <1>1, Zenon DEF RowsOK, ArchivedOK
<1>3. RetiredOK'
  <2>1. \A w \in Users, v \in Versions : snap[v][w].cred \in Creds \cup {NoCred}
    BY <1>a DEF TypeOK, ServerTypeOK, Entry
  <2> QED BY <1>a, <1>1, <2>1, Zenon DEF RetiredOK
<1>4. ASSUME NEW w \in Users PROVE CurrentEntry(w)' = CurrentEntry(w)
  <2>1. CASE w = u BY <1>1, <2>1, Zenon DEF CurrentEntry, EntryOf
  <2>2. CASE w # u /\ asg[w].state = "none" BY <1>1, <2>2, Zenon DEF CurrentEntry, EntryOf
  <2>3. CASE w # u /\ asg[w].state # "none"
    <3>1. asg[w].cred \in Creds /\ asg[w].cred[1] = w BY <1>a, <2>3, Zenon DEF RowsOK
    <3> QED BY <1>1, <2>3, <3>1, SameEntry, Zenon
  <2> QED BY <2>1, <2>2, <2>3
<1> QED BY <1>b, <1>1, <1>2, <1>3, <1>4, RowStep, Zenon

\* An archived user has no entry, whether the node is enabled or not.
LEMMA ArchiveNodeStep ==
    ASSUME IInv, NEW b \in BOOLEAN, ArchiveNode(b)
    PROVE  IInv'
<1>a. TypeOK /\ RowsOK /\ RetiredOK /\ ArchivedOK BY DEF IInv
<1>b. /\ desiredVersion \in Versions /\ node \in NodeType
      /\ userState \in [Users -> {"enabled", "disabled", "archived"}]
      /\ asg \in [Users -> Assignment] /\ credState \in [Creds -> CredStates]
  BY <1>a, RowTypes
<1>1. UNCHANGED <<desiredVersion, snap, userState, asg, credState, agentVars, late, faults>>
  BY DEF ArchiveNode
<1>2. node' \in NodeType /\ node'.inst = node.inst /\ node'.applied = node.applied
  BY <1>b, Zenon DEF ArchiveNode, NodeType
<1>3. RowsOK' /\ RetiredOK'
  BY <1>a, <1>1, <1>2, Zenon DEF RowsOK, RetiredOK
<1>4. ArchivedOK'
  <2>1. node'.archived = "plain" => node.inst = 0 \/ node.applied >= desiredVersion
    BY <1>b DEF ArchiveNode, NodeType
  <2> QED BY <1>a, <1>b, <1>1, <1>2, <2>1 DEF ArchivedOK, ArchiveNode, NodeType, Versions
<1>5. \A w \in Users : CurrentEntry(w)' = CurrentEntry(w)
  BY <1>1, Zenon DEF ArchiveNode, CurrentEntry, EntryOf
<1> QED BY <1>b, <1>1, <1>2, <1>3, <1>4, <1>5, RowStep, Zenon

\* A heartbeat writes the status only.
LEMMA HeartbeatStep ==
    ASSUME IInv, Heartbeat
    PROVE  IInv'
<1>a. TypeOK /\ RowsOK /\ RetiredOK /\ ArchivedOK BY DEF IInv
<1>b. /\ desiredVersion \in Versions /\ node \in NodeType
      /\ userState \in [Users -> {"enabled", "disabled", "archived"}]
      /\ asg \in [Users -> Assignment] /\ credState \in [Creds -> CredStates]
  BY <1>a, RowTypes
<1>1. UNCHANGED <<desiredVersion, snap, userState, asg, credState, agentVars, late, faults>>
  BY DEF Heartbeat
<1>2. /\ node' \in NodeType /\ node'.inst = node.inst /\ node'.applied = node.applied
      /\ node'.enabled = node.enabled /\ node'.archived = node.archived
  BY <1>b DEF Heartbeat, NodeType
<1>3. RowsOK' /\ RetiredOK' /\ ArchivedOK'
  BY <1>a, <1>1, <1>2 DEF RowsOK, RetiredOK, ArchivedOK
<1>5. \A w \in Users : CurrentEntry(w)' = CurrentEntry(w)
  BY <1>1, <1>2 DEF CurrentEntry, EntryOf
<1> QED BY <1>b, <1>1, <1>2, <1>3, <1>5, RowStep, Zenon

\* AcknowledgeDesiredWithMaterial: what it does to the rows, whatever the
\* agent's state is.
LEMMA AckRows ==
    ASSUME IInv, NEW m \in Ack, AcknowledgeDesired(m)
    PROVE  /\ ServerTypeOK' /\ RowsOK' /\ SnapshotsOK' /\ RetiredOK' /\ ArchivedOK'
           /\ UNCHANGED <<desiredVersion, snap>>
           /\ node'.inst = node.inst
           /\ \/ node'.applied = node.applied
              \/ /\ m.status = "applied" /\ Acceptable(m)
                 /\ node'.applied = m.version
<1>a. TypeOK /\ RowsOK /\ SnapshotsOK /\ RetiredOK /\ ArchivedOK BY DEF IInv
<1>b. /\ desiredVersion \in Versions /\ node \in NodeType
      /\ userState \in [Users -> {"enabled", "disabled", "archived"}]
      /\ asg \in [Users -> Assignment] /\ credState \in [Creds -> CredStates]
      /\ snap \in [Versions -> [Users -> Entry]]
      /\ m.version \in Versions /\ m.version \in 0..MaxVersion
  BY <1>a, RowTypes DEF TypeOK, ServerTypeOK, Ack, Versions
<1>c. UNCHANGED <<desiredVersion, snap, userState>> BY DEF AcknowledgeDesired
<1>1. CASE ~Acceptable(m)
  <2>1. UNCHANGED <<node, asg, credState>> BY <1>1 DEF AcknowledgeDesired
  <2> QED BY <1>a, <1>c, <2>1 DEF TypeOK, ServerTypeOK, RowsOK, SnapshotsOK, RetiredOK,
        ArchivedOK, CurrentEntry
<1>2. CASE Acceptable(m) /\ m.status = "applied"
  <2>1. AckApplied(m.version) BY <1>2 DEF AcknowledgeDesired
  <2>2. /\ node' \in NodeType /\ node'.applied = m.version /\ m.version = desiredVersion
        /\ node'.inst = node.inst /\ node'.enabled = node.enabled
        /\ node'.archived = node.archived /\ node.archived = "no"
    BY <1>b, <1>2, <2>1, Zenon DEF AckApplied, Acceptable, NodeType
  <2>3. /\ credState' \in [Creds -> CredStates]
        /\ \A c \in Creds : IsDesired(c) =>
              /\ credState'[c] \in {"staged", "applied"} <=> credState[c] \in {"staged", "applied"}
              /\ credState'[c] = "retired" => credState[c] = "retired"
    BY <1>b, <2>1, Zenon DEF AckApplied, CredStates
  <2>4. \A u \in Users :
           /\ asg'[u] \in Assignment
           /\ asg[u].state = "none" => asg'[u] = asg[u]
           /\ asg[u].state # "none" =>
                 /\ asg'[u].state = "applied"
                 /\ asg'[u].cred = asg[u].cred /\ asg'[u].acred = asg[u].cred
                 /\ asg'[u].enabled = asg[u].enabled
                 /\ asg'[u].desired = asg[u].desired /\ asg'[u].applied = m.version
    <3> SUFFICES ASSUME NEW u \in Users
                 PROVE  /\ asg'[u] \in Assignment
                        /\ asg[u].state = "none" => asg'[u] = asg[u]
                        /\ asg[u].state # "none" =>
                              /\ asg'[u].state = "applied"
                              /\ asg'[u].cred = asg[u].cred /\ asg'[u].acred = asg[u].cred
                              /\ asg'[u].enabled = asg[u].enabled
                              /\ asg'[u].desired = asg[u].desired
                              /\ asg'[u].applied = m.version
      OBVIOUS
    <3>1. asg[u] \in Assignment BY <1>b
    <3>2. CASE asg[u].state = "none"
      BY <2>1, <3>1, <3>2, Zenon DEF AckApplied
    <3>3. CASE asg[u].state # "none"
      <4>1. asg[u].desired <= m.version BY <1>a, <2>2, <3>3, Zenon DEF RowsOK
      <4>2. asg'[u] = [asg[u] EXCEPT !.acred = asg[u].cred, !.applied = m.version,
                                     !.state = "applied"]
        BY <2>1, <3>3, <4>1, Zenon DEF AckApplied
      <4> QED BY <1>b, <3>1, <3>3, <4>2, Zenon DEF Assignment
    <3> QED BY <3>2, <3>3, Zenon
  <2>5. asg' \in [Users -> Assignment]
    BY <2>1, <2>4, Zenon DEF AckApplied
  <2>6. ServerTypeOK'
    BY <1>b, <1>c, <2>2, <2>3, <2>5, Zenon DEF ServerTypeOK, NodeType, CredStates
  <2>7. RowsOK'
    BY <1>a, <1>b, <1>c, <2>2, <2>4 DEF RowsOK, Versions
  <2>8. \A u \in Users : CurrentEntry(u)' = CurrentEntry(u)
    <3> SUFFICES ASSUME NEW u \in Users PROVE CurrentEntry(u)' = CurrentEntry(u) OBVIOUS
    <3>1. CASE asg[u].state = "none" BY <2>4, <3>1, Zenon DEF CurrentEntry, EntryOf
    <3>2. CASE asg[u].state # "none"
      <4>1. IsDesired(asg[u].cred) /\ asg[u].cred \in Creds
        BY <1>a, <3>2, Zenon DEF IsDesired, RowsOK
      <4> QED BY <1>c, <2>2, <2>3, <2>4, <3>2, <4>1, SameEntry, Zenon
    <3> QED BY <3>1, <3>2
  <2>9. SnapshotsOK'
    BY <1>a, <1>c, <2>4, <2>8 DEF SnapshotsOK
  <2>10. RetiredOK'
    <3> SUFFICES ASSUME NEW u \in Users, snap[desiredVersion][u].cred # NoCred
                 PROVE  credState'[snap[desiredVersion][u].cred] # "retired"
      BY <1>b, <1>c, <2>2 DEF RetiredOK, Versions
    <3>1. snap[desiredVersion][u] = CurrentEntry(u)
      BY <1>a, <1>b DEF SnapshotsOK, Versions
    <3>2. /\ asg[u].state # "none" /\ snap[desiredVersion][u].cred = asg[u].cred
          /\ credState[asg[u].cred] \in {"staged", "applied"}
      BY <3>1 DEF CurrentEntry, EntryOf, NoEntry
    <3>3. IsDesired(asg[u].cred) /\ asg[u].cred \in Creds
      BY <1>a, <3>2, Zenon DEF IsDesired, RowsOK
    <3> QED BY <2>3, <3>2, <3>3, Zenon
  <2>11. ArchivedOK'
    BY <1>a, <1>b, <1>c, <2>2 DEF ArchivedOK, Versions
  <2> QED BY <1>2, <1>c, <2>2, <2>6, <2>7, <2>9, <2>10, <2>11
<1>3. CASE Acceptable(m) /\ m.status # "applied"
  <2>1. AckFailed(m.version) BY <1>3 DEF AcknowledgeDesired
  <2>2. /\ node' \in NodeType /\ node'.applied = node.applied
        /\ node'.inst = node.inst /\ node'.enabled = node.enabled
        /\ node'.archived = node.archived /\ UNCHANGED credState
    BY <1>b, <2>1, Zenon DEF AckFailed, NodeType
  <2>3. \A u \in Users :
           /\ asg'[u] \in Assignment
           /\ asg'[u].state \in {asg[u].state, "failed"}
           /\ asg[u].state = "none" <=> asg'[u].state = "none"
           /\ asg'[u].cred = asg[u].cred /\ asg'[u].acred = asg[u].acred
           /\ asg'[u].enabled = asg[u].enabled
           /\ asg'[u].desired = asg[u].desired /\ asg'[u].applied = asg[u].applied
    BY <1>b, <2>1, Zenon DEF AckFailed, Assignment
  <2>4. ServerTypeOK'
    <3>1. asg' \in [Users -> Assignment] BY <2>1, <2>3, Zenon DEF AckFailed
    <3> QED BY <1>b, <1>c, <2>2, <3>1, Zenon DEF ServerTypeOK, NodeType, CredStates
  <2>5. RowsOK'
    BY <1>a, <1>c, <2>2, <2>3 DEF RowsOK
  <2>6. \A u \in Users : CurrentEntry(u)' = CurrentEntry(u)
    BY <1>c, <2>2, <2>3, Zenon DEF CurrentEntry, EntryOf
  <2>7. SnapshotsOK'
    BY <1>a, <1>c, <2>3, <2>6, Zenon DEF SnapshotsOK
  <2>8. RetiredOK' /\ ArchivedOK'
    BY <1>a, <1>c, <2>2, <2>3, Zenon DEF RetiredOK, ArchivedOK
  <2> QED BY <1>c, <2>2, <2>4, <2>5, <2>7, <2>8
<1> QED BY <1>1, <1>2, <1>3, Zenon

\* An acknowledgement of a version that the cache holds, or held before the
\* agent lost everything, keeps the cache ahead of applied_version.
LEMMA AckCache ==
    ASSUME IInv, NEW m \in Ack, AcknowledgeDesired(m), UNCHANGED <<cache, file>>,
           m.status = "applied" =>
              /\ cache.version = 0 \/ m.version <= cache.version
              /\ m.inst = file.inst => m.version <= cache.version
    PROVE  CacheOK' /\ node'.inst = node.inst
<1>a. CacheOK BY DEF IInv
<1>1. /\ UNCHANGED <<desiredVersion, snap>> /\ node'.inst = node.inst
      /\ \/ node'.applied = node.applied
         \/ /\ m.status = "applied" /\ m.inst = node.inst
            /\ node'.applied = m.version
  BY AckRows DEF Acceptable
<1> QED BY <1>a, <1>1, Zenon DEF CacheOK, Bound

\* Enrollment forgets what was acknowledged: 0 is below any cache.
LEMMA EnrollAgentStep ==
    ASSUME IInv, EnrollAgent
    PROVE  IInv'
<1>a. TypeOK /\ RowsOK /\ SnapshotsOK /\ ArchivedOK /\ CacheOK /\ AgentOK /\ LateOK
  BY DEF IInv
<1>b. /\ desiredVersion \in Versions /\ node \in NodeType
      /\ asg \in [Users -> Assignment] /\ credState \in [Creds -> CredStates]
  BY <1>a, RowTypes
<1>1. UNCHANGED <<desiredVersion, snap, userState, file, mem, cache, pc, env, late, faults>>
  BY Zenon DEF EnrollAgent, agentVars
<1>2. /\ node' \in NodeType /\ node'.inst = file.inst /\ node'.applied = 0
      /\ node'.enabled = node.enabled /\ node'.archived = "no" /\ node.archived = "no"
      /\ node'.inst # 0
  <2>1. file.inst \in 1..MaxInst /\ file.inst \in 0..MaxInst /\ file.inst # 0 /\ 0 \in 0..MaxVersion
    BY <1>a, BoundsAssumption DEF TypeOK, AgentTypeOK
  <2>2. node' = [node EXCEPT !.inst = file.inst, !.applied = 0, !.status = "pending"]
        /\ node.archived = "no"
    BY Zenon DEF EnrollAgent
  <2> QED BY <1>b, <2>1, <2>2, Zenon DEF NodeType
<1>3. /\ credState' \in [Creds -> CredStates]
      /\ \A c \in Creds : IsDesired(c) =>
            (credState'[c] \in {"staged", "applied"} <=> credState[c] \in {"staged", "applied"})
  BY <1>b, Zenon DEF EnrollAgent, CredStates
<1>4. \A u \in Users :
         /\ asg'[u] \in Assignment
         /\ asg[u].state = "none" => asg'[u] = asg[u]
         /\ asg[u].state # "none" =>
               /\ asg'[u].state = "pending" /\ asg'[u].cred = asg[u].cred
               /\ asg'[u].enabled = asg[u].enabled
               /\ asg'[u].desired = asg[u].desired /\ asg'[u].applied = 0
  <2> SUFFICES ASSUME NEW u \in Users
               PROVE  /\ asg'[u] \in Assignment
                      /\ asg[u].state = "none" => asg'[u] = asg[u]
                      /\ asg[u].state # "none" =>
                            /\ asg'[u].state = "pending" /\ asg'[u].cred = asg[u].cred
                            /\ asg'[u].enabled = asg[u].enabled
                            /\ asg'[u].desired = asg[u].desired /\ asg'[u].applied = 0
    OBVIOUS
  <2>1. asg[u] \in Assignment BY <1>b
  <2>2. asg'[u] = IF asg[u].state = "none" THEN asg[u]
                  ELSE [asg[u] EXCEPT !.acred = NoCred, !.applied = 0, !.state = "pending"]
    BY Zenon DEF EnrollAgent
  <2>3. CASE asg[u].state = "none" BY <2>1, <2>2, <2>3
  <2>4. CASE asg[u].state # "none"
    <3>1. asg'[u] = [asg[u] EXCEPT !.acred = NoCred, !.applied = 0, !.state = "pending"]
      BY <2>2, <2>4
    <3>2. 0 \in 0..MaxVersion BY BoundsAssumption
    <3> QED BY <2>1, <2>4, <3>1, <3>2, Zenon DEF Assignment
  <2> QED BY <2>3, <2>4, Zenon
<1>5. TypeOK'
  <2>1. asg' \in [Users -> Assignment] BY <1>4, Zenon DEF EnrollAgent
  <2>2. ServerTypeOK'
    BY <1>a, <1>1, <1>2, <1>3, <2>1, Zenon DEF TypeOK, ServerTypeOK, NodeType, CredStates
  <2>3. AgentTypeOK' BY <1>a, <1>1 DEF TypeOK, AgentTypeOK
  <2> QED BY <2>2, <2>3 DEF TypeOK
<1>6. RowsOK'
  BY <1>a, <1>1, <1>2, <1>4 DEF RowsOK
<1>7. \A u \in Users : CurrentEntry(u)' = CurrentEntry(u)
  <2> SUFFICES ASSUME NEW u \in Users PROVE CurrentEntry(u)' = CurrentEntry(u) OBVIOUS
  <2>1. CASE asg[u].state = "none" BY <1>4, <2>1, Zenon DEF CurrentEntry, EntryOf
  <2>2. CASE asg[u].state # "none"
    <3>1. IsDesired(asg[u].cred) /\ asg[u].cred \in Creds
      BY <1>a, <2>2, Zenon DEF IsDesired, RowsOK
    <3> QED BY <1>1, <1>2, <1>3, <1>4, <2>2, <3>1, SameEntry, Zenon
  <2> QED BY <2>1, <2>2
<1>8. SnapshotsOK'
  BY <1>a, <1>1, <1>4, <1>7 DEF SnapshotsOK
<1>9. RetiredOK' /\ ArchivedOK'
  BY <1>b, <1>1, <1>2 DEF RetiredOK, ArchivedOK, Versions
<1>10. CacheOK'
  BY <1>a, <1>1, <1>2 DEF CacheOK, Bound, TypeOK, AgentTypeOK
<1>11. AgentOK'
  <2>1. file.inst \in Nat BY <1>a DEF TypeOK, AgentTypeOK
  <2> QED BY <1>a, <1>1, <1>2, <2>1 DEF AgentOK, Bound
<1>12. LateOK' BY <1>a, <1>1 DEF LateOK
<1> QED BY <1>5, <1>6, <1>8, <1>9, <1>10, <1>11, <1>12 DEF IInv

\* The server's part of the invariant does not depend on the agent.
LEMMA ServerFrame ==
    ASSUME IInv, UNCHANGED serverVars
    PROVE  /\ ServerTypeOK' /\ RowsOK' /\ SnapshotsOK' /\ RetiredOK' /\ ArchivedOK'
           /\ UNCHANGED <<desiredVersion, snap, node>>
BY DEF IInv, serverVars, TypeOK, ServerTypeOK, RowsOK, SnapshotsOK, RetiredOK, ArchivedOK,
       CurrentEntry

\* Steps of the agent that leave the server's rows alone.
LEMMA AgentOnlyStep ==
    ASSUME IInv,
           \/ EnrollResponse \/ PollDesired \/ ApplyCache \/ PersistState
           \/ PollLost \/ ApplyCacheFails \/ ExecuteKicksFails \/ PersistStateFails
           \/ SendPendingAckDelayed \/ SendFailedAckLost \/ Crash
           \/ \E b \in BOOLEAN : LoseState(b)
    PROVE  IInv'
<1>a. TypeOK /\ CacheOK /\ AgentOK /\ LateOK /\ ArchivedOK BY DEF IInv
<1>b. /\ AgentTypeOK /\ desiredVersion \in Versions /\ node \in NodeType
      /\ snap \in [Versions -> [Users -> Entry]]
  BY <1>a, RowTypes, Zenon DEF TypeOK, ServerTypeOK
<1>c. UNCHANGED serverVars
  BY Zenon DEF EnrollResponse, PollDesired, ApplyCache, PersistState, PollLost, ApplyCacheFails, ExecuteKicksFails,
         PersistStateFails, SendPendingAckDelayed, SendFailedAckLost, Crash, LoseState
<1>d. /\ ServerTypeOK' /\ RowsOK' /\ SnapshotsOK' /\ RetiredOK' /\ ArchivedOK'
      /\ UNCHANGED <<desiredVersion, snap, node>>
  BY <1>c, ServerFrame
<1> SUFFICES AgentTypeOK' /\ CacheOK' /\ AgentOK' /\ LateOK'
  BY <1>d DEF IInv, TypeOK
<1> USE BoundsAssumption
<1>1. CASE EnrollResponse
  <2>1. /\ UNCHANGED <<mem, cache, pc, env, late, faults>>
        /\ file' = [file EXCEPT !.enrolled = TRUE] /\ node.inst = file.inst
    BY <1>1 DEF EnrollResponse
  <2>2. file' \in [ inst : 1..MaxInst, enrolled : BOOLEAN,
                    applied : 0..MaxVersion, pending : 0..MaxVersion ]
        /\ file'.inst = file.inst /\ file'.pending = file.pending /\ file'.enrolled
    BY <1>b, <2>1, Zenon DEF AgentTypeOK
  <2> QED BY <1>a, <1>b, <1>d, <2>1, <2>2, Zenon DEF AgentTypeOK, CacheOK, AgentOK, LateOK, Bound
<1>2. CASE PollDesired
  <2>1. /\ UNCHANGED <<file, mem, cache, late, faults>> /\ file.enrolled
        /\ \/ pc' = "fetched" /\ env' = desiredVersion
           \/ pc' = "idle" /\ env' = env
    BY <1>2 DEF PollDesired, Authenticated
  <2> QED BY <1>a, <1>b, <1>d, <2>1 DEF AgentTypeOK, CacheOK, AgentOK, LateOK, Bound, Versions
<1>3. CASE ApplyCache
  <2>1. /\ UNCHANGED <<file, mem, env, late, faults>> /\ pc = "fetched" /\ pc' = "cached"
        /\ cache' = [version |-> env, users |-> snap[env]] /\ env >= cache.version
    BY <1>3 DEF ApplyCache
  <2>2. /\ file.enrolled /\ env \in Versions /\ env <= desiredVersion /\ Bound
        /\ env # 0 /\ cache.version \in 0..MaxVersion
    BY <1>a, <1>b, <2>1 DEF AgentOK, Versions, AgentTypeOK
  <2>3. AgentTypeOK'
    BY <1>b, <2>1, <2>2, Zenon DEF AgentTypeOK, Versions
  <2>4. CacheOK'
    BY <1>a, <1>b, <1>d, <2>1, <2>2 DEF CacheOK, Bound, NodeType, Versions, AgentTypeOK
  <2>5. AgentOK'
    BY <1>a, <1>b, <1>d, <2>1, <2>2 DEF AgentOK, Bound, Versions, AgentTypeOK
  <2>6. LateOK'
    BY <1>a, <1>b, <1>d, <2>1, <2>2, Zenon DEF LateOK, Versions, AgentTypeOK, Ack
  <2> QED BY <2>3, <2>4, <2>5, <2>6
<1>4. CASE PersistState \/ PersistStateFails
  <2>1. /\ UNCHANGED <<cache, env, late>> /\ pc = "cached" /\ pc' = "idle"
        /\ mem' = [applied |-> env, pending |-> env] /\ env \in Versions /\ env = cache.version
        /\ file.enrolled /\ faults' \in 0..MaxFaults
        /\ file' = file \/ file' = [file EXCEPT !.applied = env, !.pending = env]
    BY <1>4, <1>a, <1>b DEF PersistState, PersistStateFails, Fault, AgentOK, AgentTypeOK
  <2>2. env \in 0..MaxVersion BY <2>1 DEF Versions
  <2>3. /\ file' \in [ inst : 1..MaxInst, enrolled : BOOLEAN,
                       applied : 0..MaxVersion, pending : 0..MaxVersion ]
        /\ file'.inst = file.inst /\ file'.pending \in {file.pending, env}
        /\ file'.enrolled = file.enrolled
    BY <1>b, <2>1, <2>2, Zenon DEF AgentTypeOK
  <2> QED BY <1>a, <1>b, <1>d, <2>1, <2>2, <2>3 DEF AgentTypeOK, CacheOK, AgentOK, LateOK, Bound, Versions
<1>5. CASE PollLost
  BY <1>a, <1>b, <1>d, <1>5 DEF PollLost, Fault, AgentTypeOK, CacheOK, AgentOK, LateOK, Bound
<1>6. CASE ApplyCacheFails \/ ExecuteKicksFails
  BY <1>a, <1>b, <1>d, <1>6 DEF ApplyCacheFails, ExecuteKicksFails, Fault, AgentTypeOK, CacheOK, AgentOK, LateOK, Bound
<1>7. CASE SendPendingAckDelayed
  <2>1. /\ UNCHANGED <<file, mem, cache, pc, env>> /\ faults' \in 0..MaxFaults
        /\ late' = late \cup {AckOf(mem.pending, "applied")}
        /\ mem.pending \in Versions /\ mem.pending <= cache.version /\ pc # "fetched"
    BY <1>7, <1>a, <1>b DEF SendPendingAckDelayed, Sending, Fault, agentVars, AgentTypeOK,
         AgentOK, Versions
  <2>2. /\ AckOf(mem.pending, "applied") \in Ack
        /\ AckOf(mem.pending, "applied").inst = file.inst
        /\ AckOf(mem.pending, "applied").version = mem.pending
    BY <1>b, <2>1, Zenon DEF AckOf, Ack, AgentTypeOK
  <2>3. AgentTypeOK' BY <1>b, <2>1, <2>2, Zenon DEF AgentTypeOK
  <2>4. CacheOK' /\ AgentOK' BY <1>a, <1>d, <2>1, Zenon DEF CacheOK, AgentOK, Bound
  <2>5. LateOK'
    <3>1. mem.pending <= desiredVersion /\ file.inst \in Nat
      BY <1>a, <1>b, <2>1 DEF CacheOK, Versions, AgentTypeOK
    <3> QED BY <1>a, <1>d, <2>1, <2>2, <3>1 DEF LateOK
  <2> QED BY <2>3, <2>4, <2>5
<1>8. CASE SendFailedAckLost
  <2>1. /\ UNCHANGED <<file, mem, cache, env>> /\ faults' \in 0..MaxFaults
        /\ late' = late \/ late' = late \cup {AckOf(env, "failed")}
        /\ env \in Versions /\ env <= desiredVersion /\ pc' = "idle"
    BY <1>8, <1>a, <1>b DEF SendFailedAckLost, Fault, AgentTypeOK, AgentOK
  <2>2. /\ AckOf(env, "failed") \in Ack /\ AckOf(env, "failed").inst = file.inst
        /\ AckOf(env, "failed").version = env /\ AckOf(env, "failed").status = "failed"
    BY <1>b, <2>1, Zenon DEF AckOf, Ack, AgentTypeOK
  <2>3. AgentTypeOK' BY <1>b, <2>1, <2>2, Zenon DEF AgentTypeOK
  <2>4. CacheOK' /\ AgentOK' BY <1>a, <1>d, <2>1, Zenon DEF CacheOK, AgentOK, Bound
  <2>5. LateOK'
    <3>1. file.inst \in Nat BY <1>b DEF AgentTypeOK
    <3> QED BY <1>a, <1>d, <2>1, <2>2, <3>1 DEF LateOK
  <2> QED BY <2>3, <2>4, <2>5
<1>9. CASE Crash
  <2>1. /\ UNCHANGED <<file, cache, env, late>> /\ pc' = "start" /\ faults' \in 0..MaxFaults
        /\ mem' = [applied |-> file.applied, pending |-> file.pending]
    BY <1>9, <1>b DEF Crash, Fault, AgentTypeOK
  <2>2. mem'.pending = file.pending BY <2>1
  <2>3. AgentTypeOK' BY <1>b, <2>1, Zenon DEF AgentTypeOK
  <2> QED BY <1>a, <1>d, <2>1, <2>2, <2>3, Zenon DEF CacheOK, AgentOK, LateOK, Bound
<1>10. CASE \E b \in BOOLEAN : LoseState(b)
  <2> DEFINE empty == [version |-> 0, users |-> [u \in Users |-> NoEntry]]
  <2>1. /\ UNCHANGED <<env, late>> /\ pc' = "start" /\ faults' \in 0..MaxFaults
        /\ file' = [inst |-> file.inst + 1, enrolled |-> FALSE, applied |-> 0, pending |-> 0]
        /\ mem' = [applied |-> 0, pending |-> 0]
        /\ cache' = cache \/ cache' = empty
        /\ file.inst < MaxInst
    BY <1>10, <1>b DEF LoseState, Fault, AgentTypeOK
  <2>2. /\ file'.inst = file.inst + 1 /\ ~file'.enrolled /\ file'.pending = 0 /\ mem'.pending = 0
        /\ file.inst \in Nat /\ node.inst \in Nat /\ node.inst <= file.inst
        /\ cache.version \in Nat /\ cache'.version \in {0, cache.version}
    BY <1>a, <1>b, <2>1 DEF AgentTypeOK, AgentOK, NodeType
  <2>3. AgentTypeOK'
    <3>1. empty \in [version : 0..MaxVersion, users : [Users -> Entry]]
      BY DEF Entry, NoEntry
    <3>2. cache' \in [version : 0..MaxVersion, users : [Users -> Entry]]
      BY <1>b, <2>1, <3>1, Zenon DEF AgentTypeOK
    <3>3. file' \in [ inst : 1..MaxInst, enrolled : BOOLEAN,
                      applied : 0..MaxVersion, pending : 0..MaxVersion ]
      BY <1>b, <2>1, <2>2
    <3> QED BY <1>b, <2>1, <3>2, <3>3, Zenon DEF AgentTypeOK
  <2>4. CacheOK'
    BY <1>a, <1>b, <1>d, <2>1, <2>2 DEF CacheOK, Bound, Versions
  <2>5. AgentOK' BY <1>a, <1>d, <2>1, <2>2 DEF AgentOK, Bound
  <2>6. LateOK'
    <3>1. \A m \in late : m.inst \in Nat /\ m.version \in Nat
      BY <1>b DEF AgentTypeOK, Ack, Versions
    <3> QED BY <1>a, <1>d, <2>1, <2>2, <3>1 DEF LateOK
  <2> QED BY <2>3, <2>4, <2>5, <2>6
<1> QED BY <1>1, <1>2, <1>3, <1>4, <1>5, <1>6, <1>7, <1>8, <1>9, <1>10, Zenon

\* Steps that reach the acknowledgement endpoint.
LEMMA AckStep ==
    ASSUME IInv,
           \/ SendPendingAck \/ SendPendingAckUnconfirmed \/ SendFailedAck \/ DeliverLateAck
    PROVE  IInv'
<1>a. TypeOK /\ CacheOK /\ AgentOK /\ LateOK BY DEF IInv
<1>b. AgentTypeOK BY <1>a DEF TypeOK
<1>1. CASE SendPendingAck \/ SendPendingAckUnconfirmed
  <2> DEFINE m == AckOf(mem.pending, "applied")
  <2>1. /\ UNCHANGED <<cache, pc, env, late>> /\ faults' \in 0..MaxFaults
        /\ AcknowledgeDesired(m) /\ mem.pending # 0
        /\ \/ UNCHANGED <<file, mem>>
           \/ /\ mem' = [mem EXCEPT !.pending = 0]
              /\ file' = [file EXCEPT !.applied = mem.applied, !.pending = 0]
    BY <1>1, <1>b, BoundsAssumption DEF SendPendingAck, SendPendingAckUnconfirmed, Sending,
         Fault, agentVars, AgentTypeOK
  <2>2. /\ m \in Ack /\ m.version = mem.pending /\ m.inst = file.inst
        /\ mem.pending <= cache.version
    BY <1>a, <1>b, <2>1 DEF AckOf, Ack, AgentTypeOK, AgentOK, Versions
  <2>3. /\ ServerTypeOK' /\ RowsOK' /\ SnapshotsOK' /\ RetiredOK' /\ ArchivedOK'
        /\ UNCHANGED <<desiredVersion, snap>> /\ node'.inst = node.inst
        /\ (node'.applied = node.applied \/ (m.inst = node.inst /\ node'.applied = mem.pending))
    BY <2>1, <2>2, AckRows DEF Acceptable
  <2>4. CacheOK'
    <3>1. /\ cache' = cache /\ file'.inst = file.inst
          /\ mem.pending <= cache.version
      BY <1>b, <2>1, <2>2, Zenon DEF AgentTypeOK
    <3> QED BY <1>a, <2>2, <2>3, <3>1, Zenon DEF CacheOK, Bound
  <2>5. /\ file' \in [ inst : 1..MaxInst, enrolled : BOOLEAN,
                       applied : 0..MaxVersion, pending : 0..MaxVersion ]
        /\ mem' \in [applied : 0..MaxVersion, pending : 0..MaxVersion]
        /\ file'.inst = file.inst /\ file'.enrolled = file.enrolled
        /\ file'.pending <= cache.version /\ mem'.pending <= cache.version
    <3>1. 0 \in 0..MaxVersion /\ cache.version \in Nat
      BY <1>b, BoundsAssumption DEF AgentTypeOK
    <3>2. CASE UNCHANGED <<file, mem>> BY <1>a, <1>b, <3>2 DEF AgentTypeOK, AgentOK
    <3>3. CASE /\ mem' = [mem EXCEPT !.pending = 0]
               /\ file' = [file EXCEPT !.applied = mem.applied, !.pending = 0]
      <4>1. /\ file \in [ inst : 1..MaxInst, enrolled : BOOLEAN,
                          applied : 0..MaxVersion, pending : 0..MaxVersion ]
            /\ mem \in [applied : 0..MaxVersion, pending : 0..MaxVersion]
        BY <1>b DEF AgentTypeOK
      <4>2. file'.pending = 0 /\ mem'.pending = 0
            /\ file'.inst = file.inst /\ file'.enrolled = file.enrolled
        BY <3>3, <4>1
      <4>3. file' \in [ inst : 1..MaxInst, enrolled : BOOLEAN,
                        applied : 0..MaxVersion, pending : 0..MaxVersion ]
        BY <3>1, <3>3, <4>1, Zenon
      <4>4. mem' \in [applied : 0..MaxVersion, pending : 0..MaxVersion]
        BY <3>1, <3>3, <4>1
      <4> QED BY <3>1, <4>2, <4>3, <4>4
    <3> QED BY <2>1, <3>2, <3>3
  <2>6. AgentTypeOK' BY <1>b, <2>1, <2>5 DEF AgentTypeOK
  <2>7. AgentOK' BY <1>a, <2>1, <2>3, <2>5, Zenon DEF AgentOK, Bound
  <2>8. LateOK' BY <1>a, <2>1, <2>3, <2>5 DEF LateOK
  <2> QED BY <2>3, <2>4, <2>6, <2>7, <2>8 DEF IInv, TypeOK
<1>2. CASE SendFailedAck
  <2> DEFINE m == AckOf(env, "failed")
  <2>1. /\ UNCHANGED <<file, mem, cache, env, late, faults>> /\ pc' = "idle"
        /\ AcknowledgeDesired(m) /\ env \in Versions
    BY <1>2, <1>a DEF SendFailedAck, AgentOK
  <2>2. m \in Ack /\ m.status = "failed" BY <1>b, <2>1 DEF AckOf, Ack, AgentTypeOK
  <2>3. /\ ServerTypeOK' /\ RowsOK' /\ SnapshotsOK' /\ RetiredOK' /\ ArchivedOK'
        /\ UNCHANGED <<desiredVersion, snap>>
    BY <2>1, <2>2, AckRows
  <2>4. CacheOK' /\ node'.inst = node.inst BY <2>1, <2>2, AckCache
  <2>5. AgentTypeOK' /\ AgentOK' /\ LateOK'
    BY <1>a, <1>b, <2>1, <2>3, <2>4, Zenon DEF AgentTypeOK, AgentOK, LateOK, Bound
  <2> QED BY <2>3, <2>4, <2>5 DEF IInv, TypeOK
<1>3. CASE DeliverLateAck
  <2>1. PICK m \in late : AcknowledgeDesired(m) /\ late' = late \ {m}
    BY <1>3 DEF DeliverLateAck
  <2>2. m \in Ack BY <1>b DEF AgentTypeOK
  <2>3. UNCHANGED <<file, mem, cache, pc, env, faults>>
    BY <1>3 DEF DeliverLateAck, agentVars
  <2>4. /\ ServerTypeOK' /\ RowsOK' /\ SnapshotsOK' /\ RetiredOK' /\ ArchivedOK'
        /\ UNCHANGED <<desiredVersion, snap>>
    BY <2>1, <2>2, AckRows
  <2>5. m.status = "applied" =>
           /\ cache.version = 0 \/ m.version <= cache.version
           /\ m.inst = file.inst => m.version <= cache.version
    BY <1>a DEF LateOK
  <2>6. CacheOK' /\ node'.inst = node.inst BY <2>1, <2>2, <2>3, <2>5, AckCache
  <2>7. AgentTypeOK' /\ AgentOK'
    BY <1>a, <1>b, <2>1, <2>3, <2>4, <2>6, Zenon DEF AgentTypeOK, AgentOK, Bound
  <2>8. LateOK' BY <1>a, <2>1, <2>3, <2>4 DEF LateOK
  <2> QED BY <2>4, <2>6, <2>7, <2>8 DEF IInv, TypeOK
<1> QED BY <1>1, <1>2, <1>3

\* Every step preserves the invariant.
LEMMA NextIInv == IInv /\ [Next]_vars => IInv'
<1> SUFFICES ASSUME IInv, [Next]_vars PROVE IInv' OBVIOUS
<1>1. CASE Operator
  <2>1. ASSUME NEW u \in Users, NEW c \in Creds, c[1] = u,
               AssignUser(u, c) \/ RotateCredential(u, c)
        PROVE  IInv'
    BY <2>1, AssignUserStep, RotateCredentialStep
  <2>2. ASSUME NEW u \in Users, UnassignUser(u) \/ ArchiveUser(u) PROVE IInv'
    BY <2>2, UnassignUserStep, ArchiveUserStep
  <2>3. ASSUME NEW u \in Users, NEW b \in BOOLEAN,
               UpdateUser(u, b) \/ UpdateAssignment(u, b)
        PROVE  IInv'
    BY <2>3, UpdateUserStep, UpdateAssignmentStep
  <2>4. ASSUME NEW u \in Users,
               (\E b \in BOOLEAN : UpdateIdleUser(u, b)) \/ ArchiveIdleUser(u)
        PROVE  IInv'
    BY <2>4, IdleUserStep
  <2>5. ASSUME NEW b \in BOOLEAN, UpdateNode(b) \/ ArchiveNode(b) PROVE IInv'
    BY <2>5, UpdateNodeStep, ArchiveNodeStep
  <2> QED BY <1>1, <2>1, <2>2, <2>3, <2>4, <2>5, RetryNodeSyncStep DEF Operator
<1>2. CASE Heartbeat BY <1>2, HeartbeatStep
<1>3. CASE AgentStep
  BY <1>3, EnrollAgentStep, AgentOnlyStep, AckStep DEF AgentStep
<1>4. CASE Faulty
  BY <1>4, AgentOnlyStep, AckStep DEF Faulty
<1>5. CASE UNCHANGED vars
  <2> USE <1>5 DEF vars, serverVars, agentVars
  <2>1. TypeOK' BY DEF IInv, TypeOK, ServerTypeOK, AgentTypeOK
  <2>2. RowsOK' BY Zenon DEF IInv, RowsOK, Bound
  <2>3. SnapshotsOK' BY Zenon DEF IInv, SnapshotsOK, CurrentEntry
  <2>4. RetiredOK' /\ ArchivedOK' BY Zenon DEF IInv, RetiredOK, ArchivedOK
  <2>5. CacheOK' BY Zenon DEF IInv, CacheOK, Bound
  <2>6. AgentOK' /\ LateOK' BY Zenon DEF IInv, AgentOK, LateOK, Bound
  <2> QED BY <2>1, <2>2, <2>3, <2>4, <2>5, <2>6 DEF IInv
<1> QED BY <1>1, <1>2, <1>3, <1>4, <1>5 DEF Next

\* The inductive invariant holds in every reachable state.
THEOREM Invariance == Spec => []IInv
<1>1. Init => IInv BY InitIInv
<1>2. IInv /\ [Next]_vars => IInv' BY NextIInv
<1> QED BY <1>1, <1>2, PTL DEF Spec

\* Rows, files and messages keep their types.
THEOREM TypeCorrect == Spec => []TypeOK
<1>1. IInv => TypeOK BY DEF IInv
<1> QED BY <1>1, Invariance, PTL

\* What ResolveSubscription renders for the node, the agent accepts: the
\* row is "applied" at a version that the cache has reached, and no snapshot
\* since that version says anything else of the user.
THEOREM RenderedAccepted == Spec => []RenderedCredentialIsAccepted
<1>1. IInv => RenderedCredentialIsAccepted
  <2> SUFFICES ASSUME IInv, Bound, NEW u \in Users, Rendered(u)
               PROVE  cache.users[u] = [cred |-> asg[u].acred, on |-> TRUE]
    BY DEF RenderedCredentialIsAccepted
  <2>1. /\ TypeOK /\ RowsOK /\ SnapshotsOK /\ CacheOK BY DEF IInv
  <2>2. /\ asg[u] \in Assignment /\ node.applied \in Nat /\ cache.version \in 0..MaxVersion
        /\ desiredVersion \in Versions
    BY <2>1 DEF TypeOK, ServerTypeOK, AgentTypeOK
  <2>3. /\ asg[u].desired <= asg[u].applied /\ asg[u].applied <= node.applied
        /\ asg[u].acred = asg[u].cred /\ asg[u].state # "none"
    BY <2>1, Zenon DEF Rendered, RowsOK
  <2>4. node.applied <= cache.version /\ cache.version <= desiredVersion
    BY <2>1 DEF CacheOK
  <2>5. asg[u].desired <= cache.version
    BY <2>2, <2>3, <2>4 DEF Assignment
  <2>6. CurrentEntry(u) = [cred |-> asg[u].acred, on |-> TRUE]
    BY <2>3, Zenon DEF CurrentEntry, EntryOf, Rendered
  <2>7. cache.version \in Versions
    BY <2>1, <2>2, <2>3, <2>5 DEF RowsOK, Assignment, Versions
  <2>8. snap[cache.version][u] = CurrentEntry(u)
    BY <2>1, <2>3, <2>4, <2>5, <2>7, Zenon DEF SnapshotsOK
  <2>9. cache.version # 0
    BY <2>7 DEF Versions
  <2>10. cache.users = snap[cache.version]
    BY <2>1, <2>9, Zenon DEF CacheOK
  <2> QED BY <2>6, <2>8, <2>10, Zenon
<1> QED BY <1>1, Invariance, PTL

\* Once applied_version equals desired_version the agent authenticates by
\* the newest snapshot, which is that of the rows.
THEOREM AcknowledgedInstalled == Spec => []AcknowledgedMeansInstalled
<1>1. IInv => AcknowledgedMeansInstalled
  <2> SUFFICES ASSUME IInv, Bound, node.applied = desiredVersion, NEW u \in Users
               PROVE  cache.users[u] = CurrentEntry(u)
    BY DEF AcknowledgedMeansInstalled
  <2>1. SnapshotsOK /\ CacheOK /\ desiredVersion \in Versions /\ cache.version \in 0..MaxVersion
    BY DEF IInv, TypeOK, ServerTypeOK, AgentTypeOK
  <2>2. cache.version = desiredVersion
    BY <2>1 DEF CacheOK, Versions
  <2> QED BY <2>1, <2>2 DEF CacheOK, SnapshotsOK, Versions
<1> QED BY <1>1, Invariance, PTL

\* A node archived without force leaves no agent that admits anybody.
THEOREM ArchiveWithdraws == Spec => []WithdrawnBeforeArchive
<1>1. IInv => WithdrawnBeforeArchive
  <2> SUFFICES ASSUME IInv, node.archived = "plain", NEW u \in Users
               PROVE  ~cache.users[u].on
    BY DEF WithdrawnBeforeArchive
  <2>1. /\ SnapshotsOK /\ CacheOK /\ ArchivedOK
        /\ desiredVersion \in Versions /\ cache.version \in 0..MaxVersion
    BY DEF IInv, TypeOK, ServerTypeOK, AgentTypeOK
  <2>2. CASE cache.version = 0 BY <2>1, <2>2 DEF CacheOK, NoEntry
  <2>3. CASE cache.version # 0
    <3>1. cache.version = desiredVersion
      BY <2>1, <2>3 DEF CacheOK, ArchivedOK, Versions
    <3>2. cache.users[u] = CurrentEntry(u)
      BY <2>1, <2>3, <3>1 DEF CacheOK, SnapshotsOK, Versions
    <3>3. CurrentEntry(u) = NoEntry
      BY <2>1, Zenon DEF ArchivedOK, CurrentEntry, EntryOf
    <3> QED BY <3>2, <3>3 DEF NoEntry
  <2> QED BY <2>2, <2>3
<1> QED BY <1>1, Invariance, PTL

\* A retired credential is refused by the installation that acknowledged.
THEOREM RetiredRefused == Spec => []RetiredCredentialIsRefused
<1>1. IInv => RetiredCredentialIsRefused
  <2> SUFFICES ASSUME IInv, Bound, node.applied > 0, NEW u \in Users,
                      cache.users[u].cred # NoCred
               PROVE  credState[cache.users[u].cred] # "retired"
    BY Zenon DEF RetiredCredentialIsRefused
  <2>1. /\ RetiredOK /\ CacheOK /\ node.applied \in 0..MaxVersion
        /\ cache.version \in 0..MaxVersion
    BY DEF IInv, TypeOK, ServerTypeOK, AgentTypeOK
  <2>2. cache.version \in Versions /\ node.applied <= cache.version
    BY <2>1 DEF CacheOK, Versions
  <2>3. cache.users = snap[cache.version] /\ cache.version <= desiredVersion
    BY <2>1, <2>2 DEF CacheOK, Versions
  <2> QED BY <2>1, <2>2, <2>3, Zenon DEF RetiredOK
<1> QED BY <1>1, Invariance, PTL

\* applied_version falls back only when an installation enrolls: an accepted
\* acknowledgement is of desired_version, which is never behind it.
THEOREM AppliedMonotone == Spec => AppliedNeverRegresses
<1> DEFINE Ok == node'.applied < node.applied => node'.applied = 0 /\ ~file.enrolled
<1>1. ASSUME IInv, [Next]_vars PROVE [Ok]_vars
  <2>a. node \in NodeType /\ desiredVersion \in Versions /\ node.applied <= desiredVersion
    BY <1>1, RowTypes DEF IInv, ArchivedOK
  <2>1. ASSUME NEW m \in Ack, AcknowledgeDesired(m) PROVE Ok
    BY <1>1, <2>1, <2>a, AckRows DEF Acceptable, NodeType, Versions
  <2>2. CASE Operator
    <3>1. node'.applied = node.applied
      BY <2>2, <2>a, Zenon DEF Operator, AssignUser, RotateCredential, UnassignUser, UpdateUser,
           UpdateIdleUser, UpdateAssignment, ArchiveUser, ArchiveIdleUser, UpdateNode,
           ArchiveNode, RetryNodeSync, NodeType
    <3> QED BY <3>1, <2>a DEF NodeType
  <2>3. CASE Heartbeat
    BY <2>3, <2>a DEF Heartbeat, NodeType
  <2>4. CASE EnrollAgent
    BY <2>4, <2>a, Zenon DEF EnrollAgent, NodeType
  <2>5. CASE SendPendingAck \/ SendPendingAckUnconfirmed
    <3>1. AckOf(mem.pending, "applied") \in Ack
      BY <1>1, <2>5 DEF SendPendingAck, SendPendingAckUnconfirmed, Sending, AckOf, Ack, IInv,
           TypeOK, AgentTypeOK, Versions
    <3> QED BY <2>1, <2>5, <3>1 DEF SendPendingAck, SendPendingAckUnconfirmed
  <2>6. CASE SendFailedAck
    <3>1. AckOf(env, "failed") \in Ack
      BY <1>1, <2>6 DEF SendFailedAck, AckOf, Ack, IInv, TypeOK, AgentTypeOK, AgentOK, Versions
    <3> QED BY <2>1, <2>6, <3>1 DEF SendFailedAck
  <2>7. CASE DeliverLateAck
    BY <1>1, <2>1, <2>7 DEF DeliverLateAck, IInv, TypeOK, AgentTypeOK
  <2>8. CASE UNCHANGED node
    BY <2>8, <2>a DEF NodeType
  <2>9. CASE \/ EnrollResponse \/ PollDesired \/ ApplyCache \/ PersistState
             \/ PollLost \/ ApplyCacheFails \/ ExecuteKicksFails \/ PersistStateFails
             \/ SendPendingAckDelayed \/ SendFailedAckLost \/ Crash
             \/ \E b \in BOOLEAN : LoseState(b)
    <3>1. UNCHANGED node
      BY <2>9, Zenon DEF EnrollResponse, PollDesired, ApplyCache, PersistState, PollLost,
           ApplyCacheFails, ExecuteKicksFails, PersistStateFails, SendPendingAckDelayed, SendFailedAckLost,
           Crash, LoseState, serverVars
    <3> QED BY <2>8, <3>1
  <2>10. CASE UNCHANGED vars BY <2>10
  <2> QED BY <1>1, <2>2, <2>3, <2>4, <2>5, <2>6, <2>7, <2>9, <2>10, Zenon DEF Next, AgentStep, Faulty
<1>2. IInv /\ [Next]_vars => [Ok]_vars BY <1>1
<1> QED BY <1>2, Invariance, PTL DEF Spec, AppliedNeverRegresses

=============================================================================
