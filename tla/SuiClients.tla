----------------------------- MODULE SuiClients -----------------------------
(***************************************************************************)
(* Ownership of the clients of an S-UI panel.                              *)
(*                                                                         *)
(* The control plane assigns users to an S-UI node: a "managed" assignment *)
(* has the agent create a client on the panel or take over an adopted one, *)
(* a "read_only" assignment only maps a user to a client that the panel's  *)
(* own operator made.  The agent applies each desired snapshot over the    *)
(* panel's HTTP interface, one user after another, and remembers in its    *)
(* database which client belongs to which user.  The panel's operator      *)
(* edits clients at any time, and the agent may stop, or lose an answer,   *)
(* between any two calls.                                                  *)
(*                                                                         *)
(* A credential is named by the snapshot version that introduced it, and   *)
(* stands for its fingerprint too; 0 is a password the agent did not set.  *)
(* A username is the user.  Versions acknowledged and retried are the      *)
(* matter of DesiredSync: here an acknowledgement is not lost.  A step is  *)
(* one call to the panel, together with the agent's own work before it;    *)
(* the search for a client whose id changed is one step.                   *)
(***************************************************************************)
EXTENDS Naturals, FiniteSets

CONSTANTS
  Users,
  Other,       \* a client name that is no username
  MaxIDs,      \* bound: clients ever made on the panel
  MaxVersion,  \* bound: changes of the desired state
  MaxEdits,    \* bound: edits by the panel's operator
  MaxFaults    \* bound: agent stops and lost calls

ASSUME SuiBounds ==
  /\ MaxIDs \in Nat \ {0} /\ MaxVersion \in Nat
  /\ MaxEdits \in Nat /\ MaxFaults \in Nat
  /\ Other \notin Users

IDs == 1 .. MaxIDs
Versions == 0 .. MaxVersion
Names == Users \cup {Other}
Modes == {"none", "read_only", "managed"}

VARIABLES
  version,   \* nodes.desired_version
  enabled,   \* nodes.enabled
  row,       \* the assignments: mode, remote_client_id, credential, version
  seen,      \* sui_discovered_clients: the name reported for an id
  panel,     \* the clients of the panel
  nextID,    \* the next id of the panel
  mapping,   \* sui_client_mappings of the agent
  applied,   \* the version applied and acknowledged
  degraded,  \* a failed acknowledgement came after the last applied one
  pc, env, disc, todo, cur, detail,   \* the agent's reconciliation
  edits, faults,
  raced,     \* history: the panel was edited while the agent was creating
  again      \* history: users assigned anew before the agent let go of them

server == <<version, enabled, row, seen>>
remote == <<panel, nextID>>
acks == <<applied, degraded>>
local == <<mapping, acks>>
work == <<pc, env, disc, todo, cur, detail>>
vars == <<server, remote, local, work, edits, faults, raced, again>>

NoRow == [mode |-> "none", remote |-> 0, cred |-> 0, desired |-> 0]
NoMapping == [id |-> 0, mode |-> "none", name |-> Other, cred |-> 0]
NoEnv == [version |-> 0, row |-> [u \in Users |-> NoRow]]
NoDetail == [id |-> 0, name |-> Other, cred |-> 0]

\* A client of the panel.  The last three fields are history: the agent made
\* it or an administrator adopted it; the agent's last save of it is recorded
\* in a mapping; the panel's operator changed or moved it since.
Client == [ name : Names, cred : Versions, ours : BOOLEAN, recorded : BOOLEAN,
            touched : BOOLEAN ]
Live == DOMAIN panel

ManualClient(n) == [ name |-> n, cred |-> 0, ours |-> FALSE, recorded |-> FALSE,
                     touched |-> FALSE ]

\* The panel (external): a save adds a client, replaces it or removes it.
With(id, client) == [i \in Live \cup {id} |-> IF i = id THEN client ELSE panel[i]]
Without(id) == [i \in Live \ {id} |-> panel[i]]

\* What discovery returns: the clients and their names.
discover == [i \in Live |-> panel[i].name]
NoClients == [i \in {} |-> Other]

Init ==
  /\ version = 0 /\ applied = 0 /\ degraded = FALSE /\ enabled = TRUE
  /\ row = [u \in Users |-> NoRow]
  /\ panel = [i \in {1} |-> ManualClient(Other)]
  /\ nextID = 2
  /\ seen = [i \in {1} |-> Other]
  /\ mapping = [u \in Users |-> NoMapping]
  /\ pc = "idle" /\ env = NoEnv /\ disc = NoClients
  /\ todo = {} /\ cur = Other /\ detail = NoDetail
  /\ edits = 0 /\ faults = 0 /\ raced = FALSE /\ again = {}

(***************************************************************************)
(* The control plane                                                       *)
(***************************************************************************)
\* A change of the desired state: the row changes in a new snapshot.
Bump(u, new) ==
  /\ version < MaxVersion
  /\ version' = version + 1
  /\ row' = [row EXCEPT ![u] = new]
  /\ UNCHANGED <<enabled, seen, nextID, local, work, edits, faults, raced>>

\* The agent still maps the user, or is applying a snapshot with it.
StillHeld(u) == mapping[u].id # 0 \/ env.row[u].mode # "none"

assignUserTxWithMode(u, mode, id) ==
  /\ row[u].mode = "none"
  /\ id # 0 => \A v \in Users : row[v].remote # id
  /\ Bump(u, [mode |-> mode, remote |-> id, cred |-> version + 1,
              desired |-> version + 1])
  /\ again' = IF StillHeld(u) THEN again \cup {u} ELSE again
  /\ UNCHANGED panel

AssignUser(u) == assignUserTxWithMode(u, "managed", 0)

ImportSUIClient(u, id) ==
  /\ id \in DOMAIN seen
  /\ assignUserTxWithMode(u, "read_only", id)

\* The row is applied: a failed acknowledgement marks every row of the node.
InSync(u) == row[u].desired <= applied /\ ~degraded

\* Adoption needs a read-only row in sync, of a client that was reported.
AdoptSUIClient(u) ==
  LET id == row[u].remote
  IN /\ row[u].mode = "read_only" /\ InSync(u)
     /\ id \in DOMAIN seen
     /\ Bump(u, [row[u] EXCEPT !.mode = "managed", !.desired = version + 1])
     /\ panel' = IF id \in Live THEN [panel EXCEPT ![id].ours = TRUE] ELSE panel
     /\ UNCHANGED again

RotateCredential(u) ==
  /\ row[u].mode = "managed" /\ InSync(u)
  /\ Bump(u, [row[u] EXCEPT !.cred = version + 1, !.desired = version + 1])
  /\ UNCHANGED <<panel, again>>

UnassignUser(u) ==
  /\ row[u].mode # "none"
  /\ Bump(u, NoRow)
  /\ UNCHANGED <<panel, again>>

\* The node is enabled or disabled: every assignment is pending again.
UpdateNode ==
  /\ version < MaxVersion
  /\ version' = version + 1
  /\ enabled' = ~enabled
  /\ row' = [u \in Users |-> IF row[u].mode = "none" THEN row[u]
                           ELSE [row[u] EXCEPT !.desired = version + 1]]
  /\ UNCHANGED <<seen, remote, local, work, edits, faults, raced, again>>

\* A usage cycle reports what it discovers.  A client the agent maps becomes
\* the remote_client_id of the row in the same mode, unless another row has it.
RecordSUIReport ==
  /\ pc = "idle"
  /\ seen' = discover
  /\ row' = [u \in Users |->
       LET m == mapping[u]
       IN IF /\ m.id \in Live /\ row[u].mode = m.mode
             /\ \A v \in Users \ {u} : row[v].remote # m.id
          THEN [row[u] EXCEPT !.remote = m.id] ELSE row[u]]
  /\ UNCHANGED <<version, enabled, remote, local, work, edits, faults, raced, again>>

(***************************************************************************)
(* The panel's operator (external)                                         *)
(***************************************************************************)
PanelEdit ==
  /\ edits < MaxEdits
  /\ edits' = edits + 1
  /\ raced' = (raced \/ pc \in {"create", "created"})
  /\ UNCHANGED <<server, local, work, faults, again>>

ManualCreate(n) ==
  /\ PanelEdit
  /\ nextID <= MaxIDs
  /\ panel' = With(nextID, ManualClient(n))
  /\ nextID' = nextID + 1

\* A client is renamed or gets another password.
ManualChange(id) ==
  /\ PanelEdit
  /\ \/ panel' = With(id, [panel[id] EXCEPT !.name = Other, !.touched = TRUE])
     \/ panel' = With(id, [panel[id] EXCEPT !.cred = 0, !.touched = TRUE])
  /\ panel' # panel
  /\ UNCHANGED nextID

ManualDelete(id) ==
  /\ PanelEdit
  /\ panel' = Without(id)
  /\ UNCHANGED nextID

\* A migration of the panel's database gives a client a new id.
ManualMigrate(id) ==
  /\ PanelEdit
  /\ nextID <= MaxIDs
  /\ panel' = [i \in (Live \ {id}) \cup {nextID} |->
                 IF i = nextID THEN [panel[id] EXCEPT !.touched = TRUE]
                 ELSE panel[i]]
  /\ nextID' = nextID + 1

(***************************************************************************)
(* The agent                                                               *)
(***************************************************************************)
\* The cycle ends: the work is dropped, with or without an acknowledgement.
Leave ==
  /\ pc' = "idle" /\ env' = NoEnv /\ disc' = NoClients
  /\ todo' = {} /\ cur' = Other /\ detail' = NoDetail

\* A rejected step: a failed acknowledgement, and the next poll tries again.
Reject == Leave /\ degraded' = TRUE /\ UNCHANGED <<remote, mapping, applied>>

\* The snapshot is fetched, the panel probed and its clients discovered.
PollDesired ==
  /\ pc = "idle" /\ version > applied
  /\ pc' = "apply"
  /\ env' = [version |-> version, row |-> row]
  /\ disc' = discover
  /\ todo' = {u \in Users : row[u].mode # "none"}
  /\ UNCHANGED <<server, remote, local, cur, detail, edits, faults, raced, again>>

Desired(u) == env.row[u]
Has(u) == mapping[u].id # 0
Taken(u, id) == \E v \in Users \ {u} : mapping[v].id = id

\* remote_client_id is unique in the table: a mapping to a client that another
\* user's mapping still holds is an error.
upsertSUIMapping(u, m) ==
  /\ ~Taken(u, m.id)
  /\ mapping' = [mapping EXCEPT ![u] = m]

\* The read-only client must be among those discovered.
applySUIReadOnlyMapping(u) ==
  LET id == IF Desired(u).remote = 0 THEN mapping[u].id ELSE Desired(u).remote
  IN /\ pc = "apply" /\ u \in todo /\ Desired(u).mode = "read_only"
     /\ \/ /\ id \in DOMAIN disc
           /\ upsertSUIMapping(u, [id |-> id, mode |-> "read_only",
                                   name |-> disc[id], cred |-> 0])
           /\ todo' = todo \ {u}
           /\ UNCHANGED <<remote, acks, pc, env, disc, cur, detail>>
        \/ /\ id \notin DOMAIN disc \/ Taken(u, id)
           /\ Reject
     /\ UNCHANGED <<server, edits, faults, raced, again>>

\* Candidates for a client whose id changed: by the recorded name or the
\* username, as discovered.  One that is gone since is an error.
Candidates(u) == {i \in DOMAIN disc : disc[i] \in {mapping[u].name, u}}

\* A mutant that gives up a client whose id changed.
RecoveredNone(u) == {}

Recovered(u) ==
  IF Candidates(u) \subseteq Live
  THEN {i \in Candidates(u) : panel[i].cred = mapping[u].cred} ELSE {}

\* The material of a credential is given out only for the current snapshot, and
\* only while the node is enabled.
GetCredentialMaterial == enabled /\ env.version = version

WantedID(u) == IF Has(u) THEN mapping[u].id ELSE Desired(u).remote

\* A mutant that takes a client with the right name for the user's own.
FoundByName(u) ==
  IF WantedID(u) \in Live THEN {WantedID(u)}
  ELSE {i \in Live : i \in DOMAIN disc /\ panel[i].name = u}

\* The client by its id, or recovered under another one.
Found(u) ==
  IF WantedID(u) \in Live THEN {WantedID(u)}
  ELSE IF Has(u) /\ mapping[u].mode = "managed" THEN Recovered(u) ELSE {}

\* The client of a managed user is found, is to be created, or neither.
Lookup(u) ==
  LET found == Found(u)
      fresh == /\ WantedID(u) = 0
               /\ \A i \in DOMAIN disc : disc[i] # u
               /\ GetCredentialMaterial
  IN /\ pc = "apply" /\ u \in todo /\ Desired(u).mode = "managed"
     /\ \/ /\ Cardinality(found) = 1
           /\ \E i \in found :
                detail' = [id |-> i, name |-> panel[i].name, cred |-> panel[i].cred]
           /\ pc' = "edit" /\ cur' = u
           /\ UNCHANGED <<remote, local, env, disc, todo>>
        \/ /\ fresh
           /\ pc' = "create" /\ cur' = u
           /\ UNCHANGED <<remote, local, env, disc, todo, detail>>
        \/ /\ Cardinality(found) # 1 /\ ~fresh
           /\ Reject
     /\ UNCHANGED <<server, edits, faults, raced, again>>

Saved(old) == [ name |-> cur, cred |-> Desired(cur).cred, ours |-> old.ours,
                recorded |-> FALSE, touched |-> FALSE ]

CreateClient ==
  /\ pc = "create"
  /\ nextID <= MaxIDs
  /\ panel' = With(nextID, Saved([ours |-> TRUE]))
  /\ nextID' = nextID + 1
  /\ pc' = "created"
  /\ UNCHANGED <<server, local, env, disc, todo, cur, detail, edits, faults, raced, again>>

\* The new client is found again by its name, which must be unique.
RefreshCreated ==
  LET matches == {i \in Live : panel[i].name = cur}
  IN /\ pc = "created"
     /\ \/ /\ Cardinality(matches) = 1
           /\ \E i \in matches : detail' = [NoDetail EXCEPT !.id = i]
           /\ pc' = "refreshed"
           /\ UNCHANGED <<remote, local, env, disc, todo, cur>>
        \/ /\ Cardinality(matches) # 1
           /\ Reject
     /\ UNCHANGED <<server, edits, faults, raced, again>>

\* It is read by the id it was found under.
ReadCreated ==
  LET id == detail.id
  IN /\ pc = "refreshed"
     /\ \/ /\ id \in Live
           /\ detail' = [id |-> id, name |-> panel[id].name, cred |-> panel[id].cred]
           /\ pc' = "edit"
           /\ UNCHANGED <<remote, local, env, disc, todo, cur>>
        \/ /\ id \notin Live
           /\ Reject
     /\ UNCHANGED <<server, edits, faults, raced, again>>

\* The client read before is written back with the desired name and
\* credential when they differ.
EditClient ==
  LET same == detail.name = cur /\ detail.cred = Desired(cur).cred
      may == (detail.cred # Desired(cur).cred => GetCredentialMaterial)
             /\ detail.id \in Live
  IN /\ pc = "edit"
     /\ \/ /\ same
           /\ pc' = "verify"
           /\ UNCHANGED <<remote, local, env, disc, todo, cur, detail>>
        \/ /\ ~same /\ may
           /\ panel' = With(detail.id, Saved(panel[detail.id]))
           /\ pc' = "verify"
           /\ UNCHANGED <<nextID, local, env, disc, todo, cur, detail>>
        \/ /\ ~same /\ ~may
           /\ Reject
     /\ UNCHANGED <<server, edits, faults, raced, again>>

\* The client is read once more, and only then recorded as owned.
VerifyClient ==
  LET id == detail.id
      right == /\ id \in Live
               /\ panel[id].name = cur /\ panel[id].cred = Desired(cur).cred
  IN /\ pc = "verify"
     /\ \/ /\ right
           /\ upsertSUIMapping(cur, [id |-> id, mode |-> "managed", name |-> cur,
                                     cred |-> Desired(cur).cred])
           /\ panel' = [panel EXCEPT ![id].recorded = TRUE, ![id].touched = FALSE]
           /\ todo' = todo \ {cur} /\ pc' = "apply" /\ cur' = Other
           /\ detail' = NoDetail
           /\ UNCHANGED <<nextID, acks, env, disc>>
        \/ /\ ~right \/ Taken(cur, id)
           /\ Reject
     /\ UNCHANGED <<server, edits, faults, raced, again>>

\* After the desired users, the mappings of the others.
\* A mutant that overlooks the managed ones.
LeftoverReadOnly == {u \in Users : mapping[u].mode = "read_only"
                                   /\ Desired(u).mode = "none"}

Leftover == {u \in Users : Has(u) /\ Desired(u).mode = "none"}

deleteSUIMapping(u) == mapping' = [mapping EXCEPT ![u] = NoMapping]

\* A read-only mapping is forgotten, and so is the mapping of a client that is
\* gone.  A client is deleted only if it is as the mapping says.
deleteOwnedSUIClient(u) ==
  LET m == mapping[u]
      missing == m.id \notin Live
      guard == ~missing /\ panel[m.id].name = m.name /\ panel[m.id].cred = m.cred
  IN /\ pc = "apply" /\ todo = {} /\ u \in Leftover
     /\ \/ /\ m.mode = "read_only" \/ missing
           /\ deleteSUIMapping(u)
           /\ UNCHANGED <<remote, acks, work>>
        \/ /\ m.mode = "managed" /\ guard
           /\ pc' = "delete" /\ cur' = u
           /\ UNCHANGED <<remote, local, env, disc, todo, detail>>
        \/ /\ m.mode = "managed" /\ ~missing /\ ~guard
           /\ Reject
     /\ UNCHANGED <<server, edits, faults, raced, again>>

DeleteClient ==
  /\ pc = "delete"
  /\ panel' = Without(mapping[cur].id)
  /\ pc' = "forget"
  /\ UNCHANGED <<server, nextID, local, env, disc, todo, cur, detail, edits, faults, raced, again>>

ForgetClient ==
  /\ pc = "forget"
  /\ deleteSUIMapping(cur)
  /\ pc' = "apply" /\ cur' = Other
  /\ UNCHANGED <<server, remote, acks, env, disc, todo, detail, edits, faults, raced, again>>

Acknowledge ==
  /\ pc = "apply" /\ todo = {} /\ Leftover = {}
  /\ applied' = env.version /\ degraded' = FALSE
  /\ Leave
  /\ UNCHANGED <<server, remote, mapping, edits, faults, raced, again>>

\* The agent stops, or a call or its answer is lost: before or after the call
\* took effect, with or without a failed acknowledgement.
CallFails ==
  /\ pc # "idle"
  /\ faults < MaxFaults
  /\ faults' = faults + 1
  /\ Leave
  /\ degraded' \in {degraded, TRUE}
  /\ UNCHANGED <<server, remote, mapping, applied, edits, raced, again>>

Administrator ==
  \/ UpdateNode
  \/ \E u \in Users :
    \/ AssignUser(u) \/ AdoptSUIClient(u) \/ RotateCredential(u) \/ UnassignUser(u)
    \/ \E id \in IDs : ImportSUIClient(u, id)

PanelOperator ==
  \/ \E n \in Names : ManualCreate(n)
  \/ \E id \in Live : ManualChange(id) \/ ManualDelete(id) \/ ManualMigrate(id)

Agent ==
  \/ PollDesired \/ CreateClient \/ RefreshCreated \/ ReadCreated \/ EditClient
  \/ VerifyClient \/ DeleteClient \/ ForgetClient \/ Acknowledge
  \/ \E u \in Users :
       applySUIReadOnlyMapping(u) \/ Lookup(u) \/ deleteOwnedSUIClient(u)

Next == Administrator \/ PanelOperator \/ Agent \/ RecordSUIReport \/ CallFails

Spec == Init /\ [][Next]_vars

\* The agent polls again and again, and no call hangs.
FairSpec == Spec /\ WF_vars(Agent)

(***************************************************************************)
(* Properties                                                              *)
(***************************************************************************)
\* The state stays well formed, and no client belongs to two users.
TypeOK ==
  /\ version \in Versions /\ applied \in 0 .. version /\ degraded \in BOOLEAN
  /\ row \in [Users -> [mode : Modes, remote : 0 .. MaxIDs, cred : Versions,
                        desired : Versions]]
  /\ \A u, v \in Users : row[u].remote = row[v].remote /\ u # v => row[u].remote = 0
  /\ DOMAIN panel \subseteq IDs /\ nextID \in 2 .. MaxIDs + 1
  /\ \A i \in Live : panel[i] \in Client /\ i < nextID
  /\ mapping \in [Users -> [id : 0 .. MaxIDs, mode : Modes, name : Names,
                            cred : Versions]]
  /\ \A u, v \in Users : mapping[u].id = mapping[v].id /\ u # v => mapping[u].id = 0
  /\ enabled \in BOOLEAN
  /\ pc \in {"idle", "apply", "create", "created", "refreshed", "edit", "verify",
             "delete", "forget"}
  /\ todo \subseteq Users
  /\ pc \notin {"idle", "apply"} <=> cur \in Users
  /\ edits \in 0 .. MaxEdits /\ faults \in 0 .. MaxFaults

\* Steps of the agent leave the clients in S as they are.
Keeps(S) ==
  pc # pc' => \A i \in S : /\ i \in DOMAIN panel'
                           /\ panel'[i].name = panel[i].name
                           /\ panel'[i].cred = panel[i].cred

\* The agent never changes or deletes a client that it did not make and that
\* no administrator adopted, whatever the panel's operator does between its
\* calls.  Two cases are not covered: an operator who puts a client of the same
\* name in the place of the one being created, when a name is all the agent
\* has, and a read-only user assigned anew as managed before the agent let go.
ForeignUntouched ==
  [][~raced => Keeps({i \in Live : ~panel[i].ours
                        /\ \A u \in again : mapping[u].id # i})]_vars

\* "The S-UI adapter must never alter a client it did not create or explicitly
\* adopt", whenever users are assigned anew.
UnmanagedUntouched == [][~raced => Keeps({i \in Live : ~panel[i].ours})]_vars

\* When the last version is acknowledged, each user has the mapping the
\* assignment asks for, and every client the agent recorded as its own serves
\* an assigned user with the current credential: an unassigned user and an
\* old credential are gone.  Not covered: clients the panel's operator changed
\* or moved since, clients saved but never recorded, and those of a user
\* assigned anew before the agent let go.
AppliedIsServed ==
  pc = "idle" /\ applied = version =>
    /\ \A u \in Users :
         /\ mapping[u].mode = row[u].mode
         /\ row[u].mode = "managed" => mapping[u].name = u /\ mapping[u].cred = row[u].cred
    /\ \A i \in Live : panel[i].recorded /\ ~panel[i].touched /\ panel[i].name \notin again =>
         \E u \in Users : /\ row[u].mode = "managed" /\ mapping[u].id = i
                          /\ panel[i].name = u /\ panel[i].cred = row[u].cred

\* The cases in which the agent does not guess: the client of an assignment is
\* missing without a unique successor of its own, the name of a client to be
\* made is taken, a client to be deleted is not as recorded, or a credential is
\* to be set while the node is disabled.
FailsClosed(u) ==
  LET r == row[u]
      m == mapping[u]
      id == IF m.id # 0 THEN m.id ELSE r.remote
      successors == {i \in Live : panel[i].name \in {m.name, u} /\ panel[i].cred = m.cred}
  IN \/ r.mode = "read_only" /\ (IF r.remote = 0 THEN m.id ELSE r.remote) \notin Live
     \/ r.mode = "managed" /\ id # 0 /\ id \notin Live
        /\ \/ m.mode # "managed" \/ Cardinality(successors) # 1
           \/ \E i \in successors : Taken(u, i)
     \/ r.mode = "managed" /\ id = 0 /\ \E i \in Live : panel[i].name = u
     \/ r.mode = "managed" /\ ~enabled
        /\ (IF id \in Live THEN panel[id].cred ELSE m.cred) # r.cred
     \/ r.mode = "none" /\ m.mode = "managed" /\ id \in Live
        /\ (panel[id].name # m.name \/ panel[id].cred # m.cred)

\* The client of an assignment is still mapped to a user who lost it.
HeldByOther(u) ==
  \E v \in Users \ {u} : row[u].remote # 0 /\ mapping[v].id = row[u].remote

\* Once the changes stop, the last version is applied, unless the agent fails
\* closed or the client is still mapped to a user who lost it.
Converges ==
  <>[](applied = version \/ \E u \in Users : FailsClosed(u) \/ HeldByOther(u))
====
