----------------------------- MODULE Enrollment -----------------------------
(***************************************************************************)
(* Enrolling an agent for a node.                                          *)
(*                                                                         *)
(* The administrator issues a token and installs it on the host.  The      *)
(* agent chooses a request ID, saves it with its installation ID, and asks *)
(* the server for a node credential until it gets one.  The server         *)
(* consumes the token, replaces the node's credential, and keeps the       *)
(* answer for a while in a capsule for the same installation and request.  *)
(* Answers and requests may be lost or late, the state file may fail to be *)
(* written, and the agent may be killed at any step.                       *)
(***************************************************************************)
EXTENDS Naturals

CONSTANTS
    MaxTokens,      \* bound on the tokens issued
    MaxIDs,         \* bound on installation and request IDs chosen
    MaxFaults       \* bound on the number of faults

Kinds == {"answer", "delay", "crash", "save", "expiry", "reinstall"}

ASSUME EnrollmentAssumption ==
    MaxTokens \in Nat \ {0} /\ MaxIDs \in Nat \ {0} /\ MaxFaults \in Nat

VARIABLES
    newest,     \* server: the newest token of the node; tokens are numbered
    token,      \* server: node_enrollment_tokens
    credential, \* server: the node's credential, 0 for none
    archived,   \* server: nodes.archived_at is set
    mem,        \* agent: its state in memory
    file,       \* agent: agent-state.json, inst = 0 when absent
    pc,         \* agent: step of Run and enroll
    configured, \* agent: the token in its configuration, and whether its adapter
                \* and capabilities are those of the node
    late,       \* requests still under way although the agent gave up on them
    ids,        \* IDs chosen so far
    faults,     \* number of faults so far
    met         \* their kinds

server == <<newest, token, credential, archived>>
agent == <<mem, file, pc, configured, ids>>
vars == <<server, agent, late, faults, met>>

Tokens == 1..MaxTokens
IDs == 0..MaxIDs
\* A credential is named after the token that issued it.
Credentials == 0..MaxTokens

State == [inst : IDs, req : IDs, cred : Credentials]
Blank == [inst |-> 0, req |-> 0, cred |-> 0]
Configuration == [token : Tokens, fits : BOOLEAN]
Request == [token : Tokens, fits : BOOLEAN, inst : IDs, req : IDs]
Unissued == [status |-> "absent", inst |-> 0, req |-> 0, capsule |-> FALSE]

\* Every row, file and message has its shape; a consumed token is bound to an
\* installation and a request.
TypeOK ==
    /\ newest \in Tokens
    /\ token \in [Tokens -> [status : {"absent", "fresh", "expired", "consumed"},
                             inst : IDs, req : IDs, capsule : BOOLEAN]]
    /\ \A t \in Tokens : token[t].status = "consumed" => token[t].inst # 0 /\ token[t].req # 0
    /\ credential \in Credentials /\ archived \in BOOLEAN
    /\ mem \in State /\ file \in State
    /\ pc \in {"down", "enroll", "send", "save", "up"}
    /\ configured \in Configuration /\ late \subseteq Request /\ ids \in IDs
    /\ faults \in 0..MaxFaults /\ met \subseteq Kinds

\* The first token is issued and installed.
Init ==
    /\ newest = 1
    /\ token = [t \in Tokens |-> IF t = 1 THEN [Unissued EXCEPT !.status = "fresh"] ELSE Unissued]
    /\ credential = 0 /\ archived = FALSE
    /\ mem = Blank /\ file = Blank /\ pc = "down"
    /\ configured \in {[token |-> 1, fits |-> f] : f \in BOOLEAN}
    /\ late = {} /\ ids = 0 /\ faults = 0 /\ met = {}

Fault(kind) ==
    /\ faults < MaxFaults
    /\ faults' = faults + 1
    /\ met' = met \cup {kind}

----------------------------------------------------------------------------
(* The server *)

\* Mutant of Invalidated: the earlier token stays usable.
InvalidatedNone(tokens) == tokens

\* CreateEnrollmentToken deletes the node's unconsumed tokens.
Invalidated(tokens) ==
    [t \in Tokens |-> IF tokens[t].status = "consumed" THEN tokens[t] ELSE Unissued]

\* The administrator issues a token, installs it and restarts the agent.
IssueToken ==
    /\ ~archived /\ newest < MaxTokens
    /\ newest' = newest + 1
    /\ token' = [Invalidated(token) EXCEPT ![newest + 1] = [Unissued EXCEPT !.status = "fresh"]]
    /\ configured' \in {[token |-> newest + 1, fits |-> f] : f \in BOOLEAN}
    /\ pc' = "down" /\ mem' = Blank
    /\ UNCHANGED <<credential, archived, file, late, ids, faults, met>>

\* Once the assignments of the node allow it
ArchiveNode ==
    /\ ~archived
    /\ archived' = TRUE
    /\ UNCHANGED <<newest, token, credential, agent, late, faults, met>>

\* A consumed token answers its own request from the capsule.
Replays(q) ==
    /\ ~archived
    /\ token[q.token].status = "consumed"
    /\ token[q.token].inst = q.inst /\ token[q.token].req = q.req
    /\ token[q.token].capsule

\* A fresh token serves an agent of the node's adapter with its capabilities.
Enrolls(q) == ~archived /\ token[q.token].status = "fresh" /\ q.fits

\* Mutant of EnrollAgent: the capsule is not kept.
EnrollAgentNoCapsule(q) ==
    IF Enrolls(q)
    THEN /\ token' = [token EXCEPT ![q.token] =
                [status |-> "consumed", inst |-> q.inst, req |-> q.req, capsule |-> FALSE]]
         /\ credential' = q.token
    ELSE UNCHANGED <<token, credential>>

EnrollAgent(q) ==
    IF Enrolls(q)
    THEN /\ token' = [token EXCEPT ![q.token] =
                [status |-> "consumed", inst |-> q.inst, req |-> q.req, capsule |-> TRUE]]
         /\ credential' = q.token
    ELSE UNCHANGED <<token, credential>>

DeliverLate(q) ==
    /\ EnrollAgent(q)
    /\ late' = late \ {q}
    /\ UNCHANGED <<newest, archived, agent, faults, met>>

\* expires_at or response_expires_at passes.
Expire(t) ==
    /\ Fault("expiry")
    /\ \/ token[t].status = "fresh" /\ token' = [token EXCEPT ![t].status = "expired"]
       \/ token[t].capsule /\ token' = [token EXCEPT ![t].capsule = FALSE]
    /\ UNCHANGED <<newest, credential, archived, agent, late>>

----------------------------------------------------------------------------
(* The agent *)

\* LoadState, and the choice in Run
Start ==
    /\ pc = "down"
    /\ IF file.inst # 0 THEN mem' = file /\ ids' = ids
       ELSE ids < MaxIDs /\ ids' = ids + 1 /\ mem' = [Blank EXCEPT !.inst = ids + 1]
    /\ pc' = IF file.cred # 0 THEN "up" ELSE "enroll"
    /\ UNCHANGED <<server, file, configured, late, faults, met>>

\* enroll: a new request ID is saved before it is used; a known one is used.
ChooseRequest ==
    /\ pc = "enroll"
    /\ IF mem.req # 0 THEN UNCHANGED <<mem, file, ids>>
       ELSE /\ ids < MaxIDs /\ ids' = ids + 1
            /\ mem' = [mem EXCEPT !.req = ids + 1]
            /\ file' = mem'
    /\ pc' = "send"
    /\ UNCHANGED <<server, configured, late, faults, met>>

ChooseRequestUnsaved ==
    /\ pc = "enroll" /\ mem.req = 0 /\ ids < MaxIDs
    /\ Fault("save")
    /\ ids' = ids + 1 /\ mem' = [mem EXCEPT !.req = ids + 1]
    /\ UNCHANGED <<server, file, pc, configured, late>>

Asked == [token |-> configured.token, fits |-> configured.fits,
          inst |-> mem.inst, req |-> mem.req]

\* The answer, or a refusal, after which the agent backs off
Exchange ==
    /\ pc = "send"
    /\ EnrollAgent(Asked)
    /\ IF Enrolls(Asked) \/ Replays(Asked)
       THEN mem' = [mem EXCEPT !.cred = configured.token, !.req = 0] /\ pc' = "save"
       ELSE pc' = "enroll" /\ mem' = mem
    /\ UNCHANGED <<newest, archived, file, configured, ids, late, faults, met>>

\* The server's answer is lost.
ExchangeUnanswered ==
    /\ pc = "send" /\ Fault("answer")
    /\ EnrollAgent(Asked)
    /\ pc' = "enroll"
    /\ UNCHANGED <<newest, archived, mem, file, configured, ids, late>>

\* The request times out and may still arrive.
ExchangeDelayed ==
    /\ pc = "send" /\ Fault("delay")
    /\ late' = late \cup {Asked}
    /\ pc' = "enroll"
    /\ UNCHANGED <<server, mem, file, configured, ids>>

SaveEnrolled ==
    /\ pc = "save"
    /\ file' = mem /\ pc' = "up"
    /\ UNCHANGED <<server, mem, configured, ids, late, faults, met>>

\* SaveState fails: enrollWithBackoff calls enroll again.
SaveEnrolledFails ==
    /\ pc = "save" /\ Fault("save")
    /\ pc' = "enroll"
    /\ UNCHANGED <<server, mem, file, configured, ids, late>>

\* RecordHeartbeat erases the installation's capsules.
Heartbeat ==
    /\ pc = "up" /\ ~archived /\ mem.cred = credential
    /\ \E t \in Tokens : token[t].capsule /\ token[t].inst = mem.inst
    /\ token' = [t \in Tokens |-> [token[t] EXCEPT !.capsule = @ /\ token[t].inst # mem.inst]]
    /\ UNCHANGED <<newest, credential, archived, agent, late, faults, met>>

Crash ==
    /\ pc # "down" /\ Fault("crash")
    /\ pc' = "down" /\ mem' = Blank
    /\ UNCHANGED <<server, file, configured, ids, late>>

\* The state file is deleted while the agent is stopped.
Reinstall ==
    /\ pc = "down" /\ file # Blank /\ Fault("reinstall")
    /\ file' = Blank
    /\ UNCHANGED <<server, mem, pc, configured, ids, late>>

Next ==
    \/ IssueToken \/ ArchiveNode
    \/ \E q \in late : DeliverLate(q)
    \/ \E t \in Tokens : Expire(t)
    \/ Start \/ ChooseRequest \/ ChooseRequestUnsaved
    \/ Exchange \/ ExchangeUnanswered \/ ExchangeDelayed
    \/ SaveEnrolled \/ SaveEnrolledFails
    \/ Heartbeat \/ Crash \/ Reinstall

Spec == Init /\ [][Next]_vars

\* systemd restarts the agent, and the backoff of enrollWithBackoff ends.
FairSpec ==
    /\ Spec
    /\ WF_vars(Start) /\ WF_vars(ChooseRequest) /\ WF_vars(Exchange) /\ WF_vars(SaveEnrolled)

----------------------------------------------------------------------------
(* Properties *)

\* A running agent holds the node's current credential: no late request, no
\* replay and no earlier token replaces it behind the agent's back.
CredentialIsLive == pc = "up" => mem.cred = credential /\ credential # 0

\* An agent with a usable token is up in the end, and stays up, whatever
\* answers are lost or late and whenever it is killed.  This takes a node that
\* is not archived, an agent configured for its adapter, a state file that is
\* written and kept, and an answer before the token and the capsule expire.
EnrollmentCompletes ==
    <>[](\/ pc = "up" \/ archived \/ ~configured.fits
         \/ met \cap {"save", "expiry", "reinstall"} # {})
=============================================================================
