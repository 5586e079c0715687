-------------------------- MODULE EnrollmentProofs --------------------------
(***************************************************************************)
(* CredentialIsLive for any number of tokens, IDs and faults.              *)
(***************************************************************************)
EXTENDS Enrollment, TLAPS

\* Only the newest token is usable, and it is the one that is configured; its
\* consumption makes the current credential.
TokensOK ==
    /\ configured.token = newest
    /\ \A t \in Tokens : token[t].status = "fresh" => t = newest
    /\ token[newest].status = "consumed" => credential = newest

\* Requests are complete and of tokens that were issued.
RequestsOK ==
    /\ \A q \in late : q.token <= newest /\ q.inst # 0 /\ q.req # 0
    /\ pc # "down" => mem.inst # 0
    /\ pc = "send" => mem.req # 0

\* No request under way can consume a token.
Quiet == \A q \in late : token[q.token].status # "fresh"

\* A credential in memory or in the state file is the current one, and no
\* request that is under way or will be sent replaces it.
HoldsCurrent ==
    /\ mem.cred # 0 => mem.cred = credential /\ Quiet
    /\ file.cred # 0 => file.cred = credential /\ Quiet /\ file.inst # 0
    /\ mem.cred # 0 /\ pc # "up" => token[configured.token].status # "fresh"
    /\ pc \in {"enroll", "send"} /\ file.cred # 0 => mem.cred # 0
    /\ pc \in {"save", "up"} => mem.cred # 0
    /\ pc = "down" => mem = Blank

EnrollInv == TypeOK /\ TokensOK /\ RequestsOK /\ HoldsCurrent

Rows == [status : {"absent", "fresh", "expired", "consumed"}, inst : IDs, req : IDs,
         capsule : BOOLEAN]

\* The count of faults keeps to its bound.
LEMMA FaultType ==
    ASSUME TypeOK, NEW k \in Kinds, Fault(k)
    PROVE  faults' \in 0..MaxFaults /\ met' \subseteq Kinds
<1>1. faults \in 0..MaxFaults /\ met \subseteq Kinds
    BY DEF TypeOK
<1>2. faults < MaxFaults /\ faults' = faults + 1 /\ met' = met \cup {k}
    BY DEF Fault
<1>3. faults' \in 0..MaxFaults
    BY <1>1, <1>2, EnrollmentAssumption
<1>4. met' \subseteq Kinds
    BY <1>1, <1>2, Zenon
<1> QED BY <1>3, <1>4

\* A token that was deleted or not issued yet has the blank row.
LEMMA UnissuedType == Unissued \in Rows /\ [Unissued EXCEPT !.status = "fresh"] \in Rows
<1>1. Unissued \in Rows
    BY EnrollmentAssumption DEF Unissued, Rows, IDs
<1>2. \A r \in Rows : [r EXCEPT !.status = "fresh"] \in Rows
    BY DEF Rows
<1> QED BY <1>1, <1>2

\* A new token makes every other one unusable.
LEMMA IssueTokenOK ==
    ASSUME EnrollInv, IssueToken
    PROVE  EnrollInv'
<1> DEFINE n == newest + 1
           fresh == [Unissued EXCEPT !.status = "fresh"]
<1>1. /\ newest < MaxTokens /\ newest' = n /\ pc' = "down" /\ mem' = Blank
      /\ token' = [Invalidated(token) EXCEPT ![n] = fresh]
      /\ configured'.token = n /\ configured'.fits \in BOOLEAN
      /\ configured' = [token |-> n, fits |-> configured'.fits]
      /\ UNCHANGED <<credential, archived, file, late, ids, faults, met>>
    BY DEF IssueToken
<1>2. n \in Tokens /\ newest \in Tokens /\ n > newest
    BY <1>1, EnrollmentAssumption DEF EnrollInv, TypeOK, Tokens
<1>3. \A t \in Tokens : token'[t] = IF t = n THEN fresh
                                   ELSE IF token[t].status = "consumed" THEN token[t] ELSE Unissued
    BY <1>1 DEF Invalidated
<1>4. /\ fresh.status = "fresh" /\ Unissued.status = "absent" /\ fresh \in Rows /\ Unissued \in Rows
    BY UnissuedType DEF Unissued
<1> HIDE DEF fresh
<1>5. TypeOK'
    <2>1. token' \in [Tokens -> Rows]
        BY <1>1, <1>4, Zenon DEF Invalidated, EnrollInv, TypeOK, Rows
    <2>2. \A t \in Tokens : token'[t].status = "consumed" => token'[t].inst # 0 /\ token'[t].req # 0
        BY <1>3, <1>4 DEF EnrollInv, TypeOK
    <2>3. mem' \in State
        BY <1>1, EnrollmentAssumption DEF Blank, State, IDs, Credentials
    <2>4. configured' \in Configuration
        BY <1>1, <1>2, Zenon DEF Configuration
    <2> QED BY <1>1, <1>2, <2>1, <2>2, <2>3, <2>4, Zenon DEF EnrollInv, TypeOK, Rows
<1>6. TokensOK'
    <2>1. \A t \in Tokens : token'[t].status = "fresh" => t = n
        BY <1>3, <1>4 DEF Tokens
    <2> QED BY <1>1, <1>2, <1>3, <1>4, <2>1 DEF TokensOK
<1>7. RequestsOK'
    <2>1. \A q \in late : q.token \in Tokens
        BY DEF EnrollInv, TypeOK, Request
    <2> QED BY <1>1, <1>2, <2>1, EnrollmentAssumption DEF EnrollInv, RequestsOK, Tokens
<1>8. Quiet'
    <2> SUFFICES ASSUME NEW q \in late PROVE token'[q.token].status # "fresh"
        BY <1>1 DEF Quiet, Enrolls
    <2>1. q.token \in Tokens /\ q.token <= newest
        BY DEF EnrollInv, TypeOK, Request, RequestsOK
    <2>2. q.token # n
        BY <1>2, <2>1, EnrollmentAssumption DEF Tokens
    <2> QED BY <1>3, <1>4, <2>1, <2>2
<1>9. HoldsCurrent'
    BY <1>1, <1>8 DEF EnrollInv, HoldsCurrent, Blank
<1> QED BY <1>5, <1>6, <1>7, <1>9 DEF EnrollInv

\* EnrollAgent consumes the newest token or changes nothing; nothing under way
\* can consume a token afterwards.
LEMMA EnrollAgentOK ==
    ASSUME EnrollInv, NEW q \in Request, q.inst # 0, q.req # 0, EnrollAgent(q)
    PROVE  /\ Enrolls(q) => /\ q.token = newest /\ credential' = newest
                            /\ token'[newest].status = "consumed"
                            /\ \A m \in late \cup {q} : token'[m.token].status # "fresh"
           /\ ~Enrolls(q) => UNCHANGED <<token, credential>>
           /\ token' \in [Tokens -> Rows] /\ credential' \in Credentials
           /\ \A t \in Tokens : /\ token'[t].status = "consumed" => token'[t].inst # 0 /\ token'[t].req # 0
                                /\ token'[t].status = "fresh" => t = newest
           /\ token'[newest].status = "consumed" => credential' = newest
           /\ \A t \in Tokens : token'[t].status = "fresh" => token[t].status = "fresh"
<1>1. newest \in Tokens /\ \A m \in late \cup {q} : m.token \in Tokens
    BY DEF EnrollInv, TypeOK, Request
<1>2. token \in [Tokens -> Rows] /\ credential \in Credentials
    BY DEF EnrollInv, TypeOK, Rows
<1>3. CASE ~Enrolls(q)
    <2>1. UNCHANGED <<token, credential>>
        BY <1>3 DEF EnrollAgent
    <2> QED BY <1>2, <1>3, <2>1, Zenon DEF EnrollInv, TypeOK, TokensOK
<1>4. CASE Enrolls(q)
    <2> DEFINE row == [status |-> "consumed", inst |-> q.inst, req |-> q.req, capsule |-> TRUE]
    <2>1. token' = [token EXCEPT ![q.token] = row] /\ credential' = q.token
        BY <1>4 DEF EnrollAgent
    <2>2. q.token = newest
        BY <1>1, <1>4 DEF EnrollInv, TokensOK, Enrolls
    <2>3. row \in Rows /\ row.status = "consumed" /\ row.inst = q.inst /\ row.req = q.req
        BY DEF Rows, Request
    <2> HIDE DEF row
    <2>4. \A t \in Tokens : token'[t] = IF t = newest THEN row ELSE token[t]
        BY <1>1, <1>2, <2>1, <2>2
    <2>5. token' \in [Tokens -> Rows] /\ credential' \in Credentials
        BY <1>1, <1>2, <2>1, <2>2, <2>3 DEF Credentials, Tokens
    <2>6. \A t \in Tokens : token'[t].status # "fresh"
        BY <2>3, <2>4 DEF EnrollInv, TokensOK
    <2>7. \A t \in Tokens : token'[t].status = "consumed" => token'[t].inst # 0 /\ token'[t].req # 0
        BY <2>3, <2>4 DEF EnrollInv, TokensOK, TypeOK
    <2> QED BY <1>1, <1>4, <2>1, <2>2, <2>3, <2>4, <2>5, <2>6, <2>7, Zenon
<1> QED BY <1>3, <1>4, Zenon

\* A request arrives after the agent gave up on it.
LEMMA DeliverLateOK ==
    ASSUME EnrollInv, NEW q \in late, DeliverLate(q)
    PROVE  EnrollInv'
<1>1. EnrollAgent(q) /\ late' = late \ {q} /\ UNCHANGED <<newest, archived, agent, faults, met>>
    BY DEF DeliverLate
<1>2. q \in Request /\ q.inst # 0 /\ q.req # 0 /\ \A m \in late : m.token \in Tokens
    BY DEF EnrollInv, TypeOK, RequestsOK, Request
<1>3. /\ ~Enrolls(q) => UNCHANGED <<token, credential>>
      /\ token' \in [Tokens -> Rows] /\ credential' \in Credentials
      /\ \A t \in Tokens : /\ token'[t].status = "consumed" => token'[t].inst # 0 /\ token'[t].req # 0
                           /\ token'[t].status = "fresh" => t = newest
      /\ token'[newest].status = "consumed" => credential' = newest
      /\ \A t \in Tokens : token'[t].status = "fresh" => token[t].status = "fresh"
    BY <1>1, <1>2, EnrollAgentOK, Zenon
<1>4. TypeOK'
    BY <1>1, <1>3, Zenon DEF EnrollInv, TypeOK, Rows, agent
<1>5. TokensOK'
    BY <1>1, <1>3 DEF EnrollInv, TokensOK, agent
<1>6. RequestsOK'
    BY <1>1 DEF EnrollInv, RequestsOK, agent
<1>7. mem.cred # 0 \/ file.cred # 0 => ~Enrolls(q) /\ Quiet'
    BY <1>1, <1>2, <1>3, Zenon DEF EnrollInv, HoldsCurrent, Quiet, Enrolls
<1>8. HoldsCurrent'
    <2>1. configured.token \in Tokens
        BY DEF EnrollInv, TypeOK, Configuration
    <2> QED BY <1>1, <1>3, <1>7, <2>1, Zenon DEF EnrollInv, HoldsCurrent, agent
<1> QED BY <1>4, <1>5, <1>6, <1>8 DEF EnrollInv

\* Expiry and heartbeats leave fewer tokens and capsules to use.
LEMMA ExpireOK ==
    ASSUME EnrollInv, Heartbeat \/ \E t \in Tokens : Expire(t)
    PROVE  EnrollInv'
<1>1. /\ UNCHANGED <<newest, credential, archived, agent, late>>
      /\ faults' \in 0..MaxFaults /\ met' \subseteq Kinds
    <2>1. "expiry" \in Kinds
        BY DEF Kinds
    <2> QED BY <2>1, FaultType, Zenon DEF Heartbeat, Expire, EnrollInv, TypeOK
<1>2. token \in [Tokens -> Rows]
    BY DEF EnrollInv, TypeOK, Rows
<1> DEFINE Fades(t) ==
        /\ token'[t].inst = token[t].inst /\ token'[t].req = token[t].req
        /\ token'[t].status \in {token[t].status, "expired"}
        /\ token'[t].status = "expired" => token[t].status \in {"fresh", "expired"}
<1>3. token' \in [Tokens -> Rows] /\ \A t \in Tokens : Fades(t)
    <2>1. ASSUME NEW u \in Tokens, token[u].status = "fresh",
                 token' = [token EXCEPT ![u].status = "expired"]
          PROVE  token' \in [Tokens -> Rows] /\ \A t \in Tokens : Fades(t)
        BY <1>2, <2>1 DEF Rows
    <2>2. ASSUME NEW u \in Tokens, token' = [token EXCEPT ![u].capsule = FALSE]
          PROVE  token' \in [Tokens -> Rows] /\ \A t \in Tokens : Fades(t)
        BY <1>2, <2>2, Zenon DEF Rows
    <2>3. ASSUME token' = [t \in Tokens |->
                            [token[t] EXCEPT !.capsule = @ /\ token[t].inst # mem.inst]]
          PROVE  token' \in [Tokens -> Rows] /\ \A t \in Tokens : Fades(t)
        BY <1>2, <2>3, Zenon DEF Rows
    <2> QED BY <2>1, <2>2, <2>3, Zenon DEF Heartbeat, Expire
<1>4. TypeOK'
    BY <1>1, <1>3 DEF EnrollInv, TypeOK, Rows, agent
<1>5. TokensOK'
    <2>1. newest \in Tokens
        BY DEF EnrollInv, TypeOK
    <2> QED BY <1>1, <1>3, <2>1 DEF EnrollInv, TokensOK, agent
<1>6. RequestsOK'
    BY <1>1 DEF EnrollInv, RequestsOK, agent
<1>7. Quiet => Quiet'
    <2>1. \A m \in late : m.token \in Tokens
        BY DEF EnrollInv, TypeOK, Request
    <2> QED BY <1>1, <1>3, <2>1 DEF Quiet, Enrolls
<1>8. HoldsCurrent'
    <2>1. configured.token \in Tokens
        BY DEF EnrollInv, TypeOK, Configuration
    <2> QED BY <1>1, <1>3, <1>7, <2>1 DEF EnrollInv, HoldsCurrent, agent
<1> QED BY <1>4, <1>5, <1>6, <1>8 DEF EnrollInv

\* An archived node keeps its rows.
LEMMA ArchiveOK ==
    ASSUME EnrollInv, ArchiveNode
    PROVE  EnrollInv'
<1>1. /\ archived' = TRUE
      /\ UNCHANGED <<newest, token, credential, mem, file, pc, configured, ids, late, faults, met>>
    BY Zenon DEF ArchiveNode, agent
<1>2. TypeOK'
    BY <1>1, Zenon DEF EnrollInv, TypeOK
<1>3. TokensOK' /\ RequestsOK' /\ HoldsCurrent'
    BY <1>1, Zenon DEF EnrollInv, TokensOK, RequestsOK, HoldsCurrent, Quiet
<1> QED BY <1>2, <1>3 DEF EnrollInv

\* The rows and the requests under way are not affected by the agent alone.
LEMMA AgentStep ==
    ASSUME EnrollInv, UNCHANGED <<server, configured, late>>,
           mem' \in State, file' \in State, ids' \in IDs, faults' \in 0..MaxFaults, met' \subseteq Kinds,
           pc' \in {"down", "enroll", "send", "save", "up"}
    PROVE  TypeOK' /\ TokensOK' /\ (Quiet' <=> Quiet)
<1>1. TypeOK'
    BY DEF EnrollInv, TypeOK, server
<1>2. TokensOK'
    BY DEF EnrollInv, TokensOK, server
<1>3. Quiet' <=> Quiet
    BY DEF Quiet, Enrolls, server
<1> QED BY <1>1, <1>2, <1>3

\* What LoadState finds is taken over, a credential with it.
LEMMA StartOK ==
    ASSUME EnrollInv, Start
    PROVE  EnrollInv'
<1>1. /\ pc = "down" /\ pc' = IF file.cred # 0 THEN "up" ELSE "enroll"
      /\ UNCHANGED <<server, file, configured, late, faults, met>>
    BY DEF Start
<1>2. file \in State /\ faults \in 0..MaxFaults /\ met \subseteq Kinds
    BY DEF EnrollInv, TypeOK
<1>3. CASE file.inst # 0
    <2>1. mem' = file /\ ids' = ids
        BY <1>3 DEF Start
    <2>2. TypeOK' /\ TokensOK' /\ (Quiet' <=> Quiet)
        BY <1>1, <1>2, <2>1, AgentStep, Zenon DEF EnrollInv, TypeOK
    <2>3. RequestsOK'
        BY <1>1, <1>3, <2>1 DEF EnrollInv, RequestsOK, server
    <2>4. HoldsCurrent'
        BY <1>1, <1>3, <2>1, <2>2 DEF EnrollInv, HoldsCurrent, server
    <2> QED BY <2>2, <2>3, <2>4 DEF EnrollInv
<1>4. CASE file.inst = 0
    <2>1. ids < MaxIDs /\ ids' = ids + 1 /\ mem' = [Blank EXCEPT !.inst = ids + 1]
        BY <1>4 DEF Start
    <2>2. ids' \in IDs /\ ids' # 0
        BY <2>1, EnrollmentAssumption DEF EnrollInv, TypeOK, IDs
    <2>3. mem'.inst = ids' /\ mem'.cred = 0 /\ mem' \in State
        <3>1. Blank \in State /\ Blank.cred = 0
            BY EnrollmentAssumption DEF Blank, State, IDs, Credentials
        <3> QED BY <2>1, <2>2, <3>1 DEF State
    <2>4. TypeOK' /\ TokensOK' /\ (Quiet' <=> Quiet)
        BY <1>1, <1>2, <2>2, <2>3, AgentStep
    <2>5. file.cred = 0
        BY <1>4 DEF EnrollInv, HoldsCurrent
    <2>6. RequestsOK'
        BY <1>1, <2>2, <2>3, <2>5 DEF EnrollInv, RequestsOK, server
    <2>7. HoldsCurrent'
        BY <1>1, <2>3, <2>5 DEF HoldsCurrent
    <2> QED BY <2>4, <2>6, <2>7 DEF EnrollInv
<1> QED BY <1>3, <1>4

\* A request ID is chosen; a credential that could not be saved may reach the
\* state file with it.
LEMMA ChooseRequestOK ==
    ASSUME EnrollInv, ChooseRequest \/ ChooseRequestUnsaved
    PROVE  EnrollInv'
<1>1. /\ pc = "enroll" /\ pc' \in {"send", "enroll"} /\ UNCHANGED <<server, configured, late>>
      /\ \/ mem.req # 0 /\ UNCHANGED <<mem, file, ids, faults, met>>
         \/ /\ ids < MaxIDs /\ ids' = ids + 1 /\ mem' = [mem EXCEPT !.req = ids + 1]
            /\ file' \in {file, mem'}
            /\ UNCHANGED <<faults, met>> \/ Fault("save")
    BY DEF ChooseRequest, ChooseRequestUnsaved
<1>2. faults' \in 0..MaxFaults /\ met' \subseteq Kinds
    <2>1. "save" \in Kinds
        BY DEF Kinds
    <2> QED BY <1>1, <2>1, FaultType DEF EnrollInv, TypeOK
<1>3. mem \in State /\ file \in State /\ mem.inst # 0
    BY <1>1 DEF EnrollInv, TypeOK, RequestsOK
<1>4. /\ mem' \in State /\ ids' \in IDs /\ mem'.inst = mem.inst /\ mem'.cred = mem.cred
      /\ mem'.req # 0 /\ file' \in {file, mem'}
    <2>1. CASE mem.req # 0 /\ UNCHANGED <<mem, file, ids, faults, met>>
        BY <2>1 DEF EnrollInv, TypeOK
    <2>2. CASE ids < MaxIDs /\ ids' = ids + 1 /\ mem' = [mem EXCEPT !.req = ids + 1]
               /\ file' \in {file, mem'}
        <3>1. ids' \in IDs /\ ids' # 0
            BY <2>2, EnrollmentAssumption DEF EnrollInv, TypeOK, IDs
        <3> QED BY <1>3, <2>2, <3>1 DEF State
    <2> QED BY <1>1, <2>1, <2>2
<1>5. TypeOK' /\ TokensOK' /\ (Quiet' <=> Quiet)
    BY <1>1, <1>2, <1>3, <1>4, AgentStep
<1>6. RequestsOK'
    BY <1>1, <1>3, <1>4 DEF EnrollInv, RequestsOK, server
<1>7. HoldsCurrent'
    BY <1>1, <1>3, <1>4, <1>5 DEF EnrollInv, HoldsCurrent, server
<1> QED BY <1>5, <1>6, <1>7 DEF EnrollInv

\* The request of the agent is complete.
LEMMA AskedType ==
    ASSUME EnrollInv, pc = "send"
    PROVE  Asked \in Request /\ Asked.token = configured.token /\ Asked.inst # 0 /\ Asked.req # 0
BY DEF EnrollInv, TypeOK, RequestsOK, Asked, Request, State, Configuration

\* The server answers, refuses, or answers in vain.
LEMMA ExchangeOK ==
    ASSUME EnrollInv, Exchange \/ ExchangeUnanswered
    PROVE  EnrollInv'
<1>1. /\ pc = "send" /\ EnrollAgent(Asked)
      /\ UNCHANGED <<newest, archived, file, configured, ids, late>>
      /\ UNCHANGED <<faults, met>> \/ Fault("answer")
      /\ \/ /\ Enrolls(Asked) \/ Replays(Asked)
            /\ mem' = [mem EXCEPT !.cred = configured.token, !.req = 0] /\ pc' = "save"
         \/ pc' = "enroll" /\ mem' = mem
    BY DEF Exchange, ExchangeUnanswered
<1>2. Asked \in Request /\ Asked.token = configured.token /\ Asked.inst # 0 /\ Asked.req # 0
    BY <1>1, AskedType
<1>3. /\ configured.token = newest /\ newest \in Tokens /\ mem \in State /\ mem.inst # 0
      /\ \A m \in late : m.token \in Tokens
    BY <1>1 DEF EnrollInv, TypeOK, TokensOK, RequestsOK, Request
<1>4. /\ Enrolls(Asked) => /\ credential' = newest /\ token'[newest].status = "consumed"
                           /\ \A m \in late : token'[m.token].status # "fresh"
      /\ ~Enrolls(Asked) => UNCHANGED <<token, credential>>
      /\ token' \in [Tokens -> Rows] /\ credential' \in Credentials
      /\ \A t \in Tokens : /\ token'[t].status = "consumed" => token'[t].inst # 0 /\ token'[t].req # 0
                           /\ token'[t].status = "fresh" => t = newest
      /\ token'[newest].status = "consumed" => credential' = newest
      /\ \A t \in Tokens : token'[t].status = "fresh" => token[t].status = "fresh"
    BY <1>1, <1>2, EnrollAgentOK, Zenon
<1>5. faults' \in 0..MaxFaults /\ met' \subseteq Kinds
    <2>1. "answer" \in Kinds
        BY DEF Kinds
    <2> QED BY <1>1, <2>1, FaultType DEF EnrollInv, TypeOK
<1>6. CASE pc' = "enroll" /\ mem' = mem
    <2>1. TypeOK' /\ TokensOK' /\ RequestsOK'
        BY <1>1, <1>3, <1>4, <1>5, <1>6, Zenon DEF EnrollInv, TypeOK, TokensOK, RequestsOK, Rows
    <2>2. mem.cred # 0 \/ file.cred # 0 => ~Enrolls(Asked)
        BY <1>1, <1>2 DEF EnrollInv, HoldsCurrent, Enrolls
    <2>3. Quiet => Quiet'
        BY <1>1, <1>3, <1>4, Zenon DEF Quiet, Enrolls
    <2>4. HoldsCurrent'
        BY <1>1, <1>3, <1>4, <1>6, <2>2, <2>3, Zenon DEF EnrollInv, HoldsCurrent
    <2> QED BY <2>1, <2>4 DEF EnrollInv
<1>7. CASE /\ Enrolls(Asked) \/ Replays(Asked)
           /\ mem' = [mem EXCEPT !.cred = configured.token, !.req = 0] /\ pc' = "save"
    <2>1. mem' \in State /\ mem'.cred = newest /\ mem'.inst = mem.inst /\ newest # 0
        <3>1. newest \in Credentials /\ newest # 0 /\ 0 \in IDs
            BY <1>3, EnrollmentAssumption DEF Credentials, Tokens, IDs
        <3> QED BY <1>3, <1>7, <3>1, Zenon DEF State
    <2>2. token'[newest].status = "consumed" /\ credential' = newest
        BY <1>2, <1>3, <1>4, <1>7, Zenon DEF Replays, EnrollInv, TokensOK
    <2>3. TypeOK' /\ TokensOK' /\ RequestsOK'
        BY <1>1, <1>3, <1>4, <1>5, <1>7, <2>1, Zenon DEF EnrollInv, TypeOK, TokensOK, RequestsOK, Rows
    <2>4. Quiet'
        <3>1. \A t \in Tokens : token'[t].status # "fresh"
            BY <1>4, <2>2
        <3> QED BY <1>1, <1>3, <3>1 DEF Quiet, Enrolls
    <2>5. file.cred # 0 => ~Enrolls(Asked)
        BY <1>1, <1>2 DEF EnrollInv, HoldsCurrent, Enrolls
    <2>6. HoldsCurrent'
        BY <1>1, <1>3, <1>4, <1>7, <2>1, <2>2, <2>4, <2>5, Zenon DEF EnrollInv, HoldsCurrent
    <2> QED BY <2>3, <2>6 DEF EnrollInv
<1> QED BY <1>1, <1>6, <1>7

\* A request outlives its timeout: while the agent holds a credential, the
\* token of the request is consumed.
LEMMA ExchangeDelayedOK ==
    ASSUME EnrollInv, ExchangeDelayed
    PROVE  EnrollInv'
<1>1. /\ pc = "send" /\ Fault("delay") /\ late' = late \cup {Asked} /\ pc' = "enroll"
      /\ UNCHANGED <<server, mem, file, configured, ids>>
    BY DEF ExchangeDelayed
<1>2. Asked \in Request /\ Asked.token = configured.token /\ Asked.inst # 0 /\ Asked.req # 0
    BY <1>1, AskedType
<1>3. configured.token = newest /\ newest \in Nat
    BY EnrollmentAssumption DEF EnrollInv, TypeOK, TokensOK, Tokens
<1>4. faults' \in 0..MaxFaults /\ met' \subseteq Kinds
    <2>1. "delay" \in Kinds
        BY DEF Kinds
    <2> QED BY <1>1, <2>1, FaultType DEF EnrollInv, TypeOK
<1>5. TypeOK'
    BY <1>1, <1>2, <1>4 DEF EnrollInv, TypeOK, server
<1>6. TokensOK'
    BY <1>1 DEF EnrollInv, TokensOK, server
<1>7. RequestsOK'
    BY <1>1, <1>2, <1>3 DEF EnrollInv, RequestsOK, server
<1>8. Quiet /\ token[configured.token].status # "fresh" => Quiet'
    BY <1>1, <1>2 DEF Quiet, Enrolls, server
<1>9. HoldsCurrent'
    BY <1>1, <1>8 DEF EnrollInv, HoldsCurrent, server
<1> QED BY <1>5, <1>6, <1>7, <1>9 DEF EnrollInv

\* The state is saved or not; the agent is killed, its state file deleted.
LEMMA SaveCrashOK ==
    ASSUME EnrollInv, SaveEnrolled \/ SaveEnrolledFails \/ Crash \/ Reinstall
    PROVE  EnrollInv'
<1>1. /\ UNCHANGED <<server, configured, ids, late>>
      /\ UNCHANGED <<faults, met>> \/ \E k \in Kinds : Fault(k)
      /\ \/ pc = "save" /\ file' = mem /\ pc' = "up" /\ mem' = mem
         \/ pc = "save" /\ pc' = "enroll" /\ UNCHANGED <<mem, file>>
         \/ pc' = "down" /\ mem' = Blank /\ UNCHANGED file
         \/ pc = "down" /\ file' = Blank /\ UNCHANGED <<mem, pc>>
    BY DEF SaveEnrolled, SaveEnrolledFails, Crash, Reinstall, Kinds
<1>2. faults' \in 0..MaxFaults /\ met' \subseteq Kinds
    BY <1>1, FaultType DEF EnrollInv, TypeOK
<1>3. Blank \in State /\ Blank.cred = 0 /\ mem \in State /\ file \in State /\ ids \in IDs
    BY EnrollmentAssumption DEF Blank, State, IDs, Credentials, EnrollInv, TypeOK
<1>4. TypeOK' /\ TokensOK' /\ (Quiet' <=> Quiet)
    <2>1. /\ mem' \in State /\ file' \in State /\ ids' \in IDs
          /\ pc' \in {"down", "enroll", "send", "save", "up"}
        BY <1>1, <1>3
    <2> QED BY <1>1, <1>2, <2>1, AgentStep
<1>5. RequestsOK'
    BY <1>1 DEF EnrollInv, RequestsOK, server
<1>6. HoldsCurrent'
    BY <1>1, <1>3, <1>4 DEF EnrollInv, HoldsCurrent, RequestsOK, server
<1> QED BY <1>4, <1>5, <1>6 DEF EnrollInv

\* The first token is issued, the agent has not run.
LEMMA EnrollInit ==
    ASSUME Init
    PROVE  EnrollInv
<1> DEFINE fresh == [Unissued EXCEPT !.status = "fresh"]
<1>1. fresh \in Rows /\ Unissued \in Rows /\ fresh.status = "fresh" /\ Unissued.status = "absent"
    BY UnissuedType DEF Unissued
<1>2. 1 \in Tokens /\ token = [t \in Tokens |-> IF t = 1 THEN fresh ELSE Unissued]
    BY EnrollmentAssumption DEF Init, Tokens
<1> HIDE DEF fresh
<1>3. Blank \in State /\ Blank.cred = 0 /\ 0 \in IDs /\ 0 \in Credentials
    BY EnrollmentAssumption DEF Blank, State, IDs, Credentials
<1>4. token \in [Tokens -> Rows] /\ \A t \in Tokens : token[t].status = "fresh" <=> t = 1
    BY <1>1, <1>2
<1>5. \A t \in Tokens : token[t].status # "consumed"
    BY <1>1, <1>2
<1>6. configured \in Configuration /\ configured.token = 1
    BY <1>2 DEF Init, Configuration
<1>7. /\ newest \in Tokens /\ token \in [Tokens -> Rows] /\ faults \in 0 .. MaxFaults
      /\ credential \in Credentials /\ ids \in IDs
    BY <1>2, <1>3, <1>4, EnrollmentAssumption DEF Init
<1>8. /\ archived \in BOOLEAN /\ mem \in State /\ file \in State /\ pc = "down"
      /\ late \subseteq Request /\ met \subseteq Kinds
    BY <1>3 DEF Init
<1>9. TypeOK
    BY <1>5, <1>6, <1>7, <1>8, Zenon DEF TypeOK, Rows
<1>10. TokensOK /\ RequestsOK /\ HoldsCurrent
    BY <1>2, <1>3, <1>4, <1>5, <1>6, Zenon DEF Init, TokensOK, RequestsOK, HoldsCurrent
<1> QED BY <1>9, <1>10 DEF EnrollInv

\* Every step of server and agent keeps the invariant.
LEMMA EnrollStep ==
    ASSUME EnrollInv, [Next]_vars
    PROVE  EnrollInv'
<1>1. CASE UNCHANGED vars
    <2>1. /\ UNCHANGED <<server, configured, late>> /\ UNCHANGED <<mem, file, pc, ids, faults, met>>
        BY <1>1 DEF vars, agent
    <2>2. TypeOK' /\ TokensOK' /\ (Quiet' <=> Quiet)
        BY <2>1, AgentStep, Zenon DEF EnrollInv, TypeOK
    <2> QED BY <2>1, <2>2 DEF EnrollInv, RequestsOK, HoldsCurrent, server
<1> QED BY <1>1, IssueTokenOK, ArchiveOK, DeliverLateOK, ExpireOK, StartOK, ChooseRequestOK, ExchangeOK,
           ExchangeDelayedOK, SaveCrashOK DEF Next

\* The inductive invariant holds in every reachable state.
THEOREM EnrollmentInvariant == Spec => []EnrollInv
BY EnrollInit, EnrollStep, PTL DEF Spec

\* A running agent holds the node's current credential, for any number of tokens,
\* retries, late requests, crashes, failed writes and reinstallations.
THEOREM EnrolledIsCurrent == Spec => []CredentialIsLive
<1>1. EnrollInv => CredentialIsLive
    BY DEF EnrollInv, HoldsCurrent, CredentialIsLive
<1> QED BY <1>1, EnrollmentInvariant, PTL
=============================================================================
