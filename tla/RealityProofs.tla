---------------------------- MODULE RealityProofs ----------------------------
(***************************************************************************)
(* What RealityHelper acknowledges and reports, for any settings, versions, *)
(* generations and faults.                                                 *)
(***************************************************************************)
EXTENDS RealityHelper, TLAPS

Identities == [gen : Nat, key : Nat]
Records == [snap : Snapshot, key : Nat]

\* The parts of the state that are compared and counted, their bounds aside
Shape ==
    /\ desired \in Snapshot /\ waiting \in Snapshot \cup {None} /\ requests \subseteq Snapshot
    /\ acked \in Records \cup {None} /\ applied \in Records \cup {None}
    /\ was \in Records \cup {None}
    /\ identity \in Identities \cup {None} /\ prior \in Identities \cup {None}
    /\ keys \in Nat /\ pc \in Steps
    /\ pc # "idle" => req \in Snapshot

\* A record with which the key of the last acknowledgement stays pinned
Pinned(rec) ==
    acked # None => /\ rec # None /\ rec.snap.gen >= acked.snap.gen
                    /\ rec.snap.gen = acked.snap.gen => rec.key = acked.key

\* The applied record, and the one found by the request, pin the key; a request
\* of the same generation goes on with the key of the record.
KeysOK ==
    /\ Pinned(applied)
    /\ pc # "idle" => Pinned(was) /\ (was # None => req.gen >= was.snap.gen)
    /\ pc = "ensure" /\ was # None /\ req.gen = was.snap.gen
            => identity = [gen |-> req.gen, key |-> was.key]
    /\ pc \in {"health", "candidate", "ready", "replaced", "record"}
            => /\ identity # None /\ identity.gen = req.gen
               /\ was # None /\ req.gen = was.snap.gen => identity.key = was.key

\* The agent waits for the newest request there is.
RequestsOK ==
    /\ waiting # None => waiting.version <= desired.version
    /\ \A q \in requests : /\ q.version <= desired.version
                           /\ waiting # None => q.version <= waiting.version
    /\ pc # "idle" => /\ req.version <= desired.version
                      /\ waiting # None => req.version <= waiting.version

\* The configuration of a record
Configured(rec) == [settings |-> rec.snap.settings, key |-> rec.key]

\* The helper at work: until the record, files and core are those of one
\* snapshot, the one found or the one requested.
WorkOK ==
    /\ pc # "idle" => applied = was /\ (was # None => req.version > was.snap.version)
    /\ pc \in {"health", "replaced", "record"} => config = renderRealityConfig
    /\ pc = "restored" => config = backup
    /\ pc \notin {"replaced", "restored"} => core \in {Down, config}
    /\ verdict = "rolledBack" =>
            /\ pc \in {"idle", "unwind", "unrecord"} /\ config = backup
            /\ pc \in {"idle", "unrecord"} => identity = prior
            /\ pc = "idle" => applied = was

\* The file differs from the record only if a newer snapshot has been asked for.
RestOK ==
    pc = "idle" /\ applied # None /\ config # Configured(applied) =>
        /\ desired.version > applied.snap.version
        /\ waiting # None => waiting.version > applied.snap.version

PinInv == Shape /\ KeysOK
RealityInv == PinInv /\ RequestsOK /\ (lapses = {} => WorkOK /\ RestOK)
\* A file that is there is not the absent one.
LEMMA NotNone ==
    /\ \A r \in Records : r # None /\ r.snap \in Snapshot /\ r.key \in Nat
    /\ \A i \in Identities : i # None /\ i.gen \in Nat /\ i.key \in Nat
    /\ \A s \in Snapshot : /\ s # None /\ s.version \in 1..MaxVersion
                         /\ s.gen \in 1..MaxGeneration /\ s.settings \in Settings
<1>1. \A r \in Records : r # None
    BY DEF Records, None
<1>2. \A r \in Identities : r # None
    BY DEF Identities, None
<1>3. \A r \in Snapshot : r # None
    BY DEF Snapshot, None
<1> QED BY <1>1, <1>2, <1>3 DEF Records, Identities, Snapshot

\* A new record, a new identity
LEMMA NewFiles ==
    /\ \A s \in Snapshot, k \in Nat : [snap |-> s, key |-> k] \in Records
    /\ \A g \in Nat, k \in Nat : [gen |-> g, key |-> k] \in Identities
BY DEF Records, Identities

\* The server publishes: only newer snapshots appear.
LEMMA PublishOK ==
    ASSUME RealityInv, lapses' = lapses,
           (\E s \in Settings : Publish(s)) \/ RotateVLESSRealityIdentity
    PROVE  RealityInv'
<1>1. /\ desired' \in Snapshot /\ desired'.version = desired.version + 1
      /\ desired.version \in Nat
    <2>1. desired \in Snapshot BY DEF RealityInv, PinInv, Shape
    <2>2. \A d \in Snapshot, n \in 1..MaxVersion, g \in 1..MaxGeneration :
             /\ [d EXCEPT !.version = n, !.gen = g] \in Snapshot
             /\ [d EXCEPT !.version = n, !.gen = g].version = n
        BY Zenon DEF Snapshot
    <2>3. /\ desired.version \in Nat /\ desired.gen \in Nat
          /\ desired.version < MaxVersion => desired.version + 1 \in 1..MaxVersion
          /\ desired.gen < MaxGeneration => desired.gen + 1 \in 1..MaxGeneration
        BY <2>1, NotNone, RealityAssumption
    <2>4. ASSUME NEW s \in Settings, Publish(s)
          PROVE  /\ desired' \in Snapshot /\ desired'.version = desired.version + 1
                 /\ desired.version \in Nat
        <3>1. /\ desired.version < MaxVersion
              /\ desired' = [desired EXCEPT !.version = @ + 1, !.settings = s]
            BY <2>4, Zenon DEF Publish
        <3>2. desired.version + 1 \in 1..MaxVersion
            BY <2>3, <3>1
        <3> DEFINE n == desired.version + 1
        <3>3. desired' = [desired EXCEPT !.version = n, !.settings = s] /\ n \in 1..MaxVersion
            BY <3>1, <3>2, Zenon
        <3> HIDE DEF n
        <3>4. desired' \in Snapshot /\ desired'.version = n
            BY <2>1, <2>4, <3>3, Zenon DEF Snapshot
        <3> QED BY <2>3, <3>4 DEF n
    <2>5. CASE RotateVLESSRealityIdentity
        <3>1. /\ desired.version < MaxVersion /\ desired.gen < MaxGeneration
              /\ desired' = [desired EXCEPT !.version = @ + 1, !.gen = @ + 1]
            BY <2>5 DEF RotateVLESSRealityIdentity
        <3>2. \A d \in Snapshot, n \in Nat : [d EXCEPT !.version = n].gen = d.gen
            BY DEF Snapshot
        <3>3. desired' = [desired EXCEPT !.version = desired.version + 1, !.gen = desired.gen + 1]
            BY <2>1, <2>3, <3>1, <3>2
        <3>4. desired.version + 1 \in 1..MaxVersion /\ desired.gen + 1 \in 1..MaxGeneration
            BY <2>3, <3>1
        <3> QED BY <2>1, <2>2, <2>3, <3>3, <3>4, Zenon
    <2> QED BY <2>4, <2>5
<1>2. UNCHANGED <<agent, requests, disk, core, keys, helper>>
    BY Zenon DEF Publish, RotateVLESSRealityIdentity
<1>3. Shape' /\ KeysOK'
    BY <1>1, <1>2 DEF RealityInv, PinInv, Shape, KeysOK, Pinned, agent, disk, helper
<1>4. RequestsOK'
    BY <1>1, <1>2, NotNone DEF RealityInv, PinInv, Shape, RequestsOK, agent, disk, helper
<1>5. lapses' = {} => WorkOK' /\ RestOK'
    BY <1>1, <1>2, NotNone DEF RealityInv, PinInv, Shape, WorkOK, RestOK, Configured,
        renderRealityConfig, agent, disk, helper
<1> QED BY <1>3, <1>4, <1>5 DEF RealityInv, PinInv

\* The agent asks for the newest snapshot, or stops waiting.
LEMMA AgentOK ==
    ASSUME RealityInv, lapses' = lapses,
           RequestApply \/ GiveUp \/ \E r \in requests : LockTimeout(r)
    PROVE  RealityInv'
<1>1. /\ UNCHANGED <<desired, acked, disk, core, keys, helper>>
      /\ \/ waiting' = desired /\ requests' = requests \cup {desired}
         \/ waiting' \in {None, waiting} /\ requests' \subseteq requests
    BY DEF RequestApply, GiveUp, LockTimeout
<1>2. Shape' /\ KeysOK'
    BY <1>1 DEF RealityInv, PinInv, Shape, KeysOK, Pinned, disk, helper
<1>3. RequestsOK'
    BY <1>1, NotNone DEF RealityInv, PinInv, Shape, RequestsOK, disk, helper
<1>4. lapses' = {} => WorkOK' /\ RestOK'
    BY <1>1, NotNone DEF RealityInv, PinInv, Shape, WorkOK, RestOK, Configured,
        renderRealityConfig, disk, helper
<1> QED BY <1>2, <1>3, <1>4 DEF RealityInv, PinInv

\* The core stops, or starts with the file on disk.
LEMMA CoreOK ==
    ASSUME RealityInv, lapses' = lapses, CoreFails \/ CoreStarts
    PROVE  RealityInv'
<1>1. /\ UNCHANGED <<desired, agent, requests, disk, keys, helper>>
      /\ core' \in {Down, config}
    BY DEF CoreFails, CoreStarts
<1>2. Shape' /\ KeysOK' /\ RequestsOK'
    BY <1>1 DEF RealityInv, PinInv, Shape, KeysOK, RequestsOK, Pinned, agent, disk, helper
<1>3. lapses' = {} => WorkOK' /\ RestOK'
    BY <1>1 DEF RealityInv, WorkOK, RestOK, Configured, renderRealityConfig, agent, disk, helper
<1> QED BY <1>2, <1>3 DEF RealityInv, PinInv

\* A helper at work that stops between two steps leaves a file that differs
\* from the record only for a newer request.
LEMMA WorkIsNewer ==
    ASSUME PinInv, RequestsOK, WorkOK, pc # "idle", applied # None
    PROVE  /\ desired.version > applied.snap.version
           /\ waiting # None => waiting.version > applied.snap.version
BY NotNone, RealityAssumption DEF PinInv, Shape, RequestsOK, WorkOK

\* The helper dies.
LEMMA KillOK ==
    ASSUME RealityInv, lapses' = lapses, Kill \/ Reboot
    PROVE  RealityInv'
<1>1. /\ UNCHANGED <<desired, acked, disk, keys, req, prior, was, backup, saveFailed>>
      /\ pc' = "idle" /\ verdict' = "none" /\ waiting' \in {None, waiting}
      /\ requests' \subseteq requests
      /\ \/ core' = core /\ pc # "idle" /\ (core \notin {Down, config} => lapses # {})
         \/ core' = Down
    BY DEF Kill, Reboot, Settled, InWindow
<1>2. Shape' /\ KeysOK'
    BY <1>1 DEF RealityInv, PinInv, Shape, KeysOK, Pinned, disk, Steps
<1>3. RequestsOK'
    BY <1>1, NotNone DEF RealityInv, PinInv, Shape, RequestsOK, disk
<1>4. ASSUME lapses = {} PROVE WorkOK' /\ RestOK'
    <2>1. WorkOK'
        BY <1>1, <1>4 DEF RealityInv, WorkOK, disk
    <2>2. RestOK'
        BY <1>1, <1>4, WorkIsNewer DEF RealityInv, RestOK, Configured, disk
    <2> QED BY <2>1, <2>2
<1> QED BY <1>1, <1>2, <1>3, <1>4 DEF RealityInv, PinInv

\* What a request that passes the checks has to do with the record on disk
LEMMA Checked ==
    ASSUME PinInv, NEW r \in Snapshot,
           ~Conflict(r), ~StaleGeneration(r), ~IdentityMismatch(r), applied # None
    PROVE  /\ applied \in Records
           /\ r.version >= applied.snap.version /\ r.gen >= applied.snap.gen
           /\ r.version = applied.snap.version => r = applied.snap
           /\ r.gen = applied.snap.gen =>
                    identity = [gen |-> applied.snap.gen, key |-> applied.key]
BY NotNone, RealityAssumption
    DEF PinInv, Shape, Conflict, StaleGeneration, IdentityMismatch

\* A request that is refused changes nothing on disk.
LEMMA RefuseOK ==
    ASSUME RealityInv, lapses' = lapses, NEW r \in requests, Refuse(r)
    PROVE  RealityInv'
<1>1. /\ UNCHANGED <<desired, disk, core, keys, acked>>
      /\ pc = "idle" /\ pc' = "idle" /\ verdict' = "failed" /\ waiting' \in {None, waiting}
      /\ requests' \subseteq requests
      /\ prior' = identity /\ was' = applied
    BY DEF Refuse, Accepted, Fail
<1>2. Shape' /\ KeysOK'
    BY <1>1 DEF RealityInv, PinInv, Shape, KeysOK, Pinned, disk
<1>3. RequestsOK'
    BY <1>1, NotNone DEF RealityInv, PinInv, Shape, RequestsOK, disk
<1>4. lapses' = {} => WorkOK' /\ RestOK'
    BY <1>1 DEF RealityInv, WorkOK, RestOK, Configured, disk
<1> QED BY <1>2, <1>3, <1>4 DEF RealityInv, PinInv

\* The recorded snapshot again: it is acknowledged with the recorded key.
LEMMA AcceptSameOK ==
    ASSUME RealityInv, lapses' = lapses, NEW r \in requests, AcceptSame(r)
    PROVE  RealityInv'
<1>1. /\ UNCHANGED <<desired, disk, core, keys>>
      /\ pc = "idle" /\ pc' = "idle" /\ verdict' = "succeeded"
      /\ waiting' \in {None, waiting}
      /\ requests' \subseteq requests
      /\ prior' = identity /\ was' = applied
      /\ acked' \in {acked, [snap |-> r, key |-> applied.key]}
    BY DEF AcceptSame, Accepted, Succeed
<1>2. r \in Snapshot /\ applied # None /\ r.gen = applied.snap.gen /\ applied \in Records
    BY Checked DEF AcceptSame, Same, RealityInv, PinInv, Shape
<1>3. /\ [snap |-> r, key |-> applied.key] \in Records
      /\ [snap |-> r, key |-> applied.key].snap = r
      /\ [snap |-> r, key |-> applied.key].key = applied.key
    BY <1>2, NotNone, NewFiles
<1>4. Shape'
    BY <1>1, <1>2, <1>3 DEF RealityInv, PinInv, Shape, disk
<1>5. KeysOK'
    BY <1>1, <1>2, <1>3, NotNone DEF RealityInv, PinInv, KeysOK, Pinned, disk
<1>6. RequestsOK'
    BY <1>1, NotNone DEF RealityInv, PinInv, Shape, RequestsOK, disk
<1>7. lapses' = {} => WorkOK' /\ RestOK'
    BY <1>1 DEF RealityInv, WorkOK, RestOK, Configured, disk
<1> QED BY <1>4, <1>5, <1>6, <1>7 DEF RealityInv, PinInv

\* A new snapshot is newer than the record; of the same generation, it finds
\* the recorded key.
LEMMA AcceptNewOK ==
    ASSUME RealityInv, lapses' = lapses, NEW r \in requests, AcceptNew(r)
    PROVE  RealityInv'
<1>1. /\ UNCHANGED <<desired, disk, core, keys, agent>>
      /\ pc = "idle" /\ pc' = "ensure" /\ verdict' = "none"
      /\ requests' \subseteq requests /\ req' = r
      /\ prior' = identity /\ was' = applied
    BY DEF AcceptNew, Accepted
<1>2. r \in Snapshot
    BY DEF RealityInv, PinInv, Shape
<1>3. applied # None =>
        /\ applied \in Records /\ r.version > applied.snap.version /\ r.gen >= applied.snap.gen
        /\ r.gen = applied.snap.gen => identity = [gen |-> r.gen, key |-> applied.key]
    <2> SUFFICES ASSUME applied # None
                 PROVE  /\ applied \in Records /\ r.version > applied.snap.version
                        /\ r.gen >= applied.snap.gen
                        /\ r.gen = applied.snap.gen =>
                                identity = [gen |-> r.gen, key |-> applied.key]
        OBVIOUS
    <2>1. /\ applied \in Records
          /\ r.version >= applied.snap.version /\ r.gen >= applied.snap.gen
          /\ r.version = applied.snap.version => r = applied.snap
          /\ r.gen = applied.snap.gen =>
                    identity = [gen |-> applied.snap.gen, key |-> applied.key]
        BY <1>2, Checked DEF AcceptNew, RealityInv
    <2>2. r.version # applied.snap.version
        BY <2>1 DEF AcceptNew, Same
    <2> QED BY <1>2, <2>1, <2>2, NotNone
<1>4. Shape' /\ KeysOK'
    BY <1>1, <1>2, <1>3 DEF RealityInv, PinInv, Shape, KeysOK, Pinned, disk, agent, Steps
<1>5. RequestsOK'
    BY <1>1, NotNone DEF RealityInv, PinInv, Shape, RequestsOK, disk, agent
<1>6. lapses' = {} => WorkOK' /\ RestOK'
    BY <1>1, <1>3 DEF RealityInv, WorkOK, RestOK, disk
<1> QED BY <1>4, <1>5, <1>6 DEF RealityInv, PinInv

\* The identity of the request's generation, the one on disk if there is one
LEMMA EnsuredOK ==
    ASSUME PinInv, pc = "ensure"
    PROVE  /\ req \in Snapshot /\ Ensured \in Identities /\ Ensured.gen = req.gen
           /\ was # None /\ req.gen = was.snap.gen => Ensured.key = was.key
<1>1. req \in Snapshot /\ keys + 1 \in Nat /\ req.gen \in Nat
    BY NotNone, RealityAssumption DEF PinInv, Shape
<1>2. CASE identity # None /\ identity.gen = req.gen
    <2>1. Ensured = identity /\ identity \in Identities
        BY <1>2 DEF Ensured, PinInv, Shape
    <2> QED BY <1>1, <1>2, <2>1 DEF PinInv, KeysOK
<1>3. CASE ~(identity # None /\ identity.gen = req.gen)
    <2>1. Ensured = [gen |-> req.gen, key |-> keys + 1]
        BY <1>3 DEF Ensured
    <2>2. Ensured \in Identities /\ Ensured.gen = req.gen
        BY <1>1, <2>1, NewFiles
    <2>3. ~(was # None /\ req.gen = was.snap.gen)
        <3> SUFFICES ASSUME was # None, req.gen = was.snap.gen PROVE FALSE
            OBVIOUS
        <3>1. identity = [gen |-> req.gen, key |-> was.key] /\ was.key \in Nat
            BY NotNone DEF PinInv, KeysOK, Shape
        <3> QED BY <1>1, <1>3, <3>1, NotNone, NewFiles
    <2> QED BY <1>1, <2>2, <2>3
<1> QED BY <1>2, <1>3

\* The identity is ensured before the configuration is touched.
LEMMA EnsureIdentityOK ==
    ASSUME RealityInv, lapses' = lapses, EnsureIdentity
    PROVE  RealityInv'
<1>1. /\ UNCHANGED <<desired, requests, req, prior, was, acked, waiting, config, applied, core,
                      backup, verdict>>
      /\ pc = "ensure" /\ identity' = Ensured /\ keys' \in {keys, keys + 1}
      /\ \/ pc' = "health" /\ config = [settings |-> req.settings, key |-> Ensured.key]
         \/ pc' = "candidate"
    BY DEF EnsureIdentity, Settled, agent, Unchanged
<1>2. /\ req \in Snapshot /\ Ensured \in Identities /\ Ensured.gen = req.gen
      /\ was # None /\ req.gen = was.snap.gen => Ensured.key = was.key
    BY <1>1, EnsuredOK DEF RealityInv
<1> HIDE DEF Ensured
<1>3. Shape'
    BY <1>1, <1>2 DEF RealityInv, PinInv, Shape, Steps
<1>4. KeysOK'
    BY <1>1, <1>2, NotNone DEF RealityInv, PinInv, KeysOK, Pinned
<1>5. RequestsOK'
    BY <1>1 DEF RealityInv, RequestsOK
<1>6. lapses' = {} => WorkOK' /\ RestOK'
    BY <1>1 DEF RealityInv, WorkOK, RestOK, renderRealityConfig
<1> QED BY <1>3, <1>4, <1>5, <1>6 DEF RealityInv, PinInv

\* The identity is refused, or not written: the files are as found.
LEMMA EnsureIdentityFailsOK ==
    ASSUME RealityInv, lapses' = lapses, EnsureIdentityFails
    PROVE  RealityInv'
<1>1. /\ UNCHANGED <<desired, requests, req, prior, was, acked, config, applied, core, backup>>
      /\ pc = "ensure" /\ identity' \in {identity, Ensured} /\ keys' \in {keys, keys + 1}
      /\ pc' = "idle" /\ verdict' = "failed" /\ waiting' \in {None, waiting}
    BY DEF EnsureIdentityFails, Settled, Fail
<1>2. Ensured \in Identities
    BY <1>1, EnsuredOK DEF RealityInv
<1> HIDE DEF Ensured
<1>3. Shape'
    BY <1>1, <1>2 DEF RealityInv, PinInv, Shape, Steps
<1>4. KeysOK' /\ RequestsOK'
    BY <1>1 DEF RealityInv, PinInv, KeysOK, Pinned, RequestsOK
<1>5. lapses' = {} => WorkOK' /\ RestOK'
    BY <1>1, WorkIsNewer DEF RealityInv, WorkOK, RestOK, Configured
<1> QED BY <1>3, <1>4, <1>5 DEF RealityInv, PinInv

\* Nothing is replaced yet.
LEMMA PrepareOK ==
    ASSUME RealityInv, lapses' = lapses, CheckHealth \/ PrepareCandidate
    PROVE  RealityInv'
<1>1. /\ UNCHANGED <<desired, requests, req, prior, was, acked, waiting, config, identity, applied,
                      core, keys, verdict>>
      /\ \/ pc = "health" /\ pc' \in {"record", "unwind"}
         \/ pc = "candidate" /\ pc' \in {"ready", "unwind"}
    BY DEF CheckHealth, PrepareCandidate, Settled, agent, disk
<1>2. Shape' /\ KeysOK' /\ RequestsOK'
    BY <1>1 DEF RealityInv, PinInv, Shape, KeysOK, Pinned, RequestsOK, Steps
<1>3. lapses' = {} => WorkOK' /\ RestOK'
    BY <1>1 DEF RealityInv, WorkOK, RestOK, renderRealityConfig
<1> QED BY <1>2, <1>3 DEF RealityInv, PinInv

\* The new file, and the restart with it
LEMMA PublicationOK ==
    ASSUME RealityInv, lapses' = lapses, ReplaceConfig \/ RestartCore
    PROVE  RealityInv'
<1>1. /\ UNCHANGED <<desired, requests, req, prior, was, acked, waiting, identity, applied,
                      keys, verdict, backup>>
      /\ \/ pc = "ready" /\ pc' = "replaced" /\ config' = renderRealityConfig /\ core' = core
         \/ pc = "ready" /\ pc' = "unwind" /\ config' = config /\ core' = core
         \/ pc = "ready" /\ pc' = "rollback" /\ lapses # {}
         \/ pc = "replaced" /\ pc' = "record" /\ config' = config /\ core' = config
         \/ pc = "replaced" /\ pc' = "rollback" /\ config' = config
            /\ (lapses = {} => core' \in {Down, config})
    BY DEF ReplaceConfig, RestartCore, Settled, agent, disk
<1>2. Shape' /\ KeysOK' /\ RequestsOK'
    BY <1>1 DEF RealityInv, PinInv, Shape, KeysOK, Pinned, RequestsOK, Steps
<1>3. lapses' = {} => WorkOK' /\ RestOK'
    BY <1>1 DEF RealityInv, WorkOK, RestOK, renderRealityConfig
<1> QED BY <1>2, <1>3 DEF RealityInv, PinInv

\* A record made from the identity in use pins the key that is acknowledged.
LEMMA NewRecord ==
    ASSUME PinInv, pc = "record", NEW rec, rec = [snap |-> req, key |-> identity.key]
    PROVE  /\ rec \in Records /\ rec # None /\ Pinned(rec)
           /\ rec.snap = req /\ rec.key = identity.key
<1>1. req \in Snapshot /\ identity \in Identities /\ identity.gen = req.gen
    BY DEF PinInv, Shape, KeysOK
<1>2. rec \in Records /\ rec # None /\ rec.snap = req /\ rec.key = identity.key
    BY <1>1, NotNone, NewFiles
<1>3. Pinned(rec)
    <2> SUFFICES ASSUME acked # None
                 PROVE  /\ req.gen >= acked.snap.gen
                        /\ req.gen = acked.snap.gen => identity.key = acked.key
        BY <1>2 DEF Pinned
    <2>1. /\ was # None /\ req.gen >= was.snap.gen /\ was.snap.gen >= acked.snap.gen
          /\ was.snap.gen = acked.snap.gen => was.key = acked.key
          /\ req.gen = was.snap.gen => identity.key = was.key
        BY DEF PinInv, KeysOK, Pinned
    <2>2. req.gen \in Nat /\ was.snap.gen \in Nat /\ acked.snap.gen \in Nat
        BY <1>1, <2>1, NotNone, RealityAssumption DEF PinInv, Shape
    <2> QED BY <2>1, <2>2
<1> QED BY <1>2, <1>3

\* The snapshot is recorded and acknowledged with the key in the file.
LEMMA RecordAppliedOK ==
    ASSUME RealityInv, lapses' = lapses, RecordApplied
    PROVE  RealityInv'
<1> DEFINE rec == [snap |-> req, key |-> identity.key]
<1>1. /\ UNCHANGED <<desired, requests, req, prior, was, config, identity, core, keys, backup>>
      /\ pc = "record" /\ pc' = "idle" /\ verdict' = "succeeded" /\ applied' = rec
      /\ waiting' \in {None, waiting} /\ acked' \in {acked, rec}
    BY DEF RecordApplied, Settled, Succeed
<1>2. rec \in Records /\ rec # None /\ Pinned(rec) /\ rec.snap = req /\ rec.key = identity.key
    BY <1>1, NewRecord DEF RealityInv
<1> HIDE DEF rec
<1>3. Shape'
    BY <1>1, <1>2 DEF RealityInv, PinInv, Shape, Steps
<1>4. KeysOK'
    BY <1>1, <1>2, NotNone, RealityAssumption DEF RealityInv, PinInv, KeysOK, Pinned
<1>5. RequestsOK'
    BY <1>1 DEF RealityInv, RequestsOK
<1>6. lapses' = {} => WorkOK' /\ RestOK'
    BY <1>1, <1>2 DEF RealityInv, WorkOK, RestOK, renderRealityConfig, Configured
<1> QED BY <1>3, <1>4, <1>5, <1>6 DEF RealityInv, PinInv

\* The record is not written, or written and not known to be.
LEMMA RecordFailsOK ==
    ASSUME RealityInv, lapses' = lapses, RecordFails
    PROVE  RealityInv'
<1> DEFINE rec == [snap |-> req, key |-> identity.key]
<1>1. /\ UNCHANGED <<desired, acked, waiting, requests, req, prior, was, config, identity, core,
                      keys, backup, verdict>>
      /\ pc = "record" /\ pc' = "rollback"
      /\ applied' = applied \/ (lapses # {} /\ applied' = rec)
    BY DEF RecordFails, agent
<1>2. rec \in Records /\ Pinned(rec)
    BY <1>1, NewRecord DEF RealityInv
<1> HIDE DEF rec
<1>3. Shape'
    BY <1>1, <1>2 DEF RealityInv, PinInv, Shape, Steps
<1>4. KeysOK' /\ RequestsOK'
    BY <1>1, <1>2 DEF RealityInv, PinInv, KeysOK, Pinned, RequestsOK
<1>5. lapses' = {} => WorkOK' /\ RestOK'
    BY <1>1 DEF RealityInv, WorkOK, RestOK
<1> QED BY <1>3, <1>4, <1>5 DEF RealityInv, PinInv

\* The file that was replaced comes back, or does not.
LEMMA RollbackOK ==
    ASSUME RealityInv, lapses' = lapses, RollbackConfig \/ RollbackConfigFails
    PROVE  RealityInv'
<1>1. /\ UNCHANGED <<desired, requests, req, prior, was, acked, waiting, identity, applied,
                      keys, backup>>
      /\ pc = "rollback"
      /\ \/ pc' = "unwind" /\ UNCHANGED <<config, core, verdict>>
         \/ pc' = "unwind" /\ core' = Down /\ config' = backup
         \/ pc' = "restored" /\ config' = backup /\ verdict' = verdict
         \/ pc' = "unwind" /\ core' = Down /\ config' = config /\ verdict' = verdict
         \/ pc' = "unwind" /\ lapses # {}
    BY DEF RollbackConfig, RollbackConfigFails, Settled, agent
<1>2. Shape' /\ KeysOK' /\ RequestsOK'
    BY <1>1 DEF RealityInv, PinInv, Shape, KeysOK, Pinned, RequestsOK, Steps
<1>3. lapses' = {} => WorkOK' /\ RestOK'
    BY <1>1 DEF RealityInv, WorkOK, RestOK
<1> QED BY <1>2, <1>3 DEF RealityInv, PinInv

\* The core restarts with the file that came back.
LEMMA RestartPreviousOK ==
    ASSUME RealityInv, lapses' = lapses, RestartPrevious
    PROVE  RealityInv'
<1>1. /\ UNCHANGED <<desired, requests, req, prior, was, acked, waiting, config, identity, applied,
                      keys, backup>>
      /\ pc = "restored" /\ pc' = "unwind"
      /\ core' \in {Down, config} \/ lapses # {}
    BY DEF RestartPrevious, Settled, agent, disk
<1>2. Shape' /\ KeysOK' /\ RequestsOK'
    BY <1>1 DEF RealityInv, PinInv, Shape, KeysOK, Pinned, RequestsOK, Steps
<1>3. lapses' = {} => WorkOK' /\ RestOK'
    BY <1>1 DEF RealityInv, WorkOK, RestOK
<1> QED BY <1>2, <1>3 DEF RealityInv, PinInv

\* The identity comes back, or does not; a rollback is reported only if it did.
LEMMA UnwindOK ==
    ASSUME RealityInv, lapses' = lapses, Unwind
    PROVE  RealityInv'
<1>1. /\ UNCHANGED <<desired, requests, req, prior, was, acked, config, applied, core, keys, backup>>
      /\ pc = "unwind" /\ pc' \in {"idle", "unrecord"} /\ waiting' \in {None, waiting}
      /\ identity' \in {prior, identity}
      /\ verdict' = "rolledBack" => verdict = "rolledBack" /\ identity' = prior
    BY DEF Unwind, RestoreIdentity, Settled, Fail, RolledBack, agent
<1>2. Shape' /\ KeysOK' /\ RequestsOK'
    BY <1>1 DEF RealityInv, PinInv, Shape, KeysOK, Pinned, RequestsOK, Steps
<1>3. lapses' = {} => WorkOK' /\ RestOK'
    BY <1>1, WorkIsNewer DEF RealityInv, WorkOK, RestOK
<1> QED BY <1>2, <1>3 DEF RealityInv, PinInv

\* So does the record.
LEMMA UnrecordOK ==
    ASSUME RealityInv, lapses' = lapses, Unrecord
    PROVE  RealityInv'
<1>1. /\ UNCHANGED <<desired, requests, req, prior, was, acked, config, identity, core, keys, backup>>
      /\ pc = "unrecord" /\ pc' = "idle" /\ waiting' \in {None, waiting}
      /\ applied' \in {was, applied}
      /\ verdict' = "rolledBack" => verdict = "rolledBack" /\ applied' = was
    BY DEF Unrecord, RestoreApplied, Settled, Fail, RolledBack
<1>2. Shape' /\ KeysOK' /\ RequestsOK'
    BY <1>1 DEF RealityInv, PinInv, Shape, KeysOK, Pinned, RequestsOK, Steps
<1>3. lapses' = {} => WorkOK' /\ RestOK'
    BY <1>1, WorkIsNewer DEF RealityInv, WorkOK, RestOK
<1> QED BY <1>2, <1>3 DEF RealityInv, PinInv

\* A new node satisfies the invariant.
LEMMA RealityInit == Init => RealityInv
<1> SUFFICES ASSUME Init PROVE RealityInv
    OBVIOUS
<1>1. Shape
    BY RealityAssumption DEF Init, Shape, Steps
<1>2. KeysOK /\ RequestsOK /\ WorkOK /\ RestOK
    BY DEF Init, KeysOK, Pinned, RequestsOK, WorkOK, RestOK
<1> QED BY <1>1, <1>2 DEF RealityInv, PinInv

\* Every step preserves the invariant.
LEMMA RealityStep == RealityInv /\ [Next]_vars => RealityInv'
<1> SUFFICES ASSUME RealityInv, [Next]_vars PROVE RealityInv'
    OBVIOUS
<1>1. CASE AgentStep
    BY <1>1, AgentOK DEF AgentStep
<1>2. CASE SystemdStep
    BY <1>2, CoreOK DEF SystemdStep
<1>3. CASE EnvironmentStep
    BY <1>3, PublishOK, AgentOK, KillOK, CoreOK DEF EnvironmentStep
<1>4. CASE HelperStep
    <2>1. CASE \E r \in requests : Refuse(r) \/ AcceptSame(r) \/ AcceptNew(r)
        BY <1>4, <2>1, RefuseOK, AcceptSameOK, AcceptNewOK DEF HelperStep
    <2>2. CASE EnsureIdentity \/ EnsureIdentityFails \/ CheckHealth \/ PrepareCandidate
        BY <1>4, <2>2, EnsureIdentityOK, EnsureIdentityFailsOK, PrepareOK DEF HelperStep
    <2>3. CASE ReplaceConfig \/ RestartCore \/ RecordApplied \/ RecordFails
        BY <1>4, <2>3, PublicationOK, RecordAppliedOK, RecordFailsOK DEF HelperStep
    <2>4. CASE RollbackConfig \/ RollbackConfigFails \/ RestartPrevious \/ Unwind \/ Unrecord
        BY <1>4, <2>4, RollbackOK, RestartPreviousOK, UnwindOK, UnrecordOK DEF HelperStep
    <2> QED BY <1>4, <2>1, <2>2, <2>3, <2>4 DEF HelperStep
<1>5. CASE UNCHANGED vars
    BY <1>5 DEF RealityInv, PinInv, Shape, KeysOK, Pinned, RequestsOK, WorkOK, RestOK, Configured,
        renderRealityConfig, vars, agent, disk, helper
<1> QED BY <1>1, <1>2, <1>3, <1>4, <1>5 DEF Next

\* The helper, its files and the agent's requests agree at every step
\* (applyReality and the agent's wait for its reply).
THEOREM RealityInvariant == Spec => []RealityInv
BY RealityInit, RealityStep, PTL DEF Spec

\* A helper that replies rolled_back=true has restored configuration, identity
\* and applied record, and the core runs that configuration unless it is down
\* (rollbackRealityApply and the restores after it), on a host without lapses.
THEOREM RollbackIsReal == Spec => []RolledBackIsPrevious
<1>1. RealityInv => RolledBackIsPrevious
    BY DEF RealityInv, WorkOK, RolledBackIsPrevious, RolledBack
<1> QED BY <1>1, RealityInvariant, PTL

\* Only two steps acknowledge a snapshot: the record of a new one, and the
\* request for the one that is recorded.
LEMMA Acknowledges ==
    ASSUME RealityInv, [Next]_vars, acked' # acked
    PROVE  \/ RecordApplied /\ acked' = [snap |-> req, key |-> identity.key]
           \/ \E r \in requests : /\ AcceptSame(r) /\ waiting = r
                                 /\ acked' = [snap |-> r, key |-> applied.key]
<1>1. HelperStep
    BY Zenon DEF Next, AgentStep, RequestApply, SystemdStep, CoreStarts, EnvironmentStep, Publish,
        RotateVLESSRealityIdentity, GiveUp, LockTimeout, Kill, Reboot, CoreFails, agent, vars
<1>2. RecordApplied \/ \E r \in requests : AcceptSame(r)
    BY <1>1 DEF HelperStep, Refuse, AcceptNew, EnsureIdentity, EnsureIdentityFails, CheckHealth,
        PrepareCandidate, ReplaceConfig, RestartCore, RecordFails, RollbackConfig,
        RollbackConfigFails, RestartPrevious, Unwind, RestoreIdentity, Unrecord, RestoreApplied,
        Fail, agent
<1> QED BY <1>2 DEF RecordApplied, AcceptSame, Succeed

\* A snapshot is acknowledged only while the core runs it or is down, on a host
\* without lapses (applyReality reports "succeeded" only after the activation).
THEOREM AcknowledgedIsServed == Spec => AckedIsServed
<1>1. ASSUME RealityInv, [Next]_vars, lapses = {}, acked' # acked PROVE Served
    <2>1. CASE RecordApplied /\ acked' = [snap |-> req, key |-> identity.key]
        BY <1>1, <2>1, Zenon DEF RecordApplied, RealityInv, WorkOK, renderRealityConfig, Served
    <2>2. ASSUME NEW r \in requests, AcceptSame(r), waiting = r,
                 acked' = [snap |-> r, key |-> applied.key]
          PROVE  Served
        <3>1. r \in Snapshot /\ r # None
            BY <1>1, NotNone DEF RealityInv, PinInv, Shape
        <3>2. applied # None /\ r = applied.snap
            BY <1>1, <2>2, <3>1, Checked DEF AcceptSame, Same, RealityInv
        <3>3. pc = "idle" /\ core' = core
            BY <2>2 DEF AcceptSame, Accepted
        <3>4. config = Configured(applied)
            BY <1>1, <2>2, <3>1, <3>2, <3>3, NotNone DEF RealityInv, RestOK
        <3>5. core \in {Down, config}
            BY <1>1, <3>3 DEF RealityInv, WorkOK
        <3> QED BY <2>2, <3>2, <3>3, <3>4, <3>5 DEF Served, Configured
    <2> QED BY <1>1, <2>1, <2>2, Acknowledges
<1>2. RealityInv /\ [Next]_vars => [lapses = {} /\ acked' # acked => Served]_vars
    BY <1>1
<1> QED BY <1>2, RealityInvariant, PTL DEF Spec, AckedIsServed

\* Two acknowledgements of one generation carry one key, whatever lapses
\* (ensureRealityIdentity, and the checks of applyReality before it).
THEOREM KeyStaysPinned == Spec => KeyIsPinned
<1> DEFINE Pins == acked # None /\ acked' # acked /\ acked'.snap.gen = acked.snap.gen
                    => acked'.key = acked.key
<1>1. ASSUME RealityInv, [Next]_vars, acked # None, acked' # acked,
             acked'.snap.gen = acked.snap.gen
      PROVE  acked'.key = acked.key
    <2>1. CASE RecordApplied /\ acked' = [snap |-> req, key |-> identity.key]
        <3>1. pc = "record"
            BY <2>1 DEF RecordApplied
        <3>2. Pinned(acked')
            BY <1>1, <2>1, <3>1, NewRecord DEF RealityInv
        <3> QED BY <1>1, <3>2 DEF Pinned
    <2>2. ASSUME NEW r \in requests, AcceptSame(r), acked' = [snap |-> r, key |-> applied.key]
          PROVE  acked'.key = acked.key
        <3>1. r.gen = applied.snap.gen
            BY <2>2 DEF AcceptSame, Same
        <3> QED BY <1>1, <2>2, <3>1 DEF RealityInv, PinInv, KeysOK, Pinned
    <2> QED BY <1>1, <2>1, <2>2, Acknowledges
<1>2. RealityInv /\ [Next]_vars => [Pins]_vars
    BY <1>1
<1> QED BY <1>2, RealityInvariant, PTL DEF Spec, KeyIsPinned
=============================================================================
