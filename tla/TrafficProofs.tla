---------------------------- MODULE TrafficProofs ----------------------------
(***************************************************************************)
(* Proofs about TrafficAccounting, for any set of users, batch size and    *)
(* bounds: no batch of a bound installation is ever refused, the outbox    *)
(* and the ledger implement BatchLedger, every byte is recorded once, and  *)
(* the totals are those of the ledger.                                     *)
(***************************************************************************)
EXTENDS TrafficAccounting, FiniteSetTheorems, TLAPS

\* The number of batches a sample is cut into is a natural number.
LEMMA CountIsNat ==
    ASSUME NEW part \in Partitions
    PROVE  Cardinality({part[u] : u \in Items}) \in Nat
<1>1. IsFiniteSet(Items)
  BY FS_Subset, TrafficAssumption DEF Items
<1>2. Cardinality(Items) \in Nat
  BY <1>1, FS_CardinalityType
<1>3. {part[u] : u \in Items} \in SUBSET (1..Cardinality(Items))
  BY DEF Partitions
<1>4. IsFiniteSet(1..Cardinality(Items))
  BY <1>2, FS_Interval
<1>5. IsFiniteSet({part[u] : u \in Items})
  BY <1>3, <1>4, FS_Subset, Zenon
<1> QED
  BY <1>5, FS_CardinalityType

\* The initial state satisfies the invariant: nothing is recorded.
LEMMA InitLedger == Init => LedgerInv
  BY DEF Init, LedgerInv, IdsDrawn, IdsUnique, Recorded, Ledger, Posted

\* Ingesting a batch adds at most that batch to the ledger, and adds it if
\* the answer is accepted.
LEMMA IngestLedger ==
    ASSUME NEW b, NEW who, IngestTrafficBatch(b, who)
    PROVE  /\ Ledger' = Ledger \/ Ledger' = Ledger \cup {b}
           /\ Taken(b, who) => b \in Ledger'
<1>1. CASE Status(b, who) = "accepted"
  <2> DEFINE row == [batch |-> b, disp |-> [u \in Users |-> Disposition(b, u)]]
  <2>1. rows' = rows \cup {row}
    BY <1>1 DEF IngestTrafficBatch, Account
  <2>2. row.batch = b
    OBVIOUS
  <2> HIDE DEF row
  <2>3. Ledger' = Ledger \cup {b}
    BY <2>1, <2>2 DEF Ledger
  <2> QED BY <2>3
<1>2. CASE Status(b, who) # "accepted"
  <2>1. Ledger' = Ledger
    BY <1>2 DEF IngestTrafficBatch, ledgerVars, Ledger
  <2>2. Taken(b, who) => Status(b, who) = "duplicate"
    BY <1>2 DEF Taken
  <2>3. Status(b, who) = "duplicate" => b \in Ledger
    BY DEF Status
  <2> QED BY <2>1, <2>2, <2>3
<1> QED BY <1>1, <1>2

\* A step that records nothing new and draws nothing preserves the invariant.
LEMMA SameRecorded ==
    ASSUME LedgerInv, UNCHANGED <<db, drawn, inst>>,
           Recorded' = Recorded, Posted' \subseteq Recorded
    PROVE  LedgerInv'
  BY DEF LedgerInv, IdsDrawn, IdsUnique

\* A sample records batches under identifiers never used before.
LEMMA SampleLedger ==
    ASSUME LedgerInv, Sample
    PROVE  /\ LedgerInv'
           /\ Ledger' = Ledger
           /\ outbox \subseteq outbox'
           /\ (outbox' \ outbox) \cap Ledger = {}
<1>1. PICK part \in Partitions : SampleWith(part)
  BY DEF Sample
<1> DEFINE count == Cardinality({part[u] : u \in Items})
           new == {NewBatch(part, k) : k \in 1..count}
<1>2. count \in Nat
  BY CountIsNat
<1>3. /\ outbox' = outbox \cup new
      /\ drawn'.batch = drawn.batch + count
      /\ drawn'.source = IF Rotated THEN drawn.source + 1 ELSE drawn.source
      /\ inst' = inst /\ Ledger' = Ledger /\ posts' = posts
  BY <1>1, Zenon DEF SampleWith, Sample, Ledger, ledgerVars
<1>4. /\ db'.source = Source
      /\ db'.seq = FirstSeq + count
  BY <1>1 DEF SampleWith
<1>5. \A b \in new : \E k \in 1..count :
        /\ b.id = drawn.batch + k /\ b.inst = inst /\ b.source = Source
        /\ b.seq = FirstSeq + k - 1
        /\ b = NewBatch(part, k)
  <2>1. \A k : /\ NewBatch(part, k).id = drawn.batch + k
               /\ NewBatch(part, k).inst = inst
               /\ NewBatch(part, k).source = Source
               /\ NewBatch(part, k).seq = FirstSeq + k - 1
    BY DEF NewBatch
  <2> QED BY <2>1, Zenon
<1> HIDE DEF count, new
<1>6. Recorded' = Recorded \cup new
  BY <1>3 DEF Recorded
<1>7. /\ Source \in Nat /\ FirstSeq \in Nat \ {0} /\ Source <= drawn'.source
      /\ drawn'.source \in Nat /\ drawn.source <= drawn'.source
      /\ Rotated => Source = drawn.source + 1
      /\ ~Rotated => Source = db.source /\ FirstSeq = db.seq
  BY <1>3 DEF Source, FirstSeq, LedgerInv, IdsDrawn
<1>8. \A b \in new : /\ b.id \in Nat /\ drawn.batch < b.id /\ b.id <= drawn'.batch
                     /\ b.source = Source /\ b.seq \in Nat
                     /\ FirstSeq <= b.seq /\ b.seq < db'.seq
  BY <1>2, <1>3, <1>4, <1>5, <1>7 DEF LedgerInv, IdsDrawn
<1>9. IdsDrawn'
  <2>1. /\ db'.source \in Nat /\ db'.seq \in Nat \ {0} /\ inst' \in Nat
        /\ drawn'.batch \in Nat /\ drawn'.source \in Nat
        /\ db'.source <= drawn'.source
    BY <1>2, <1>3, <1>4, <1>7 DEF LedgerInv, IdsDrawn
  <2>2. ASSUME NEW b \in Recorded
        PROVE  /\ b.id \in Nat /\ b.id <= drawn'.batch
               /\ b.source \in Nat /\ b.source <= drawn'.source
               /\ b.seq \in Nat
               /\ b.source = db'.source => b.seq < db'.seq
    BY <1>2, <1>3, <1>4, <1>7 DEF LedgerInv, IdsDrawn
  <2>3. ASSUME NEW b \in new
        PROVE  /\ b.id \in Nat /\ b.id <= drawn'.batch
               /\ b.source \in Nat /\ b.source <= drawn'.source
               /\ b.seq \in Nat
               /\ b.source = db'.source => b.seq < db'.seq
    BY <1>4, <1>7, <1>8
  <2> QED BY <1>6, <2>1, <2>2, <2>3 DEF IdsDrawn
<1>10. IdsUnique'
  <2>1. ASSUME NEW b \in new, NEW c \in new, b.id = c.id \/ b.seq = c.seq
        PROVE  b = c
    BY <1>2, <1>5, <1>7, <2>1 DEF LedgerInv, IdsDrawn
  <2>2. ASSUME NEW b \in Recorded, NEW c \in new
        PROVE  b.id # c.id /\ ~(b.source = c.source /\ b.seq = c.seq)
    BY <1>7, <1>8 DEF LedgerInv, IdsDrawn
  <2> QED BY <1>6, <2>1, <2>2 DEF IdsUnique, LedgerInv
<1>11. Posted' \subseteq Recorded'
  BY <1>3, <1>6 DEF Posted, LedgerInv
<1>12. (outbox' \ outbox) \cap Ledger = {}
  BY <1>3, <1>8 DEF LedgerInv, IdsDrawn, Recorded
<1> QED
  BY <1>3, <1>9, <1>10, <1>11, <1>12 DEF LedgerInv

\* Ingesting a recorded batch and removing from the outbox only batches that
\* are in the ledger keeps what is recorded, and credits at most one batch.
LEMMA IngestRecorded ==
    ASSUME NEW b \in Recorded, NEW who, IngestTrafficBatch(b, who),
           outbox' \subseteq outbox, outbox \ outbox' \subseteq Ledger'
    PROVE  /\ Recorded' = Recorded
           /\ Ledger' = Ledger \/ Ledger' = Ledger \cup {b}
  BY IngestLedger DEF Recorded

\* FlushHead deletes the batch only when the ledger has it.
LEMMA FlushHeadLedger ==
    ASSUME LedgerInv, FlushHead
    PROVE  /\ LedgerInv'
           /\ \E b \in outbox : /\ Ledger' = Ledger \/ Ledger' = Ledger \cup {b}
                                /\ outbox' \subseteq outbox
                                /\ outbox \ outbox' \subseteq Ledger'
<1>1. PICK b \in outbox :
        /\ IngestTrafficBatch(b, inst)
        /\ outbox' = IF Taken(b, inst) THEN outbox \ {b} ELSE outbox
  BY DEF FlushHead
<1>2. /\ outbox' \subseteq outbox /\ outbox \ outbox' \subseteq Ledger'
      /\ Ledger' = Ledger \/ Ledger' = Ledger \cup {b}
  BY <1>1, IngestLedger
<1>3. Recorded' = Recorded
  BY <1>1, <1>2, IngestRecorded DEF Recorded
<1>4. Posted' = Posted /\ UNCHANGED <<db, drawn, inst>>
  BY DEF FlushHead, Posted
<1>5. LedgerInv'
  BY <1>3, <1>4, SameRecorded DEF LedgerInv
<1> QED BY <1>2, <1>5

\* A response that is lost leaves the outbox as it is.
LEMMA UnconfirmedLedger ==
    ASSUME LedgerInv, FlushUnconfirmed
    PROVE  /\ LedgerInv'
           /\ outbox' = outbox
           /\ \E b \in outbox : Ledger' = Ledger \/ Ledger' = Ledger \cup {b}
<1>1. PICK b \in outbox : IngestTrafficBatch(b, inst)
  BY DEF FlushUnconfirmed
<1>2. outbox' = outbox /\ Posted' = Posted /\ UNCHANGED <<db, drawn, inst>>
  BY DEF FlushUnconfirmed, agentVars, Posted
<1>3. /\ Recorded' = Recorded
      /\ Ledger' = Ledger \/ Ledger' = Ledger \cup {b}
  BY <1>1, <1>2, IngestRecorded DEF Recorded
<1>4. LedgerInv'
  BY <1>2, <1>3, SameRecorded DEF LedgerInv
<1> QED BY <1>2, <1>3, <1>4

\* A request processed late is for a batch that is recorded.
LEMMA LatePostLedger ==
    ASSUME LedgerInv, DeliverLatePost
    PROVE  /\ LedgerInv'
           /\ outbox' = outbox
           /\ \E b \in Recorded : Ledger' = Ledger \/ Ledger' = Ledger \cup {b}
<1>1. PICK p \in posts : IngestTrafficBatch(p.batch, p.inst) /\ posts' = posts \ {p}
  BY DEF DeliverLatePost
<1>2. p.batch \in Recorded
  BY DEF LedgerInv, Posted
<1>3. outbox' = outbox /\ Posted' \subseteq Posted /\ UNCHANGED <<db, drawn, inst>>
  BY <1>1 DEF DeliverLatePost, agentVars, Posted
<1>4. /\ Recorded' = Recorded
      /\ Ledger' = Ledger \/ Ledger' = Ledger \cup {p.batch}
  BY <1>1, <1>2, <1>3, IngestRecorded
<1>5. LedgerInv'
  BY <1>3, <1>4, SameRecorded DEF LedgerInv
<1> QED BY <1>2, <1>3, <1>4, <1>5

\* The request that goes under way is for a batch of the outbox.
LEMMA DelayedLedger ==
    ASSUME LedgerInv, FlushDelayed
    PROVE  LedgerInv' /\ outbox' = outbox /\ Ledger' = Ledger
<1>1. PICK b \in outbox : posts' = posts \cup {[batch |-> b, inst |-> inst]}
  BY DEF FlushDelayed
<1>2. outbox' = outbox /\ Ledger' = Ledger /\ UNCHANGED <<db, drawn, inst>>
  BY DEF FlushDelayed, agentVars, ledgerVars, Ledger
<1>3. [batch |-> b, inst |-> inst].batch = b
  OBVIOUS
<1>4. Posted' = Posted \cup {b}
  BY <1>1, <1>3, Zenon DEF Posted
<1>5. Recorded' = Recorded /\ Posted' \subseteq Recorded
  BY <1>2, <1>4 DEF Recorded, LedgerInv
<1>6. LedgerInv'
  BY <1>2, <1>5, SameRecorded
<1> QED BY <1>2, <1>6

\* The other steps touch neither batches nor identifiers, except that Rebind
\* draws a new installation.
LEMMA OtherLedger ==
    ASSUME LedgerInv,
           \/ \E u \in Users : \/ \E d \in Dirs : Carry(u, d)
                               \/ Withdraw(u, "unassigned") \/ Withdraw(u, "archived")
                               \/ AssignUser(u)
           \/ RestartCore \/ SampleFirst \/ Rebind \/ UNCHANGED vars
    PROVE  LedgerInv' /\ outbox' = outbox /\ Ledger' = Ledger
<1>1. CASE Rebind
  <2>1. /\ outbox' = outbox /\ Ledger' = Ledger /\ Posted' = Posted
        /\ db' = db /\ drawn' = drawn /\ inst' = inst + 1
    BY <1>1 DEF Rebind, ledgerVars, Ledger, Posted
  <2>2. Recorded' = Recorded
    BY <2>1 DEF Recorded
  <2>3. LedgerInv'
    BY <2>1, <2>2 DEF LedgerInv, IdsDrawn, IdsUnique
  <2> QED BY <2>1, <2>3
<1>2. CASE ~Rebind
  <2>1. /\ outbox' = outbox /\ drawn' = drawn /\ inst' = inst
        /\ rows' = rows /\ posts' = posts
        /\ db'.source = db.source /\ db'.seq = db.seq
    <3>1. CASE SampleFirst
      <4>1. /\ outbox' = outbox /\ drawn' = drawn /\ inst' = inst
            /\ rows' = rows /\ posts' = posts
        BY <3>1 DEF SampleFirst, ledgerVars
      <4>2. db'.source = db.source /\ db'.seq = db.seq
        BY <3>1 DEF SampleFirst
      <4> QED BY <4>1, <4>2
    <3>2. CASE ~SampleFirst
      BY <1>2, <3>2, Zenon DEF Carry, Withdraw, AssignUser, RestartCore, vars, coreVars,
                        agentVars, ledgerVars
    <3> QED BY <3>1, <3>2
  <2>2. Ledger' = Ledger /\ Posted' = Posted /\ Recorded' = Recorded
    BY <2>1 DEF Ledger, Posted, Recorded
  <2>3. LedgerInv'
    BY <2>1, <2>2 DEF LedgerInv, IdsDrawn, IdsUnique
  <2> QED BY <2>1, <2>2, <2>3
<1> QED BY <1>1, <1>2

\* Every step preserves the invariant and is a step of BatchLedger.
LEMMA NextLedger ==
    ASSUME LedgerInv, [Next]_vars
    PROVE  LedgerInv' /\ [Abstract!Next]_<<outbox \ Ledger, Ledger>>
<1> USE DEF Abstract!Next, Abstract!Record, Abstract!Credit
<1>1. CASE Sample
  BY <1>1, SampleLedger
<1>2. CASE FlushHead
  BY <1>2, FlushHeadLedger
<1>3. CASE FlushUnconfirmed
  BY <1>3, UnconfirmedLedger
<1>4. CASE DeliverLatePost
  BY <1>4, LatePostLedger DEF Recorded
<1>5. CASE FlushDelayed
  BY <1>5, DelayedLedger
<1>6. CASE \/ \E u \in Users : \/ \E d \in Dirs : Carry(u, d)
                               \/ Withdraw(u, "unassigned") \/ Withdraw(u, "archived")
                               \/ AssignUser(u)
           \/ RestartCore \/ SampleFirst \/ Rebind \/ UNCHANGED vars
  BY <1>6, OtherLedger
<1> QED
  BY <1>1, <1>2, <1>3, <1>4, <1>5, <1>6 DEF Next

\* Identifiers stay unique and late requests stay recorded for ever.
THEOREM LedgerInvariance == Spec => []LedgerInv
<1>1. LedgerInv /\ [Next]_vars => LedgerInv'
  BY NextLedger
<1> QED
  BY InitLedger, <1>1, PTL DEF Spec

\* flushTrafficOutbox is never blocked by a batch that IngestTrafficBatch
\* refuses, as long as the node keeps its installation.
THEOREM NeverRefused == Spec => []NothingIsRefused
<1>1. LedgerInv => NothingIsRefused
  <2>1. SUFFICES ASSUME LedgerInv, NEW b \in outbox, b.inst = inst
                 PROVE  Status(b, inst) \in {"accepted", "duplicate"}
    BY DEF NothingIsRefused, Taken
  <2>2. b.inst = inst /\ \A r \in Ledger : r.id = b.id => r = b
    BY <2>1 DEF LedgerInv, IdsUnique, Recorded
  <2>3. \A r \in Ledger : r.source = b.source /\ r.seq = b.seq => r = b
    BY <2>1 DEF LedgerInv, IdsUnique, Recorded
  <2> QED
    BY <2>2, <2>3 DEF Status
<1> QED
  BY LedgerInvariance, <1>1, PTL

\* The agent's outbox and IngestTrafficBatch, over a network that repeats,
\* loses and delays requests, implement the ledger that credits every batch
\* once.
THEOREM CreditsOnce == Spec => ImplementsLedger
<1>1. Init => Abstract!Init
  BY DEF Init, Abstract!Init, Ledger
<1>2. LedgerInv /\ [Next]_vars => [Abstract!Next]_<<outbox \ Ledger, Ledger>>
  BY NextLedger
<1> QED
  BY <1>1, <1>2, LedgerInvariance, PTL DEF Spec, ImplementsLedger, Abstract!Spec

----------------------------------------------------------------------------
(* Sums over finite sets.  Induction is over a set that holds the numbers   *)
(* or the subsets for which the claim is true.                              *)

\* A set of natural numbers that is not empty has a least element.
LEMMA Least ==
    ASSUME NEW S, S \subseteq Nat, S # {}
    PROVE  \E x \in S : \A y \in S : x <= y
<1>1. PICK x \in S : \A y \in S : ~(<<y, x>> \in OpToRel(<, Nat))
    BY NatLessThanWellFounded, WFMin, Zenon
<1>2. ASSUME NEW y \in S PROVE x <= y
    <2>1. y \in Nat /\ x \in Nat
        OBVIOUS
    <2>2. y < x => <<y, x>> \in OpToRel(<, Nat)
        BY <2>1 DEF OpToRel
    <2>3. ~(y < x)
        BY <1>1, <2>2, Zenon
    <2> QED BY <2>1, <2>3
<1> QED BY <1>2

\* Induction over the natural numbers, for a set in place of a predicate.
LEMMA NatInduct ==
    ASSUME NEW D, 0 \in D, \A n \in Nat : n \in D => n + 1 \in D
    PROVE  \A n \in Nat : n \in D
<1> DEFINE Bad == {n \in Nat : n \notin D}
<1>1. SUFFICES ASSUME Bad # {} PROVE FALSE
    OBVIOUS
<1>2. PICK n \in Bad : \A m \in Bad : n <= m
    BY <1>1, Least, Zenon
<1>3. n # 0 /\ n \in Nat /\ n - 1 \in Nat
    BY <1>2
<1>4. n - 1 \notin Bad
    BY <1>2, <1>3
<1> QED BY <1>3, <1>4

\* Induction over the subsets of a finite set: a subset is in D when those
\* with one element less are.
LEMMA SubsetInduct ==
    ASSUME NEW S, IsFiniteSet(S), NEW D,
           \A T \in SUBSET S : (\A x \in T : T \ {x} \in D) => T \in D
    PROVE  \A T \in SUBSET S : T \in D
<1> DEFINE Bad == {T \in SUBSET S : T \notin D}
           Sizes == {Cardinality(T) : T \in Bad}
<1>1. SUFFICES ASSUME Bad # {} PROVE FALSE
    OBVIOUS
<1>2. \A T \in SUBSET S : IsFiniteSet(T) /\ Cardinality(T) \in Nat
    BY FS_Subset, FS_CardinalityType
<1>3. Sizes \subseteq Nat /\ Sizes # {}
    BY <1>1, <1>2
<1>4. PICK n \in Sizes : \A m \in Sizes : n <= m
    BY <1>3, Least, Zenon
<1>5. PICK T \in Bad : Cardinality(T) = n
    OBVIOUS
<1>6. ASSUME NEW x \in T PROVE T \ {x} \in D
    <2>1. T \in SUBSET S /\ T \ {x} \in SUBSET S
        OBVIOUS
    <2>2. Cardinality(T \ {x}) = n - 1 /\ n \in Nat
        BY <1>2, <1>5, <2>1, FS_RemoveElement
    <2>3. ~(n <= n - 1)
        BY <2>2
    <2>4. Cardinality(T \ {x}) \notin Sizes
        BY <1>4, <2>2, <2>3
    <2> QED BY <2>1, <2>4, Zenon
<1> QED BY <1>6

\* SumFunction adds up in the order in which CHOOSE picks: g maps every
\* subset to the sum over it.
Chosen(s) == CHOOSE x \in s : TRUE
Step(f, g, s) == IF s = {} THEN 0 ELSE f[Chosen(s)] + g[s \ {Chosen(s)}]
Folds(g, f, S) == g = [s \in SUBSET S |-> Step(f, g, s)]

\* What the library's definition of SumFunction says.
LEMMA SumUnfold ==
    ASSUME NEW f
    PROVE  SumFunction(f) = (CHOOSE g : Folds(g, f, DOMAIN f))[DOMAIN f]
BY Zenon DEF SumFunction, SumFunctionOnSet, FoldFunctionOnSet, MapThenFoldSet, Folds, Step, Chosen

\* The element CHOOSE picks is one of the set.
LEMMA ChosenIn ==
    ASSUME NEW s, s # {} PROVE Chosen(s) \in s
BY Zenon DEF Chosen

\* The function that SumFunction defines by recursion exists: it is built for
\* the subsets of at most n elements, for every n.
LEMMA FoldExists ==
    ASSUME NEW S, IsFiniteSet(S), NEW f \in [S -> Nat]
    PROVE  \E g \in [SUBSET S -> Nat] : Folds(g, f, S)
<1> DEFINE D == {n \in Nat : \E g \in [SUBSET S -> Nat] :
                    \A s \in SUBSET S : Cardinality(s) <= n => g[s] = Step(f, g, s)}
<1>1. \A T \in SUBSET S : IsFiniteSet(T) /\ Cardinality(T) \in Nat
    BY FS_Subset, FS_CardinalityType
<1>2. 0 \in D
    <2>1. \A s \in SUBSET S : Cardinality(s) <= 0 => s = {}
        BY <1>1, FS_EmptySet
    <2> DEFINE g == [s \in SUBSET S |-> 0]
    <2>2. g \in [SUBSET S -> Nat] /\ \A s \in SUBSET S : Cardinality(s) <= 0 => g[s] = Step(f, g, s)
        BY <2>1 DEF Step
    <2> QED BY <2>2, Zenon
<1>3. ASSUME NEW n \in Nat, n \in D PROVE n + 1 \in D
    <2>1. PICK g \in [SUBSET S -> Nat] :
            \A s \in SUBSET S : Cardinality(s) <= n => g[s] = Step(f, g, s)
        BY <1>3, Zenon
    <2> DEFINE h == [s \in SUBSET S |->
                        IF Cardinality(s) <= n THEN g[s]
                        ELSE f[Chosen(s)] + g[s \ {Chosen(s)}]]
    <2>2. ASSUME NEW s \in SUBSET S, s # {}
          PROVE  /\ Chosen(s) \in S /\ s \ {Chosen(s)} \in SUBSET S
                 /\ f[Chosen(s)] \in Nat /\ g[s \ {Chosen(s)}] \in Nat
                 /\ Cardinality(s \ {Chosen(s)}) = Cardinality(s) - 1
                 /\ Cardinality(s) \in Nat
        <3>1. Chosen(s) \in s
            BY <2>2, ChosenIn
        <3>2. IsFiniteSet(s) /\ Cardinality(s) \in Nat
            BY <1>1
        <3>3. Cardinality(s \ {Chosen(s)}) = Cardinality(s) - 1
            BY <3>1, <3>2, FS_RemoveElement, Zenon
        <3>4. Chosen(s) \in S /\ s \ {Chosen(s)} \in SUBSET S
            BY <3>1
        <3> QED BY <3>2, <3>3, <3>4
    <2>3. \A s \in SUBSET S : Cardinality(s) <= n \/ s # {}
        <3>1. ASSUME NEW s \in SUBSET S, s = {} PROVE Cardinality(s) <= n
            BY <3>1, FS_EmptySet
        <3> QED BY <3>1
    <2>4. h \in [SUBSET S -> Nat]
        BY <2>2, <2>3
    <2>5. ASSUME NEW s \in SUBSET S, Cardinality(s) <= n + 1 PROVE h[s] = Step(f, h, s)
        <3>1. CASE s = {}
            <4>1. Cardinality(s) <= n
                BY <3>1, FS_EmptySet
            <4>2. h[s] = g[s]
                BY <4>1
            <4> QED BY <2>1, <3>1, <4>1, <4>2 DEF Step
        <3>2. CASE s # {}
            <4> DEFINE c == Chosen(s)
                       t == s \ {c}
            <4>1. t \in SUBSET S /\ Cardinality(t) <= n
                BY <2>2, <2>5, <3>2
            <4> HIDE DEF c
            <4>2. h[t] = g[t]
                BY <4>1
            <4>3. h[s] = f[c] + g[t]
                <5>1. CASE Cardinality(s) <= n
                    BY <2>1, <3>2, <5>1 DEF Step, c
                <5>2. CASE ~(Cardinality(s) <= n)
                    BY <5>2 DEF c
                <5> QED BY <5>1, <5>2
            <4> QED BY <3>2, <4>2, <4>3 DEF Step, c
        <3> QED BY <3>1, <3>2
    <2> HIDE DEF h
    <2> QED BY <2>4, <2>5
<1> HIDE DEF D
<1>4. \A n \in Nat : n \in D
    BY <1>2, <1>3, NatInduct
<1>5. Cardinality(S) \in D
    BY <1>1, <1>4
<1>6. PICK g \in [SUBSET S -> Nat] :
        \A s \in SUBSET S : Cardinality(s) <= Cardinality(S) => g[s] = Step(f, g, s)
    BY <1>5, Zenon DEF D
<1>7. \A s \in SUBSET S : Cardinality(s) <= Cardinality(S)
    BY FS_Subset
<1>8. \A s \in SUBSET S : g[s] = Step(f, g, s)
    BY <1>6, <1>7
<1>9. Folds(g, f, S)
    BY <1>8 DEF Folds
<1> QED BY <1>9

\* The order makes no difference: any element can be taken out first.
Additive(g, f, S) ==
    /\ g[{}] = 0
    /\ \A T \in SUBSET S : \A x \in T : g[T] = f[x] + g[T \ {x}]

\* A function that adds in the order of CHOOSE adds in any order.
LEMMA FoldAny ==
    ASSUME NEW S, IsFiniteSet(S), NEW f \in [S -> Nat],
           NEW g \in [SUBSET S -> Nat], Folds(g, f, S)
    PROVE  Additive(g, f, S)
<1>1. \A s \in SUBSET S : g[s] = Step(f, g, s)
    BY DEF Folds
<1> DEFINE D == {T \in SUBSET S : \A x \in T : g[T] = f[x] + g[T \ {x}]}
<1>2. ASSUME NEW T \in SUBSET S, \A x \in T : T \ {x} \in D PROVE T \in D
    <2>1. SUFFICES ASSUME NEW x \in T PROVE g[T] = f[x] + g[T \ {x}]
        OBVIOUS
    <2> DEFINE c == Chosen(T)
    <2>2. c \in T
        BY ChosenIn
    <2>3. g[T] = f[c] + g[T \ {c}]
        BY <1>1 DEF Step
    <2> HIDE DEF c
    <2>4. CASE x = c
        BY <2>3, <2>4
    <2>5. CASE x # c
        <3> DEFINE R == (T \ {c}) \ {x}
        <3>1. (T \ {x}) \ {c} = R /\ R \in SUBSET S
            OBVIOUS
        <3>2. g[T \ {c}] = f[x] + g[R]
            BY <1>2, <2>2, <2>5
        <3>3. g[T \ {x}] = f[c] + g[R]
            BY <1>2, <2>2, <2>5, <3>1
        <3>4. f[x] \in Nat /\ f[c] \in Nat /\ g[R] \in Nat
            BY <2>2, <3>1
        <3> HIDE DEF R
        <3> QED BY <2>3, <3>2, <3>3, <3>4
    <2> QED BY <2>4, <2>5
<1> HIDE DEF D
<1>3. \A T \in SUBSET S : T \in D
    BY <1>2, SubsetInduct, Zenon
<1>4. g[{}] = 0
    BY <1>1, Zenon DEF Step
<1> QED BY <1>3, <1>4 DEF D, Additive

\* The sum over T is the same whether T or a larger set is summed.
LEMMA FoldSame ==
    ASSUME NEW S, IsFiniteSet(S), NEW f \in [S -> Nat],
           NEW T \in SUBSET S, NEW e \in [T -> Nat], \A x \in T : e[x] = f[x],
           NEW g, Folds(g, f, S), NEW h, Folds(h, e, T)
    PROVE  h[T] = g[T]
<1>1. \A s \in SUBSET T : h[s] = Step(e, h, s)
    BY DEF Folds
<1>2. \A s \in SUBSET T : g[s] = Step(f, g, s)
    BY DEF Folds
<1> DEFINE D == {s \in SUBSET T : g[s] = h[s]}
<1>3. IsFiniteSet(T)
    BY FS_Subset
<1>4. ASSUME NEW s \in SUBSET T, \A x \in s : s \ {x} \in D PROVE s \in D
    <2>1. CASE s = {}
        BY <1>1, <1>2, <2>1, Zenon DEF Step
    <2>2. CASE s # {}
        <3>1. Chosen(s) \in s
            BY <2>2, ChosenIn
        <3>2. e[Chosen(s)] = f[Chosen(s)] /\ g[s \ {Chosen(s)}] = h[s \ {Chosen(s)}]
            BY <1>4, <3>1
        <3> QED BY <1>1, <1>2, <2>2, <3>2 DEF Step
    <2> QED BY <2>1, <2>2
<1> HIDE DEF D
<1>5. \A s \in SUBSET T : s \in D
    BY <1>3, <1>4, SubsetInduct, Zenon
<1> QED BY <1>5 DEF D

\* g[T] is the sum of f over T, for every subset T of S.
Tabulates(g, f, S) ==
    /\ g \in [SUBSET S -> Nat]
    /\ Additive(g, f, S)
    /\ \A T \in SUBSET S : \A e \in [T -> Nat] :
          (\A x \in T : e[x] = f[x]) => SumFunction(e) = g[T]

\* There is such a table; what is known of sums is read off it.
LEMMA SumTable ==
    ASSUME NEW S, IsFiniteSet(S), NEW f \in [S -> Nat]
    PROVE  \E g : Tabulates(g, f, S)
<1>1. PICK g \in [SUBSET S -> Nat] : Folds(g, f, S)
    BY FoldExists
<1>2. ASSUME NEW T \in SUBSET S, NEW e \in [T -> Nat], \A x \in T : e[x] = f[x]
      PROVE  SumFunction(e) = g[T]
    <2>1. IsFiniteSet(T) /\ DOMAIN e = T
        BY FS_Subset
    <2> DEFINE h == CHOOSE k : Folds(k, e, T)
    <2>2. \E k : Folds(k, e, T)
        BY <2>1, FoldExists, Zenon
    <2>3. Folds(h, e, T)
        BY <2>2, Zenon
    <2>4. SumFunction(e) = h[T]
        BY <2>1, SumUnfold
    <2> HIDE DEF h
    <2>5. h[T] = g[T]
        BY <1>1, <1>2, <2>3, FoldSame
    <2> QED BY <2>4, <2>5
<1>3. Additive(g, f, S)
    BY <1>1, FoldAny
<1> QED BY <1>2, <1>3 DEF Tabulates

\* A sum of natural numbers is one.
LEMMA SumNat ==
    ASSUME NEW S, IsFiniteSet(S), NEW f \in [S -> Nat]
    PROVE  SumFunction(f) \in Nat
<1>g. PICK g : Tabulates(g, f, S)
    BY SumTable
<1>1. /\ g \in [SUBSET S -> Nat] /\ Additive(g, f, S)
      /\ \A T \in SUBSET S : \A e \in [T -> Nat] :
            (\A x \in T : e[x] = f[x]) => SumFunction(e) = g[T]
    BY <1>g DEF Tabulates
<1>2. SumFunction(f) = g[S]
    BY <1>1
<1> QED BY <1>1, <1>2

\* Any element can be taken out of a sum.
LEMMA SumRemove ==
    ASSUME NEW S, IsFiniteSet(S), NEW f \in [S -> Nat], NEW x \in S,
           NEW e \in [S \ {x} -> Nat], \A y \in S \ {x} : e[y] = f[y]
    PROVE  SumFunction(f) = f[x] + SumFunction(e)
<1>g. PICK g : Tabulates(g, f, S)
    BY SumTable
<1>1. /\ g \in [SUBSET S -> Nat] /\ Additive(g, f, S)
      /\ \A T \in SUBSET S : \A h \in [T -> Nat] :
            (\A z \in T : h[z] = f[z]) => SumFunction(h) = g[T]
    BY <1>g DEF Tabulates
<1>2. SumFunction(f) = g[S]
    BY <1>1
<1>3. SumFunction(e) = g[S \ {x}]
    BY <1>1
<1>4. g[S] = f[x] + g[S \ {x}]
    BY <1>1 DEF Additive
<1> QED BY <1>2, <1>3, <1>4

\* A sum of zeros is zero.
LEMMA SumZero ==
    ASSUME NEW S, IsFiniteSet(S), NEW f \in [S -> Nat], \A x \in S : f[x] = 0
    PROVE  SumFunction(f) = 0
<1>g. PICK g : Tabulates(g, f, S)
    BY SumTable
<1>1. /\ g \in [SUBSET S -> Nat] /\ Additive(g, f, S)
      /\ \A T \in SUBSET S : \A h \in [T -> Nat] :
            (\A z \in T : h[z] = f[z]) => SumFunction(h) = g[T]
    BY <1>g DEF Tabulates
<1> DEFINE D == {T \in SUBSET S : g[T] = 0}
<1>2. ASSUME NEW T \in SUBSET S, \A x \in T : T \ {x} \in D PROVE T \in D
    <2>1. CASE T = {}
        BY <1>1, <2>1 DEF Additive
    <2>2. CASE T # {}
        <3>1. PICK x \in T : TRUE
            BY <2>2
        <3>2. g[T] = f[x] + g[T \ {x}]
            BY <1>1 DEF Additive
        <3> QED BY <1>2, <3>2
    <2> QED BY <2>1, <2>2
<1> HIDE DEF D
<1>3. \A T \in SUBSET S : T \in D
    BY <1>2, SubsetInduct, Zenon
<1>4. SumFunction(f) = g[S]
    BY <1>1
<1> QED BY <1>3, <1>4 DEF D

\* A sum with one element that is not zero.
LEMMA SumOne ==
    ASSUME NEW S, IsFiniteSet(S), NEW f \in [S -> Nat], NEW x \in S,
           \A y \in S \ {x} : f[y] = 0
    PROVE  SumFunction(f) = f[x]
<1> DEFINE e == [y \in S \ {x} |-> f[y]]
<1>1. e \in [S \ {x} -> Nat] /\ \A y \in S \ {x} : e[y] = f[y]
    OBVIOUS
<1> HIDE DEF e
<1>2. SumFunction(f) = f[x] + SumFunction(e)
    BY <1>1, SumRemove
<1>3. IsFiniteSet(S \ {x})
    BY FS_RemoveElement
<1>4. SumFunction(e) = 0
    BY <1>1, <1>3, SumZero
<1> QED BY <1>2, <1>4

\* The sum of a sum, element by element.
LEMMA SumPlus ==
    ASSUME NEW S, IsFiniteSet(S), NEW f \in [S -> Nat], NEW e \in [S -> Nat],
           NEW k \in [S -> Nat], \A x \in S : k[x] = f[x] + e[x]
    PROVE  SumFunction(k) = SumFunction(f) + SumFunction(e)
<1>g. PICK g : Tabulates(g, f, S)
    BY SumTable
<1>2. /\ g \in [SUBSET S -> Nat] /\ Additive(g, f, S)
      /\ \A T \in SUBSET S : \A d \in [T -> Nat] :
            (\A z \in T : d[z] = f[z]) => SumFunction(d) = g[T]
    BY <1>g DEF Tabulates
<1>h. PICK h : Tabulates(h, e, S)
    BY SumTable
<1>3. /\ h \in [SUBSET S -> Nat] /\ Additive(h, e, S)
      /\ \A T \in SUBSET S : \A d \in [T -> Nat] :
            (\A z \in T : d[z] = e[z]) => SumFunction(d) = h[T]
    BY <1>h DEF Tabulates
<1>i. PICK i : Tabulates(i, k, S)
    BY SumTable
<1>4. /\ i \in [SUBSET S -> Nat] /\ Additive(i, k, S)
      /\ \A T \in SUBSET S : \A d \in [T -> Nat] :
            (\A z \in T : d[z] = k[z]) => SumFunction(d) = i[T]
    BY <1>i DEF Tabulates
<1>5. SumFunction(f) = g[S] /\ SumFunction(e) = h[S] /\ SumFunction(k) = i[S]
    BY <1>2, <1>3, <1>4
<1> DEFINE D == {T \in SUBSET S : i[T] = g[T] + h[T]}
<1>6. ASSUME NEW T \in SUBSET S, \A x \in T : T \ {x} \in D PROVE T \in D
    <2>1. CASE T = {}
        BY <1>2, <1>3, <1>4, <2>1 DEF Additive
    <2>2. CASE T # {}
        <3>1. PICK x \in T : TRUE
            BY <2>2
        <3> DEFINE t == T \ {x}
        <3>2. g[T] = f[x] + g[t] /\ h[T] = e[x] + h[t] /\ i[T] = k[x] + i[t]
            BY <1>2, <1>3, <1>4 DEF Additive
        <3>3. i[t] = g[t] + h[t] /\ k[x] = f[x] + e[x]
            BY <1>6
        <3>4. f[x] \in Nat /\ e[x] \in Nat /\ g[t] \in Nat /\ h[t] \in Nat
            BY <1>2, <1>3
        <3> HIDE DEF t
        <3> QED BY <3>2, <3>3, <3>4
    <2> QED BY <2>1, <2>2
<1> HIDE DEF D
<1>7. \A T \in SUBSET S : T \in D
    BY <1>6, SubsetInduct, Zenon
<1>8. i[S] = g[S] + h[S]
    BY <1>7 DEF D
<1> QED BY <1>5, <1>8

\* The sum over two disjoint sets.
LEMMA SumSplit ==
    ASSUME NEW A, NEW B, IsFiniteSet(A), IsFiniteSet(B), A \cap B = {},
           NEW f \in [A \cup B -> Nat],
           NEW a \in [A -> Nat], \A x \in A : a[x] = f[x],
           NEW b \in [B -> Nat], \A x \in B : b[x] = f[x]
    PROVE  SumFunction(f) = SumFunction(a) + SumFunction(b)
<1> DEFINE S == A \cup B
<1>1. IsFiniteSet(S)
    BY FS_Union, Zenon
<1>g. PICK g : Tabulates(g, f, S)
    BY <1>1, SumTable
<1>2. /\ g \in [SUBSET S -> Nat] /\ Additive(g, f, S)
      /\ \A T \in SUBSET S : \A d \in [T -> Nat] :
            (\A z \in T : d[z] = f[z]) => SumFunction(d) = g[T]
    BY <1>g DEF Tabulates
<1>4. SumFunction(f) = g[S] /\ SumFunction(a) = g[A] /\ SumFunction(b) = g[B]
    BY <1>2
<1> DEFINE D == {T \in SUBSET B : g[A \cup T] = g[A] + g[T]}
<1>6. ASSUME NEW T \in SUBSET B, \A x \in T : T \ {x} \in D PROVE T \in D
    <2>1. CASE T = {}
        <3>1. A \cup T = A /\ A \in SUBSET S
            BY <2>1
        <3>2. g[T] = 0 /\ g[A] \in Nat
            BY <1>2, <2>1, <3>1 DEF Additive
        <3>3. g[A \cup T] = g[A] + g[T]
            BY <3>1, <3>2
        <3> QED BY <3>3
    <2>2. CASE T # {}
        <3>1. PICK x \in T : TRUE
            BY <2>2
        <3> DEFINE t == T \ {x}
        <3>2. /\ A \cup T \in SUBSET S /\ T \in SUBSET S
              /\ x \in A \cup T /\ (A \cup T) \ {x} = A \cup t
              /\ t \in SUBSET S /\ A \in SUBSET S /\ x \in S
            <4>1. (A \cup T) \ {x} = A \cup t
                OBVIOUS
            <4> QED BY <4>1, Zenon
        <3>3. g[A \cup T] = f[x] + g[A \cup t] /\ g[T] = f[x] + g[t]
            <4>1. \A R \in SUBSET S : \A y \in R : g[R] = f[y] + g[R \ {y}]
                BY <1>2, Zenon DEF Additive
            <4>2. g[A \cup T] = f[x] + g[(A \cup T) \ {x}]
                BY <3>2, <4>1, Zenon
            <4>3. g[T] = f[x] + g[t]
                BY <3>2, <4>1, Zenon
            <4> QED BY <3>2, <4>2, <4>3, Zenon
        <3>4. g[A \cup t] = g[A] + g[t]
            BY <1>6
        <3>5. f[x] \in Nat /\ g[A] \in Nat /\ g[t] \in Nat
            BY <1>2, <3>2
        <3> HIDE DEF t
        <3> QED BY <3>3, <3>4, <3>5
    <2> QED BY <2>1, <2>2
<1> HIDE DEF D
<1>7. \A T \in SUBSET B : T \in D
    BY <1>6, SubsetInduct, Zenon
<1>8. g[A \cup B] = g[A] + g[B]
    BY <1>7 DEF D
<1> QED BY <1>4, <1>8

----------------------------------------------------------------------------
(* The bytes: from the counters of the core to the totals of the server.    *)

\* A baseline is of the current incarnation of the core or of an earlier one.
\* Of the current one it holds no more than the counter does.  When the core
\* names its incarnation, the baselines of the current one are those under
\* the counter epoch of agent.db, and under that epoch there are no others.
BaselineOK(u) ==
    LET base == db.base[u]
    IN  /\ base.core <= core.epoch
        /\ base.core = core.epoch => \A d \in Dirs : base.bytes[d] <= core.bytes[u][d]
        /\ core.named /\ base.core = core.epoch => db.counterEpoch = core.epoch
        /\ core.named /\ db.counterEpoch = core.epoch =>
              base.core = core.epoch \/ base.bytes = Zero
        /\ ~db.init => base.bytes = Zero
BaselinesOK == db.counterEpoch <= core.epoch /\ \A u \in Users : BaselineOK(u)

\* The sums are over finite sets.
FiniteOK == IsFiniteSet(outbox) /\ IsFiniteSet(rows) /\ IsFiniteSet(Ledger)

\* EveryByteOnce and NeverOvercounts, for one user and one direction.
Balanced(u, d) ==
    LET placed == missed[u][d] + SumOf(Recorded, u, d) + Unsampled(u, d)
    IN  placed <= carried[u][d] /\ (core.named => carried[u][d] = placed)
BalancedOK == \A u \in Users, d \in Dirs : Balanced(u, d)

\* The conjunction is preserved by every step.
AccountInv == TypeOK /\ LedgerInv /\ FiniteOK /\ BaselinesOK /\ BalancedOK /\ TotalsMatchLedger

\* The numbers of the batches are 1 to their count.
LEMMA PartsAreNumbered ==
    ASSUME NEW part \in Partitions
    PROVE  {part[u] : u \in Items} = 1..Cardinality({part[u] : u \in Items})
<1> DEFINE I == {part[u] : u \in Items}
           n == Cardinality(Items)
           Free == {k \in Nat : k # 0 /\ k \notin I}
<1>1. n \in Nat
  <2>1. IsFiniteSet(Items)
    BY FS_Subset, TrafficAssumption DEF Items
  <2> QED BY <2>1, FS_CardinalityType
<1>2. I \subseteq 1..n
  BY DEF Partitions
<1>3. ASSUME NEW k \in 1..n, k \notin I PROVE \A u \in Items : part[u] <= k
  <2>1. {u \in Items : part[u] = k} = {}
    BY <1>3
  <2>2. Cardinality({u \in Items : part[u] = k}) = 0
    BY <2>1, FS_EmptySet
  <2>3. Cardinality({u \in Items : part[u] = k}) < BatchSize
    BY <2>2, TrafficAssumption
  <2> QED BY <2>3 DEF Partitions
<1> HIDE DEF n
<1>4. n + 1 \in Free
  BY <1>1, <1>2
<1>5. PICK m \in Free : \A k \in Free : m <= k
  BY <1>4, Least, Zenon
<1>6. m \in Nat /\ m # 0 /\ m \notin I /\ \A j \in Nat : j # 0 /\ j < m => j \in I
  BY <1>5
<1> USE <1>6
<1>7. ASSUME NEW j \in I PROVE j < m
  <2>1. j \in 1..n /\ j # m
    BY <1>2
  <2>2. CASE m \in 1..n
    BY <1>3, <2>1, <2>2
  <2>3. CASE m \notin 1..n
    BY <1>1, <2>1, <2>3
  <2> QED BY <2>2, <2>3
<1>8. I = 1..(m - 1)
  BY <1>1, <1>2, <1>7
<1> HIDE DEF I
<1>9. Cardinality(1..(m - 1)) = m - 1
  BY FS_Interval
<1>10. I = 1..Cardinality(I)
  BY <1>8, <1>9
<1> QED BY <1>10 DEF I

\* What a sample adds for a user is a counter.
LEMMA DeltaType ==
    ASSUME TypeOK, NEW u \in Users
    PROVE  /\ OldBase[u] \in Baseline
           /\ Delta(u) \in Counter
           /\ \A d \in Dirs : Delta(u)[d] \in Nat /\ Delta(u)[d] <= core.bytes[u][d]
<1>1. core.bytes[u] \in Counter /\ db.base[u] \in Baseline
  BY DEF TypeOK
<1>2. NoBaseline \in Baseline /\ Zero \in Counter
  BY DEF NoBaseline, Baseline, Zero, Counter
<1>3. OldBase[u] \in Baseline
  BY <1>1, <1>2 DEF OldBase
<1>4. OldBase[u].bytes \in Counter
  BY <1>3 DEF Baseline
<1>5. CASE u \notin Listed
  <2>1. Delta(u) = Zero /\ core.bytes[u] = Zero
    BY <1>5 DEF Delta, Listed
  <2> QED BY <1>2, <1>3, <2>1 DEF Zero, Counter
<1>6. CASE u \in Listed /\ u \in ResetUsers
  <2>1. Delta(u) = core.bytes[u]
    BY <1>6 DEF Delta
  <2> QED BY <1>1, <1>3, <2>1 DEF Counter
<1>7. CASE u \in Listed /\ u \notin ResetUsers
  <2>1. Delta(u) = Minus(core.bytes[u], OldBase[u].bytes)
    BY <1>7 DEF Delta
  <2>2. \A d \in Dirs : ~(core.bytes[u][d] < OldBase[u].bytes[d])
    BY <1>7 DEF ResetUsers
  <2>3. ASSUME NEW d \in Dirs
        PROVE  /\ core.bytes[u][d] \in Nat /\ OldBase[u].bytes[d] \in Nat
               /\ Delta(u)[d] = core.bytes[u][d] - OldBase[u].bytes[d]
               /\ Delta(u)[d] \in Nat /\ Delta(u)[d] <= core.bytes[u][d]
    <3>1. core.bytes[u][d] \in Nat /\ OldBase[u].bytes[d] \in Nat
      BY <1>1, <1>4 DEF Counter
    <3>2. Delta(u)[d] = core.bytes[u][d] - OldBase[u].bytes[d]
      BY <2>1 DEF Minus
    <3> QED BY <2>2, <3>1, <3>2
  <2>4. Delta(u) = [d \in Dirs |-> Delta(u)[d]]
    BY <2>1 DEF Minus
  <2>5. Delta(u) \in Counter
    BY <2>3, <2>4 DEF Counter
  <2> QED BY <1>3, <2>3, <2>5
<1> QED BY <1>5, <1>6, <1>7

\* A sample adds at most what was not sampled yet of this incarnation, and
\* exactly that when the core names its incarnation.
LEMMA DeltaIsUnsampled ==
    ASSUME TypeOK, BaselinesOK, db.init, NEW u \in Users, NEW d \in Dirs
    PROVE  /\ Unsampled(u, d) \in Nat
           /\ Delta(u)[d] <= Unsampled(u, d)
           /\ core.named => Delta(u)[d] = Unsampled(u, d)
<1> DEFINE b == db.base[u]
           c == core.bytes[u]
<1>1. /\ c[d] \in Nat /\ b.bytes[d] \in Nat /\ Zero[d] = 0
      /\ b.core \in Nat /\ core.epoch \in Nat
  BY DEF TypeOK, Baseline, Counter, Zero
<1> USE <1>1
<1>2. /\ b.core = core.epoch => \A e \in Dirs : b.bytes[e] <= c[e]
      /\ core.named /\ b.core = core.epoch => db.counterEpoch = core.epoch
      /\ core.named /\ db.counterEpoch = core.epoch => b.core = core.epoch \/ b.bytes = Zero
  BY DEF BaselinesOK, BaselineOK
<1> USE <1>2
<1>3. Unsampled(u, d) = IF b.core = core.epoch THEN c[d] - b.bytes[d] ELSE c[d]
  BY DEF Unsampled, Seen
<1> USE <1>3
<1>4. Unsampled(u, d) \in Nat
  OBVIOUS
<1>5. Delta(u)[d] \in Nat /\ Delta(u)[d] <= c[d]
  BY DeltaType
<1>6. CASE u \notin Listed
  <2>1. Delta(u)[d] = 0 /\ c[d] = 0
    BY <1>6 DEF Delta, Listed
  <2> QED BY <1>4, <2>1
<1>7. CASE u \in Listed /\ u \in ResetUsers
  <2>1. Delta(u)[d] = c[d]
    BY <1>7 DEF Delta
  <2>2. PICK e \in Dirs : c[e] < OldBase[u].bytes[e]
    BY <1>7 DEF ResetUsers
  <2>3. c[e] \in Nat /\ b.bytes[e] \in Nat /\ Zero[e] = 0
    BY DEF TypeOK, Baseline, Counter, Zero
  <2>4. ~NewCounterEpoch
    BY <2>2, <2>3 DEF OldBase, NoBaseline
  <2>5. OldBase[u].bytes[e] = b.bytes[e]
    BY <2>4 DEF OldBase
  <2>6. b.core # core.epoch
    BY <2>2, <2>3, <2>5
  <2> QED BY <1>4, <2>1, <2>6
<1>8. CASE u \in Listed /\ u \notin ResetUsers
  <2>1. Delta(u)[d] = c[d] - OldBase[u].bytes[d]
    BY <1>8 DEF Delta, Minus
  <2>2. CASE NewCounterEpoch
    <3>1. OldBase[u].bytes[d] = 0
      BY <2>2 DEF OldBase, NoBaseline
    <3>2. b.core # core.epoch
      BY <2>2 DEF NewCounterEpoch
    <3> QED BY <1>4, <2>1, <3>1, <3>2
  <2>3. CASE ~NewCounterEpoch
    <3>1. OldBase[u].bytes[d] = b.bytes[d]
      BY <2>3 DEF OldBase
    <3>2. core.named => b.core = core.epoch \/ b.bytes[d] = 0
      BY <2>3 DEF NewCounterEpoch
    <3> QED BY <1>4, <2>1, <3>1, <3>2
  <2> QED BY <2>2, <2>3
<1> QED BY <1>6, <1>7, <1>8

\* The sum over batches of one user's item is a natural number.
LEMMA SumOfNat ==
    ASSUME NEW S, S \subseteq Batch, IsFiniteSet(S), NEW u \in Users, NEW d \in Dirs
    PROVE  SumOf(S, u, d) \in Nat
<1> DEFINE f == [b \in S |-> b.items[u][d]]
<1>1. f \in [S -> Nat]
  BY DEF Batch, Counter
<1> HIDE DEF f
<1>2. SumFunction(f) \in Nat
  BY <1>1, SumNat
<1> QED BY <1>2 DEF f, SumOf

\* Adding batches that were not there adds their items.
LEMMA SumOfUnion ==
    ASSUME NEW S, S \subseteq Batch, IsFiniteSet(S),
           NEW T, T \subseteq Batch, IsFiniteSet(T), S \cap T = {},
           NEW u \in Users, NEW d \in Dirs
    PROVE  SumOf(S \cup T, u, d) = SumOf(S, u, d) + SumOf(T, u, d)
<1> DEFINE f == [b \in S \cup T |-> b.items[u][d]]
           g == [b \in S |-> b.items[u][d]]
           h == [b \in T |-> b.items[u][d]]
<1>1. f \in [S \cup T -> Nat]
  BY DEF Batch, Counter
<1>2. g \in [S -> Nat] /\ h \in [T -> Nat]
  BY DEF Batch, Counter
<1>3. (\A b \in S : g[b] = f[b]) /\ (\A b \in T : h[b] = f[b])
  OBVIOUS
<1> HIDE DEF f, g, h
<1>4. SumFunction(f) = SumFunction(g) + SumFunction(h)
  BY <1>1, <1>2, <1>3, SumSplit
<1> QED BY <1>4 DEF f, g, h, SumOf

\* The batches of a sample.
New(part) == {NewBatch(part, k) : k \in 1..Cardinality({part[u] : u \in Items})}

\* A batch of a sample.
LEMMA NewBatchType ==
    ASSUME TypeOK, LedgerInv, NEW part \in Partitions,
           NEW k \in 1..Cardinality({part[u] : u \in Items})
    PROVE  /\ NewBatch(part, k) \in Batch
           /\ NewBatch(part, k).id = drawn.batch + k
           /\ NewBatch(part, k).items = [u \in Users |->
                 IF u \in Items /\ part[u] = k THEN Delta(u) ELSE Zero]
<1>1. k \in Nat \ {0}
  BY CountIsNat
<1>2. /\ drawn.batch \in Nat /\ drawn.source \in Nat /\ inst \in Nat /\ core.epoch \in Nat
      /\ db.source \in Nat /\ db.seq \in Nat \ {0}
  BY DEF TypeOK, LedgerInv, IdsDrawn
<1>3. Source \in Nat /\ FirstSeq \in Nat \ {0}
  BY <1>2 DEF Source, FirstSeq
<1> DEFINE items == [u \in Users |-> IF u \in Items /\ part[u] = k THEN Delta(u) ELSE Zero]
<1>4. items \in [Users -> Counter]
  <2>1. Zero \in Counter
    BY DEF Zero, Counter
  <2>2. \A u \in Users : Delta(u) \in Counter
    BY DeltaType
  <2> QED BY <2>1, <2>2, Zenon
<1>5. NewBatch(part, k) = [ id |-> drawn.batch + k, inst |-> inst, source |-> Source,
                            seq |-> FirstSeq + k - 1, core |-> core.epoch, items |-> items ]
  BY DEF NewBatch
<1> HIDE DEF items
<1>6. drawn.batch + k \in Nat /\ FirstSeq + k - 1 \in Nat
  BY <1>1, <1>2, <1>3
<1>7. NewBatch(part, k) \in Batch
  BY <1>2, <1>3, <1>4, <1>5, <1>6 DEF Batch
<1>8. NewBatch(part, k).id = drawn.batch + k /\ NewBatch(part, k).items = items
  BY <1>5
<1> QED BY <1>7, <1>8 DEF items

\* A sample records new batches, and in them the difference of every user once.
LEMMA NewBatchesSum ==
    ASSUME TypeOK, LedgerInv, NEW part \in Partitions
    PROVE  /\ New(part) \subseteq Batch
           /\ IsFiniteSet(New(part))
           /\ New(part) \cap Recorded = {}
           /\ \A u \in Users, d \in Dirs : SumOf(New(part), u, d) = Delta(u)[d]
<1> DEFINE count == Cardinality({part[u] : u \in Items})
           ks == 1..count
<1>1. count \in Nat
  BY CountIsNat
<1>2. {part[u] : u \in Items} = ks
  BY PartsAreNumbered
<1>3. \A k \in ks : /\ NewBatch(part, k) \in Batch
                    /\ NewBatch(part, k).id = drawn.batch + k
                    /\ NewBatch(part, k).items = [u \in Users |->
                          IF u \in Items /\ part[u] = k THEN Delta(u) ELSE Zero]
  BY NewBatchType
<1>4. New(part) = {NewBatch(part, k) : k \in ks}
  BY DEF New
<1> USE <1>4
<1> HIDE DEF count
<1>5. New(part) \subseteq Batch
  BY <1>3, Zenon
<1>6. IsFiniteSet(New(part))
  <2> DEFINE f == [k \in ks |-> NewBatch(part, k)]
  <2>1. f \in Surjection(ks, New(part))
    BY DEF Surjection
  <2>2. IsFiniteSet(ks)
    BY <1>1, FS_Interval
  <2> HIDE DEF f
  <2> QED BY <2>1, <2>2, FS_Surjection
<1>7. New(part) \cap Recorded = {}
  <2>1. \A b \in Recorded : b.id \in Nat /\ b.id <= drawn.batch /\ drawn.batch \in Nat
    BY DEF LedgerInv, IdsDrawn
  <2>2. \A b \in New(part) : \E k \in ks : b.id = drawn.batch + k
    BY <1>3, Zenon
  <2> QED BY <1>1, <2>1, <2>2
<1>8. ASSUME NEW u \in Users, NEW d \in Dirs
      PROVE  SumOf(New(part), u, d) = Delta(u)[d]
  <2> DEFINE f == [b \in New(part) |-> b.items[u][d]]
  <2>1. f \in [New(part) -> Nat]
    BY <1>5 DEF Batch, Counter
  <2>2. \A k \in ks : f[NewBatch(part, k)] = IF u \in Items /\ part[u] = k THEN Delta(u)[d] ELSE 0
    <3>1. SUFFICES ASSUME NEW k \in ks
                   PROVE  f[NewBatch(part, k)] =
                             IF u \in Items /\ part[u] = k THEN Delta(u)[d] ELSE 0
      BY Zenon
    <3>2. NewBatch(part, k) \in New(part)
      OBVIOUS
    <3>3. f[NewBatch(part, k)] = NewBatch(part, k).items[u][d]
      BY <3>2
    <3>4. NewBatch(part, k).items[u] = IF u \in Items /\ part[u] = k THEN Delta(u) ELSE Zero
      BY <1>3, Zenon
    <3>5. Zero[d] = 0
      BY DEF Zero
    <3> HIDE DEF f
    <3> QED BY <3>3, <3>4, <3>5
  <2>3. SumOf(New(part), u, d) = SumFunction(f)
    BY DEF SumOf
  <2> HIDE DEF f
  <2>4. CASE u \in Items
    <3>1. part[u] \in ks
      BY <1>2, <2>4
    <3> DEFINE x == NewBatch(part, part[u])
    <3>2. x \in New(part)
      BY <3>1
    <3>3. f[x] = Delta(u)[d]
      BY <2>2, <2>4, <3>1
    <3>4. \A b \in New(part) \ {x} : f[b] = 0
      BY <2>2, <3>1
    <3> HIDE DEF x
    <3>5. SumFunction(f) = f[x]
      BY <1>6, <2>1, <3>2, <3>4, SumOne
    <3> QED BY <2>3, <3>3, <3>5
  <2>5. CASE u \notin Items
    <3>1. Delta(u)[d] = 0
      BY <2>5 DEF Items, Zero
    <3>2. \A b \in New(part) : f[b] = 0
      BY <2>2, <2>5
    <3>3. SumFunction(f) = 0
      BY <1>6, <2>1, <3>2, SumZero
    <3> QED BY <2>3, <3>1, <3>3
  <2> QED BY <2>4, <2>5
<1> QED BY <1>5, <1>6, <1>7, <1>8

\* Recorded batches are batches, and finitely many.
LEMMA RecordedFinite ==
    ASSUME TypeOK, FiniteOK
    PROVE  Recorded \subseteq Batch /\ Ledger \subseteq Batch /\ IsFiniteSet(Recorded)
<1>1. Ledger \subseteq Batch /\ outbox \subseteq Batch
  BY DEF TypeOK, Ledger
<1>2. IsFiniteSet(outbox \cup Ledger)
  BY FS_Union, Zenon DEF FiniteOK
<1> QED BY <1>1, <1>2 DEF Recorded

\* What is fit to be a baseline of u when a sample is taken.
Fit(u, old) ==
    /\ old \in Baseline
    /\ old.core <= core.epoch
    /\ old.core = core.epoch => \A d \in Dirs : old.bytes[d] <= core.bytes[u][d]
    /\ core.named => old.core = core.epoch \/ old.bytes = Zero

\* A sample takes over the counters: nothing is left to be sampled.
LEMMA SampledBaselines ==
    ASSUME TypeOK, BaselinesOK, core' = core,
           NEW old \in [Users -> Baseline], \A u \in Users : Fit(u, old[u]),
           db'.init, db'.counterEpoch = CounterEpoch, db'.base = Baselines(old)
    PROVE  /\ db'.base \in [Users -> Baseline]
           /\ BaselinesOK'
           /\ \A u \in Users, d \in Dirs : Unsampled(u, d)' = 0
<1>1. CounterEpoch \in Nat /\ core.epoch \in Nat /\ CounterEpoch <= core.epoch
      /\ (core.named => CounterEpoch = core.epoch)
  BY DEF TypeOK, CounterEpoch
<1> USE <1>1
<1>2. ASSUME NEW u \in Users
      PROVE  /\ db'.base[u] \in Baseline
             /\ BaselineOK(u)'
             /\ \A d \in Dirs : Unsampled(u, d)' = 0
  <2> DEFINE new == [core |-> core.epoch, bytes |-> core.bytes[u]]
             base == db'.base[u]
  <2>1. base = IF u \in Listed THEN new ELSE old[u]
    BY DEF Baselines
  <2>2. core.bytes[u] \in Counter /\ \A d \in Dirs : core.bytes[u][d] \in Nat
    BY DEF TypeOK, Counter
  <2>3. new \in Baseline /\ new.core = core.epoch /\ new.bytes = core.bytes[u]
    BY <2>2 DEF Baseline
  <2>4. Fit(u, old[u])
    OBVIOUS
  <2>5. /\ base \in Baseline /\ base.core <= core.epoch
        /\ base.core = core.epoch => \A d \in Dirs : base.bytes[d] <= core.bytes[u][d]
        /\ core.named => base.core = core.epoch \/ base.bytes = Zero
        /\ u \in Listed => base.core = core.epoch /\ base.bytes = core.bytes[u]
    <3> HIDE DEF new, base
    <3>1. CASE u \in Listed
      <4>1. base \in Baseline /\ base.core = core.epoch /\ base.bytes = core.bytes[u]
        BY <2>1, <2>3, <3>1
      <4> QED BY <2>2, <4>1
    <3>2. CASE u \notin Listed
      <4>1. base = old[u]
        BY <2>1, <3>2
      <4> QED BY <2>4, <3>2, <4>1 DEF Fit
    <3> QED BY <3>1, <3>2
  <2> HIDE DEF base, new
  <2>6. BaselineOK(u)'
    BY <2>5 DEF BaselineOK, base
  <2>7. ASSUME NEW d \in Dirs PROVE Unsampled(u, d)' = 0
    <3>1. Unsampled(u, d)' = core.bytes[u][d] - (IF base.core = core.epoch THEN base.bytes ELSE Zero)[d]
      BY DEF Unsampled, Seen, base
    <3>2. Zero[d] = 0 /\ core.bytes[u][d] \in Nat /\ base.bytes[d] \in Nat
      BY <2>2, <2>5 DEF Zero, Baseline, Counter
    <3>3. CASE u \in Listed
      BY <2>5, <3>1, <3>2, <3>3
    <3>4. CASE u \notin Listed
      <4>1. core.bytes[u][d] = 0
        BY <3>2, <3>4 DEF Listed
      <4> QED BY <2>5, <3>1, <3>2, <4>1
    <3> QED BY <3>3, <3>4
  <2> QED BY <2>5, <2>6, <2>7 DEF base
<1>3. db'.base \in [Users -> Baseline]
  <2>1. db'.base = [u \in Users |-> db'.base[u]]
    BY DEF Baselines
  <2> QED BY <1>2, <2>1
<1>4. BaselinesOK'
  BY <1>2 DEF BaselinesOK
<1> QED BY <1>2, <1>3, <1>4

\* The ledger's part of the invariant depends on the ledger alone.
LEMMA SameLedger ==
    ASSUME TotalsMatchLedger, UNCHANGED ledgerVars
    PROVE  TotalsMatchLedger'
BY Zenon DEF TotalsMatchLedger, ledgerVars, Ledger, SumOf

\* recordTrafficSample, first call.
LEMMA SampleFirstAccount ==
    ASSUME TypeOK, LedgerInv, FiniteOK, BaselinesOK, BalancedOK, TotalsMatchLedger,
           SampleFirst
    PROVE  TypeOK' /\ FiniteOK' /\ BaselinesOK' /\ BalancedOK' /\ TotalsMatchLedger'
<1>1. /\ ~db.init
      /\ db' = [db EXCEPT !.init = TRUE, !.base = Baselines(db.base),
                          !.counterEpoch = CounterEpoch]
      /\ missed' = [u \in Users |-> Plus(missed[u], core.bytes[u])]
      /\ UNCHANGED <<core, carried, outbox, drawn, inst, posts, rows, total, nodeTotal,
                     unattributed, userState, budget>>
  BY DEF SampleFirst, ledgerVars
<1> USE <1>1
<1>2. /\ db'.init /\ db'.counterEpoch = CounterEpoch /\ db'.base = Baselines(db.base)
      /\ db' \in [ source : {db.source}, seq : {db.seq}, init : {TRUE},
                   counterEpoch : {CounterEpoch}, base : {Baselines(db.base)} ]
  BY Zenon DEF TypeOK
<1>3. db.base \in [Users -> Baseline] /\ \A u \in Users : Fit(u, db.base[u])
  BY DEF TypeOK, BaselinesOK, BaselineOK, Fit
<1>4. /\ db'.base \in [Users -> Baseline] /\ BaselinesOK'
      /\ \A u \in Users, d \in Dirs : Unsampled(u, d)' = 0
  BY <1>2, <1>3, SampledBaselines
<1>5. Ledger' = Ledger /\ Recorded' = Recorded
  BY DEF Ledger, Recorded
<1>6. FiniteOK'
  BY <1>5 DEF FiniteOK
<1>7. TotalsMatchLedger'
  BY SameLedger DEF ledgerVars
<1>8. ASSUME NEW u \in Users
      PROVE  /\ missed'[u] \in Counter
             /\ \A d \in Dirs : missed'[u][d] = missed[u][d] + core.bytes[u][d]
  BY DEF TypeOK, Plus, Counter
<1>9. TypeOK'
  <2>1. missed' \in [Users -> Counter]
    BY <1>8
  <2>2. CounterEpoch \in Nat
    BY DEF TypeOK, CounterEpoch
  <2>3. db' \in [ source : Nat, seq : Nat, init : BOOLEAN, counterEpoch : Nat,
                  base : [Users -> Baseline] ]
    BY <1>2, <1>4, <2>2, Zenon DEF TypeOK
  <2> QED BY <2>1, <2>3 DEF TypeOK
<1>10. ASSUME NEW u \in Users, NEW d \in Dirs PROVE Balanced(u, d)'
  <2>1. Unsampled(u, d) = core.bytes[u][d]
    BY DEF Unsampled, Seen, Zero, TypeOK, Counter
  <2>2. missed'[u][d] = missed[u][d] + core.bytes[u][d] /\ Unsampled(u, d)' = 0
    BY <1>4, <1>8
  <2>3. core.bytes[u][d] \in Nat /\ missed[u][d] \in Nat /\ carried[u][d] \in Nat
    BY DEF TypeOK, Counter
  <2>4. SumOf(Recorded, u, d) \in Nat
    BY RecordedFinite, SumOfNat
  <2>5. SumOf(Recorded, u, d)' = SumOf(Recorded, u, d)
    BY <1>5 DEF SumOf
  <2>6. Balanced(u, d)
    BY DEF BalancedOK
  <2> QED BY <2>1, <2>2, <2>3, <2>4, <2>5, <2>6 DEF Balanced
<1> QED BY <1>4, <1>6, <1>7, <1>9, <1>10 DEF BalancedOK

\* recordTrafficSample: what it records for a user is what it stops counting
\* as not sampled.
LEMMA SampleAccount ==
    ASSUME TypeOK, LedgerInv, FiniteOK, BaselinesOK, BalancedOK, TotalsMatchLedger,
           Sample
    PROVE  TypeOK' /\ FiniteOK' /\ BaselinesOK' /\ BalancedOK' /\ TotalsMatchLedger'
<1>1. PICK part \in Partitions : SampleWith(part)
  BY DEF Sample
<1> DEFINE count == Cardinality({part[u] : u \in Items})
<1>2. /\ db.init
      /\ outbox' = outbox \cup New(part)
      /\ drawn' = [batch |-> drawn.batch + count,
                   source |-> IF Rotated THEN drawn.source + 1 ELSE drawn.source]
      /\ db' = [db EXCEPT !.source = Source, !.seq = FirstSeq + count,
                          !.counterEpoch = CounterEpoch, !.base = Baselines(OldBase)]
      /\ UNCHANGED <<core, carried, missed, inst, posts, rows, total, nodeTotal,
                     unattributed, userState, budget>>
  BY <1>1, Zenon DEF Sample, SampleWith, New, coreVars, ledgerVars
<1> USE <1>2
<1>3. count \in Nat
  BY CountIsNat
<1> HIDE DEF count
<1>4. /\ db'.init /\ db'.counterEpoch = CounterEpoch /\ db'.base = Baselines(OldBase)
      /\ db' \in [ source : {Source}, seq : {FirstSeq + count}, init : {TRUE},
                   counterEpoch : {CounterEpoch}, base : {Baselines(OldBase)} ]
  BY Zenon DEF TypeOK
<1>5. OldBase \in [Users -> Baseline] /\ \A u \in Users : Fit(u, OldBase[u])
  <2>1. db.base \in [Users -> Baseline] /\ core.epoch \in Nat
    BY DEF TypeOK
  <2>2. /\ NoBaseline \in Baseline /\ NoBaseline.core = 0 /\ NoBaseline.bytes = Zero
        /\ \A d \in Dirs : Zero[d] = 0
    BY DEF NoBaseline, Baseline, Counter, Zero
  <2>3. CASE NewCounterEpoch
    <3>1. OldBase = [u \in Users |-> NoBaseline]
      BY <2>3 DEF OldBase
    <3>2. ASSUME NEW u \in Users PROVE Fit(u, NoBaseline)
      <4>1. \A d \in Dirs : core.bytes[u][d] \in Nat
        BY DEF TypeOK, Counter
      <4> QED BY <2>1, <2>2, <4>1 DEF Fit
    <3> QED BY <2>2, <3>1, <3>2
  <2>4. CASE ~NewCounterEpoch
    <3>1. OldBase = db.base /\ (core.named => db.counterEpoch = core.epoch)
      BY <2>4 DEF OldBase, NewCounterEpoch
    <3> QED BY <2>1, <3>1 DEF Fit, BaselinesOK, BaselineOK
  <2> QED BY <2>3, <2>4
<1>6. /\ db'.base \in [Users -> Baseline] /\ BaselinesOK'
      /\ \A u \in Users, d \in Dirs : Unsampled(u, d)' = 0
  BY <1>4, <1>5, SampledBaselines
<1>7. /\ New(part) \subseteq Batch
      /\ IsFiniteSet(New(part))
      /\ New(part) \cap Recorded = {}
      /\ \A u \in Users, d \in Dirs : SumOf(New(part), u, d) = Delta(u)[d]
  BY NewBatchesSum
<1>8. Ledger' = Ledger /\ Recorded' = Recorded \cup New(part)
  BY DEF Ledger, Recorded
<1>9. FiniteOK'
  <2>1. IsFiniteSet(outbox')
    BY <1>7, FS_Union, Zenon DEF FiniteOK
  <2> QED BY <1>8, <2>1 DEF FiniteOK
<1>10. TotalsMatchLedger'
  BY SameLedger DEF ledgerVars
<1>11. TypeOK'
  <2>1. outbox' \subseteq Batch
    BY <1>7 DEF TypeOK
  <2>2. drawn' \in [batch : Nat, source : Nat]
    <3>1. drawn.batch \in Nat /\ drawn.source \in Nat
      BY DEF TypeOK
    <3>2. drawn.batch + count \in Nat
          /\ (IF Rotated THEN drawn.source + 1 ELSE drawn.source) \in Nat
      BY <1>3, <3>1
    <3> QED BY <3>2
  <2>3. db' \in [ source : Nat, seq : Nat, init : BOOLEAN, counterEpoch : Nat,
                  base : [Users -> Baseline] ]
    <3>1. drawn.source \in Nat /\ db.source \in Nat /\ db.seq \in Nat /\ core.epoch \in Nat
      BY DEF TypeOK
    <3>2. Source \in Nat /\ FirstSeq + count \in Nat /\ CounterEpoch \in Nat
      BY <1>3, <3>1 DEF Source, FirstSeq, CounterEpoch
    <3> QED BY <1>4, <1>6, <3>2, Zenon
  <2> QED BY <2>1, <2>2, <2>3 DEF TypeOK
<1>12. ASSUME NEW u \in Users, NEW d \in Dirs PROVE Balanced(u, d)'
  <2>1. /\ Unsampled(u, d) \in Nat
        /\ Delta(u)[d] <= Unsampled(u, d)
        /\ core.named => Delta(u)[d] = Unsampled(u, d)
    BY DeltaIsUnsampled
  <2>2. Unsampled(u, d)' = 0
    BY <1>6
  <2>3. missed[u][d] \in Nat /\ carried[u][d] \in Nat /\ Delta(u)[d] \in Nat
    BY DeltaType DEF TypeOK, Counter
  <2>4. SumOf(Recorded, u, d) \in Nat
    BY RecordedFinite, SumOfNat
  <2>5. SumOf(Recorded \cup New(part), u, d) = SumOf(Recorded, u, d) + SumOf(New(part), u, d)
    BY <1>7, RecordedFinite, SumOfUnion
  <2>6. SumOf(Recorded, u, d)' = SumOf(Recorded, u, d) + Delta(u)[d]
    BY <1>7, <1>8, <2>5 DEF SumOf
  <2>7. Balanced(u, d)
    BY DEF BalancedOK
  <2> QED BY <2>1, <2>2, <2>3, <2>4, <2>6, <2>7 DEF Balanced
<1> QED BY <1>6, <1>9, <1>10, <1>11, <1>12 DEF BalancedOK

\* A byte that goes through is at first not sampled.
LEMMA CarryAccount ==
    ASSUME TypeOK, LedgerInv, FiniteOK, BaselinesOK, BalancedOK, TotalsMatchLedger,
           NEW u \in Users, NEW d \in Dirs, Carry(u, d)
    PROVE  TypeOK' /\ FiniteOK' /\ BaselinesOK' /\ BalancedOK' /\ TotalsMatchLedger'
<1>1. /\ core' = [core EXCEPT !.bytes[u][d] = @ + 1]
      /\ carried' = [carried EXCEPT ![u][d] = @ + 1]
      /\ UNCHANGED <<missed, db, outbox, drawn, inst, posts, rows, total, nodeTotal,
                     unattributed, userState, budget>>
  BY DEF Carry, agentVars, ledgerVars
<1> USE <1>1
<1>2. /\ core'.named = core.named /\ core'.epoch = core.epoch
      /\ core'.bytes = [core.bytes EXCEPT ![u][d] = @ + 1]
      /\ core' \in [named : {core.named}, epoch : {core.epoch}, bytes : {core'.bytes}]
  BY DEF TypeOK
<1> USE <1>2
<1>3. core.bytes \in [Users -> Counter] /\ carried \in [Users -> Counter]
  BY DEF TypeOK
<1>4. /\ core'.bytes \in [Users -> Counter]
      /\ \A v \in Users, e \in Dirs : core'.bytes[v][e] =
            IF v = u /\ e = d THEN core.bytes[v][e] + 1 ELSE core.bytes[v][e]
  <2> DEFINE f == core.bytes
             g == core'.bytes
  <2>1. f \in [Users -> Counter] /\ g = [f EXCEPT ![u][d] = @ + 1]
    BY <1>3
  <2> HIDE DEF f, g
  <2>2. /\ g \in [Users -> Counter]
        /\ \A v \in Users, e \in Dirs :
              g[v][e] = IF v = u /\ e = d THEN f[v][e] + 1 ELSE f[v][e]
    BY <2>1 DEF Counter
  <2> QED BY <2>2 DEF f, g
<1>5. /\ carried' \in [Users -> Counter]
      /\ \A v \in Users, e \in Dirs : carried'[v][e] =
            IF v = u /\ e = d THEN carried[v][e] + 1 ELSE carried[v][e]
  BY <1>3 DEF Counter
<1>6. TypeOK'
  <2>1. core' \in [named : BOOLEAN, epoch : Nat, bytes : [Users -> Counter]]
    BY <1>4, Zenon DEF TypeOK
  <2> QED BY <1>5, <2>1, Zenon DEF TypeOK
<1>7. Ledger' = Ledger /\ Recorded' = Recorded
  BY DEF Ledger, Recorded
<1>8. FiniteOK'
  BY <1>7 DEF FiniteOK
<1>9. TotalsMatchLedger'
  BY SameLedger DEF ledgerVars
<1>10. BaselinesOK'
  <2>1. ASSUME NEW v \in Users PROVE BaselineOK(v)'
    <3>1. BaselineOK(v)
      BY DEF BaselinesOK
    <3>2. \A e \in Dirs : db.base[v].bytes[e] \in Nat /\ core.bytes[v][e] \in Nat
      BY DEF TypeOK, Baseline, Counter
    <3>3. \A e \in Dirs : db.base[v].bytes[e] <= core.bytes[v][e]
                          => db.base[v].bytes[e] <= core'.bytes[v][e]
      BY <1>4, <3>2
    <3> QED BY <3>1, <3>3 DEF BaselineOK
  <2> QED BY <2>1 DEF BaselinesOK
<1>11. ASSUME NEW v \in Users, NEW e \in Dirs PROVE Balanced(v, e)'
  <2>1. Seen(v)' = Seen(v)
    BY DEF Seen
  <2>2. missed[v][e] \in Nat /\ carried[v][e] \in Nat /\ core.bytes[v][e] \in Nat
        /\ Seen(v)[e] \in Nat
    BY DEF TypeOK, Baseline, Counter, Seen, Zero
  <2>3. SumOf(Recorded, v, e) \in Nat
    BY RecordedFinite, SumOfNat
  <2>4. SumOf(Recorded, v, e)' = SumOf(Recorded, v, e)
    BY <1>7 DEF SumOf
  <2>5. Unsampled(v, e)' = core'.bytes[v][e] - Seen(v)[e]
    BY <2>1 DEF Unsampled
  <2>6. Unsampled(v, e) = core.bytes[v][e] - Seen(v)[e]
    BY DEF Unsampled
  <2>7. Balanced(v, e)
    BY DEF BalancedOK
  <2>8. missed' = missed
    OBVIOUS
  <2>9. Unsampled(v, e)' - Unsampled(v, e) = carried'[v][e] - carried[v][e]
        /\ Unsampled(v, e) \in Int /\ Unsampled(v, e)' \in Int /\ carried'[v][e] \in Nat
    <3>1. CASE v = u /\ e = d
      <4>1. core'.bytes[v][e] = core.bytes[v][e] + 1 /\ carried'[v][e] = carried[v][e] + 1
        BY <1>4, <1>5, <3>1
      <4> QED BY <2>2, <2>5, <2>6, <4>1
    <3>2. CASE ~(v = u /\ e = d)
      <4>1. core'.bytes[v][e] = core.bytes[v][e] /\ carried'[v][e] = carried[v][e]
        BY <1>4, <1>5, <3>2
      <4> QED BY <2>2, <2>5, <2>6, <4>1
    <3> QED BY <3>1, <3>2
  <2> QED BY <2>2, <2>3, <2>4, <2>7, <2>8, <2>9 DEF Balanced
<1> QED BY <1>6, <1>8, <1>9, <1>10, <1>11 DEF BalancedOK

\* What was not sampled is missed when the core restarts.
LEMMA RestartAccount ==
    ASSUME TypeOK, LedgerInv, FiniteOK, BaselinesOK, BalancedOK, TotalsMatchLedger,
           RestartCore
    PROVE  TypeOK' /\ FiniteOK' /\ BaselinesOK' /\ BalancedOK' /\ TotalsMatchLedger'
<1>1. /\ core' = [core EXCEPT !.epoch = @ + 1, !.bytes = [u \in Users |-> Zero]]
      /\ missed' = [u \in Users |-> Plus(missed[u], Minus(core.bytes[u], Seen(u)))]
      /\ UNCHANGED <<carried, db, outbox, drawn, inst, posts, rows, total, nodeTotal,
                     unattributed, userState, budget>>
  BY DEF RestartCore, agentVars, ledgerVars
<1> USE <1>1
<1>2. /\ core'.named = core.named /\ core'.epoch = core.epoch + 1
      /\ core'.bytes = [u \in Users |-> Zero]
      /\ core' \in [named : {core.named}, epoch : {core.epoch + 1},
                    bytes : {[u \in Users |-> Zero]}]
  BY Zenon DEF TypeOK
<1> USE <1>2
<1>3. ASSUME NEW u \in Users, NEW d \in Dirs
      PROVE  /\ Unsampled(u, d) \in Nat /\ missed[u][d] \in Nat
             /\ missed'[u][d] = missed[u][d] + Unsampled(u, d)
  <2>1. /\ core.bytes[u][d] \in Nat /\ db.base[u].bytes[d] \in Nat /\ Zero[d] = 0
        /\ missed[u][d] \in Nat
    BY DEF TypeOK, Baseline, Counter, Zero
  <2>2. db.base[u].core = core.epoch => db.base[u].bytes[d] <= core.bytes[u][d]
    BY DEF BaselinesOK, BaselineOK
  <2>3. Seen(u)[d] \in Nat /\ Seen(u)[d] <= core.bytes[u][d]
    BY <2>1, <2>2 DEF Seen
  <2>4. missed'[u][d] = missed[u][d] + (core.bytes[u][d] - Seen(u)[d])
    BY DEF Plus, Minus
  <2> QED BY <2>1, <2>3, <2>4 DEF Unsampled
<1>4. TypeOK'
  <2>1. missed' \in [Users -> Counter]
    <3>1. \A u \in Users : missed'[u] = [d \in Dirs |-> missed'[u][d]]
      BY DEF Plus
    <3>2. ASSUME NEW u \in Users PROVE missed'[u] \in Counter
      <4>1. \A d \in Dirs : missed'[u][d] \in Nat
        BY <1>3
      <4> QED BY <3>1, <4>1, Zenon DEF Counter
    <3> QED BY <3>2
  <2>2. Zero \in Counter /\ core.epoch + 1 \in Nat
    BY DEF Zero, Counter, TypeOK
  <2>3. core' \in [named : BOOLEAN, epoch : Nat, bytes : [Users -> Counter]]
    BY <2>2 DEF TypeOK
  <2> QED BY <2>1, <2>3 DEF TypeOK
<1>5. Ledger' = Ledger /\ Recorded' = Recorded
  BY DEF Ledger, Recorded
<1>6. FiniteOK'
  BY <1>5 DEF FiniteOK
<1>7. TotalsMatchLedger'
  BY SameLedger DEF ledgerVars
<1>8. /\ db.counterEpoch \in Nat /\ core.epoch \in Nat /\ db.counterEpoch <= core.epoch
      /\ \A u \in Users : db.base[u].core \in Nat /\ db.base[u].core <= core.epoch
  BY DEF TypeOK, Baseline, BaselinesOK, BaselineOK
<1>9. BaselinesOK'
  <2>1. ASSUME NEW u \in Users PROVE BaselineOK(u)'
    <3>1. /\ db.base[u].core <= core'.epoch /\ db.base[u].core # core'.epoch
          /\ db.counterEpoch # core'.epoch
      BY <1>8
    <3>2. ~db.init => db.base[u].bytes = Zero
      BY DEF BaselinesOK, BaselineOK
    <3> QED BY <3>1, <3>2 DEF BaselineOK
  <2> QED BY <1>8, <2>1 DEF BaselinesOK
<1>10. ASSUME NEW u \in Users, NEW d \in Dirs PROVE Balanced(u, d)'
  <2>1. db.base[u].core # core'.epoch
    BY <1>8
  <2>2. Seen(u)' = Zero
    BY <2>1 DEF Seen
  <2>3. Unsampled(u, d)' = 0
    BY <2>2 DEF Unsampled, Zero
  <2>4. SumOf(Recorded, u, d) \in Nat
    BY RecordedFinite, SumOfNat
  <2>5. SumOf(Recorded, u, d)' = SumOf(Recorded, u, d)
    BY <1>5 DEF SumOf
  <2>6. Balanced(u, d)
    BY DEF BalancedOK
  <2>7. carried[u][d] \in Nat /\ carried' = carried
    BY DEF TypeOK, Counter
  <2> QED BY <1>3, <2>3, <2>4, <2>5, <2>6, <2>7 DEF Balanced
<1> QED BY <1>4, <1>6, <1>7, <1>9, <1>10 DEF BalancedOK

\* One more batch adds its item.
LEMMA SumOfAdd ==
    ASSUME NEW S, S \subseteq Batch, IsFiniteSet(S), NEW b \in Batch, b \notin S,
           NEW u \in Users, NEW d \in Dirs
    PROVE  SumOf(S \cup {b}, u, d) = SumOf(S, u, d) + b.items[u][d]
<1>1. {b} \subseteq Batch /\ IsFiniteSet({b}) /\ S \cap {b} = {}
  BY FS_Singleton, Zenon
<1>2. SumOf(S \cup {b}, u, d) = SumOf(S, u, d) + SumOf({b}, u, d)
  BY <1>1, SumOfUnion
<1> DEFINE f == [c \in {b} |-> c.items[u][d]]
<1>3. f \in [{b} -> Nat] /\ b \in {b} /\ f[b] = b.items[u][d] /\ \A y \in {b} \ {b} : f[y] = 0
  BY DEF Batch, Counter
<1>4. SumOf({b}, u, d) = SumFunction(f)
  BY DEF SumOf
<1> HIDE DEF f
<1>5. SumFunction(f) = f[b]
  BY <1>1, <1>3, SumOne
<1> QED BY <1>2, <1>3, <1>4, <1>5

\* The bytes of a batch are those accounted and those not attributed.
LEMMA BatchSplits ==
    ASSUME NEW items \in [Users -> Counter], NEW disp \in [Users -> Dispositions],
           \A u \in Users : disp[u] = "none" => items[u] = Zero
    PROVE  LET V == {v \in Users : disp[v] \in {"unassigned", "archived_user"}}
               accounted == [u \in Users |-> IF disp[u] = "accounted" THEN Bytes(items[u]) ELSE 0]
           IN  /\ accounted \in [Users -> Nat]
               /\ SumFunction(accounted) \in Nat
               /\ SumFunction([u \in V |-> Bytes(items[u])]) \in Nat
               /\ SumFunction([u \in Users |-> items[u]["tx"]])
                     + SumFunction([u \in Users |-> items[u]["rx"]])
                  = SumFunction(accounted) + SumFunction([u \in V |-> Bytes(items[u])])
<1> DEFINE V == {v \in Users : disp[v] \in {"unassigned", "archived_user"}}
           W == Users \ V
           acc == [u \in Users |-> IF disp[u] = "accounted" THEN Bytes(items[u]) ELSE 0]
           una == [u \in V |-> Bytes(items[u])]
           not == [u \in Users |-> IF u \in V THEN Bytes(items[u]) ELSE 0]
           rest == [u \in W |-> 0]
           tx == [u \in Users |-> items[u]["tx"]]
           rx == [u \in Users |-> items[u]["rx"]]
           all == [u \in Users |-> Bytes(items[u])]
<1>1. \A u \in Users : items[u]["tx"] \in Nat /\ items[u]["rx"] \in Nat
  BY DEF Counter, Dirs
<1>2. \A u \in Users : Bytes(items[u]) \in Nat /\ Bytes(items[u]) = items[u]["tx"] + items[u]["rx"]
  BY <1>1 DEF Bytes
<1>3. /\ acc \in [Users -> Nat] /\ una \in [V -> Nat] /\ not \in [Users -> Nat]
      /\ rest \in [W -> Nat] /\ tx \in [Users -> Nat] /\ rx \in [Users -> Nat]
      /\ all \in [Users -> Nat]
  BY <1>1, <1>2
<1> USE <1>3
<1>4. IsFiniteSet(Users) /\ IsFiniteSet(V) /\ IsFiniteSet(W)
  BY TrafficAssumption, FS_Subset
<1> USE <1>4
<1>5. V \cup W = Users /\ V \cap W = {}
  OBVIOUS
<1>6. \A u \in Users : all[u] = tx[u] + rx[u]
  BY <1>2
<1>7. \A u \in Users : all[u] = acc[u] + not[u]
  <2>1. SUFFICES ASSUME NEW u \in Users
                 PROVE  all[u] = acc[u] + not[u]
    OBVIOUS
  <2>2. disp[u] \in Dispositions
    OBVIOUS
  <2>3. disp[u] = "none" => Bytes(items[u]) = 0
    BY DEF Bytes, Zero, Dirs
  <2> QED BY <1>2, <2>2, <2>3 DEF Dispositions
<1>8. /\ \A u \in V : una[u] = not[u]
      /\ \A u \in W : rest[u] = not[u]
      /\ \A u \in W : rest[u] = 0
  OBVIOUS
<1> HIDE DEF V, W, acc, una, not, rest, tx, rx, all
<1>9. SumFunction(all) = SumFunction(tx) + SumFunction(rx)
  BY <1>6, SumPlus
<1>10. SumFunction(all) = SumFunction(acc) + SumFunction(not)
  BY <1>7, SumPlus
<1>11. not \in [V \cup W -> Nat]
  BY <1>5
<1>12. SumFunction(not) = SumFunction(una) + SumFunction(rest)
  BY <1>5, <1>8, <1>11, SumSplit
<1>13. SumFunction(rest) = 0
  BY <1>8, SumZero
<1>14. SumFunction(una) \in Nat /\ SumFunction(acc) \in Nat
  BY SumNat
<1>15. SumFunction(tx) + SumFunction(rx) = SumFunction(acc) + SumFunction(una)
  BY <1>9, <1>10, <1>12, <1>13, <1>14
<1> QED BY <1>14, <1>15, Zenon DEF V, acc, una, tx, rx

\* The disposition of an item.
LEMMA DispositionType ==
    ASSUME NEW b, NEW u \in Users
    PROVE  /\ Disposition(b, u) \in Dispositions
           /\ Disposition(b, u) = "none" => b.items[u] = Zero
BY DEF Disposition, Dispositions

\* A transaction of IngestTrafficBatch: rows and totals.
Accounts(b, disp, row) ==
    /\ disp = [u \in Users |-> Disposition(b, u)]
    /\ row = [batch |-> b, disp |-> disp]
    /\ rows' = rows \cup {row}
    /\ total' = [u \in Users |-> IF disp[u] = "accounted" THEN Plus(total[u], b.items[u])
                                 ELSE total[u]]
    /\ nodeTotal' = [d \in Dirs |->
          nodeTotal[d] + SumFunction([u \in Users |-> b.items[u][d]])]
    /\ unattributed' = unattributed +
          SumFunction([u \in {v \in Users : disp[v] \in {"unassigned", "archived_user"}}
                          |-> Bytes(b.items[u])])

\* What Account does, with its local definitions as parameters.
LEMMA AccountAccounts ==
    ASSUME NEW b, Account(b)
    PROVE  LET disp == [u \in Users |-> Disposition(b, u)]
           IN  Accounts(b, disp, [batch |-> b, disp |-> disp])
BY DEF Account, Accounts

\* The row is new, and so is its batch in the ledger.
LEMMA AccountRows ==
    ASSUME TypeOK, FiniteOK, NEW b \in Batch, b \notin Ledger,
           NEW disp, NEW row, Accounts(b, disp, row)
    PROVE  /\ disp \in [Users -> Dispositions]
           /\ row \notin rows /\ row.batch = b /\ row.disp = disp
           /\ rows' \subseteq [batch : Batch, disp : [Users -> Dispositions]]
           /\ Ledger' = Ledger \cup {b}
           /\ IsFiniteSet(rows') /\ IsFiniteSet(Ledger')
<1>1. disp = [u \in Users |-> Disposition(b, u)] /\ row = [batch |-> b, disp |-> disp]
      /\ rows' = rows \cup {row}
  BY DEF Accounts
<1> USE <1>1
<1>2. disp \in [Users -> Dispositions]
  BY DispositionType
<1>3. row.batch = b /\ row.disp = disp /\ row \in [batch : Batch, disp : [Users -> Dispositions]]
  BY <1>2
<1> USE <1>3
<1>4. row \notin rows
  BY DEF Ledger
<1>5. Ledger' = Ledger \cup {b}
  BY DEF Ledger
<1>6. rows' \subseteq [batch : Batch, disp : [Users -> Dispositions]]
  BY DEF TypeOK
<1>7. IsFiniteSet(rows')
  BY FS_AddElement DEF FiniteOK
<1>8. IsFiniteSet(Ledger \cup {b})
  BY FS_AddElement DEF FiniteOK
<1> QED BY <1>2, <1>4, <1>5, <1>6, <1>7, <1>8

\* The totals of users are those of their rows.
LEMMA AccountUsers ==
    ASSUME TypeOK, FiniteOK, TotalsMatchLedger, NEW b \in Batch, b \notin Ledger,
           NEW disp, NEW row, Accounts(b, disp, row),
           NEW u \in Users, NEW d \in Dirs
    PROVE  total'[u][d] = SumFunction([r \in {q \in rows' : q.disp[u] = "accounted"}
                                          |-> r.batch.items[u][d]])
<1> DEFINE X == {q \in rows : q.disp[u] = "accounted"}
           Y == {q \in rows' : q.disp[u] = "accounted"}
           e == [r \in X |-> r.batch.items[u][d]]
           f == [r \in Y |-> r.batch.items[u][d]]
<1>1. /\ row \notin rows /\ row.batch = b /\ row.disp = disp
      /\ rows' \subseteq [batch : Batch, disp : [Users -> Dispositions]]
      /\ IsFiniteSet(rows')
  BY AccountRows
<1> USE <1>1
<1>2. /\ rows' = rows \cup {row}
      /\ total'[u] = IF disp[u] = "accounted" THEN Plus(total[u], b.items[u]) ELSE total[u]
  BY DEF Accounts
<1> USE <1>2
<1>3. total[u][d] = SumFunction(e)
  BY DEF TotalsMatchLedger
<1>4. IsFiniteSet(Y)
  BY FS_Subset
<1>5. ASSUME NEW r \in rows' PROVE r.batch.items[u][d] \in Nat
  <2>1. r.batch \in Batch
    OBVIOUS
  <2> QED BY <2>1 DEF Batch, Counter
<1>6. f \in [Y -> Nat]
  BY <1>5
<1>7. CASE disp[u] = "accounted"
  <2>1. row \in Y /\ Y \ {row} = X
    BY <1>7
  <2>2. e \in [X -> Nat] /\ \A r \in X : e[r] = f[r]
    BY <1>5
  <2>3. f[row] = b.items[u][d]
    BY <2>1
  <2>4. total'[u][d] = total[u][d] + b.items[u][d]
    BY <1>7 DEF Plus
  <2> HIDE <1>1, <1>2
  <2>5. total[u][d] \in Nat /\ b.items[u][d] \in Nat
    BY DEF TypeOK, Batch, Counter
  <2> HIDE DEF X, Y, e, f
  <2>6. SumFunction(f) = f[row] + SumFunction(e)
    BY <1>4, <1>6, <2>1, <2>2, SumRemove
  <2>7. total'[u][d] = SumFunction(f)
    BY <1>3, <2>3, <2>4, <2>5, <2>6
  <2> QED BY <2>7 DEF f, Y
<1>8. CASE disp[u] # "accounted"
  <2>1. Y = X
    BY <1>8
  <2>2. f = e
    BY <2>1
  <2> HIDE DEF X, Y, e, f
  <2>3. total'[u][d] = SumFunction(f)
    BY <1>3, <1>8, <2>2
  <2> QED BY <2>3 DEF f, Y
<1> QED BY <1>7, <1>8

\* The totals of the node are those of the ledger.
LEMMA AccountNode ==
    ASSUME TypeOK, FiniteOK, TotalsMatchLedger, NEW b \in Batch, b \notin Ledger,
           NEW disp, NEW row, Accounts(b, disp, row), NEW d \in Dirs
    PROVE  nodeTotal'[d] = SumFunction([u \in Users |-> SumOf(Ledger', u, d)])
<1> DEFINE f == [u \in Users |-> SumOf(Ledger, u, d)]
           e == [u \in Users |-> b.items[u][d]]
           k == [u \in Users |-> SumOf(Ledger \cup {b}, u, d)]
<1>1. Ledger' = Ledger \cup {b}
  BY AccountRows
<1>2. Ledger \subseteq Batch /\ IsFiniteSet(Ledger) /\ IsFiniteSet(Users)
  BY RecordedFinite, TrafficAssumption DEF FiniteOK
<1>3. \A u \in Users : /\ SumOf(Ledger, u, d) \in Nat /\ b.items[u][d] \in Nat
                       /\ SumOf(Ledger \cup {b}, u, d) = SumOf(Ledger, u, d) + b.items[u][d]
  BY <1>2, SumOfNat, SumOfAdd DEF Batch, Counter
<1>4. /\ f \in [Users -> Nat] /\ e \in [Users -> Nat] /\ k \in [Users -> Nat]
      /\ \A u \in Users : k[u] = f[u] + e[u]
  <2>1. \A u \in Users : /\ f[u] = SumOf(Ledger, u, d) /\ e[u] = b.items[u][d]
                         /\ k[u] = SumOf(Ledger \cup {b}, u, d)
    OBVIOUS
  <2>2. f = [u \in Users |-> f[u]] /\ e = [u \in Users |-> e[u]] /\ k = [u \in Users |-> k[u]]
    OBVIOUS
  <2> HIDE DEF f, e, k
  <2>3. \A u \in Users : f[u] \in Nat /\ e[u] \in Nat /\ k[u] = f[u] + e[u]
    BY <1>3, <2>1, Zenon
  <2>4. \A u \in Users : k[u] \in Nat
    BY <2>3
  <2> QED BY <2>2, <2>3, <2>4
<1>5. nodeTotal[d] = SumFunction(f)
  BY DEF TotalsMatchLedger
<1>6. nodeTotal'[d] = nodeTotal[d] + SumFunction(e)
  BY DEF Accounts
<1>7. [u \in Users |-> SumOf(Ledger', u, d)] = k
  BY <1>1
<1> HIDE DEF f, e, k
<1>8. SumFunction(k) = SumFunction(f) + SumFunction(e)
  BY <1>2, <1>4, SumPlus
<1> QED BY <1>5, <1>6, <1>7, <1>8

\* Every byte of the node is a user's or unattributed.
LEMMA AccountBytes ==
    ASSUME TypeOK, TotalsMatchLedger, NEW b \in Batch,
           NEW disp \in [Users -> Dispositions], NEW row, Accounts(b, disp, row)
    PROVE  /\ total' \in [Users -> Counter] /\ nodeTotal' \in Counter /\ unattributed' \in Nat
           /\ SumFunction([u \in Users |-> Bytes(total'[u])]) + unattributed' = Bytes(nodeTotal')
<1> DEFINE V == {v \in Users : disp[v] \in {"unassigned", "archived_user"}}
           acc == [u \in Users |-> IF disp[u] = "accounted" THEN Bytes(b.items[u]) ELSE 0]
           una == [u \in V |-> Bytes(b.items[u])]
           tx == [u \in Users |-> b.items[u]["tx"]]
           rx == [u \in Users |-> b.items[u]["rx"]]
           old == [u \in Users |-> Bytes(total[u])]
           new == [u \in Users |-> Bytes(total'[u])]
<1>1. b.items \in [Users -> Counter] /\ IsFiniteSet(Users)
  BY TrafficAssumption DEF Batch
<1> USE <1>1
<1>2. \A u \in Users : disp[u] = "none" => b.items[u] = Zero
  BY DispositionType DEF Accounts
<1>3. /\ acc \in [Users -> Nat] /\ SumFunction(acc) \in Nat /\ SumFunction(una) \in Nat
      /\ SumFunction(tx) + SumFunction(rx) = SumFunction(acc) + SumFunction(una)
  BY <1>2, BatchSplits, Zenon
<1>4. /\ total' = [u \in Users |-> IF disp[u] = "accounted" THEN Plus(total[u], b.items[u])
                                   ELSE total[u]]
      /\ unattributed' = unattributed + SumFunction(una)
      /\ nodeTotal' = [d \in Dirs |-> nodeTotal[d] + SumFunction([u \in Users |-> b.items[u][d]])]
  BY DEF Accounts
<1>5. /\ unattributed' = unattributed + SumFunction(una)
      /\ nodeTotal'["tx"] = nodeTotal["tx"] + SumFunction(tx)
      /\ nodeTotal'["rx"] = nodeTotal["rx"] + SumFunction(rx)
  BY <1>4 DEF Dirs
<1>6. ASSUME NEW u \in Users
      PROVE  /\ total'[u] \in Counter
             /\ Bytes(total[u]) \in Nat /\ Bytes(total'[u]) \in Nat
             /\ Bytes(total'[u]) = Bytes(total[u]) + acc[u]
  <2>1. total[u] \in Counter /\ b.items[u] \in Counter
    BY DEF TypeOK
  <2>2. CASE disp[u] = "accounted"
    <3>1. total'[u] = Plus(total[u], b.items[u]) /\ acc[u] = Bytes(b.items[u])
      BY <1>4, <2>2
    <3> HIDE DEF acc
    <3> QED BY <2>1, <3>1 DEF Plus, Counter, Bytes, Dirs
  <2>3. CASE disp[u] # "accounted"
    <3>1. total'[u] = total[u] /\ acc[u] = 0
      BY <1>4, <2>3
    <3> HIDE DEF acc
    <3> QED BY <2>1, <3>1 DEF Counter, Bytes, Dirs
  <2> QED BY <2>2, <2>3
<1>7. total' \in [Users -> Counter]
  BY <1>4, <1>6
<1>8. /\ old \in [Users -> Nat] /\ new \in [Users -> Nat]
      /\ \A u \in Users : new[u] = old[u] + acc[u]
  BY <1>6
<1>9. /\ tx \in [Users -> Nat] /\ rx \in [Users -> Nat]
  BY DEF Counter, Dirs
<1>10. SumFunction(old) + unattributed = Bytes(nodeTotal)
  BY DEF TotalsMatchLedger
<1>11. nodeTotal["tx"] \in Nat /\ nodeTotal["rx"] \in Nat /\ unattributed \in Nat
  BY DEF TypeOK, Counter, Dirs
<1>12. nodeTotal' = [d \in Dirs |-> nodeTotal'[d]]
  BY <1>4
<1> HIDE DEF acc, una, tx, rx, old, new
<1>13. SumFunction(new) = SumFunction(old) + SumFunction(acc)
  BY <1>3, <1>8, SumPlus
<1>14. SumFunction(tx) \in Nat /\ SumFunction(rx) \in Nat /\ SumFunction(old) \in Nat
  BY <1>8, <1>9, SumNat
<1> HIDE <1>1
<1>15. nodeTotal' \in Counter
  <2>1. \A d \in Dirs : nodeTotal'[d] \in Nat
    BY <1>5, <1>11, <1>14 DEF Dirs
  <2> QED BY <1>12, <2>1 DEF Counter
<1>16. unattributed' \in Nat
  BY <1>3, <1>5, <1>11
<1>17. SumFunction(new) + unattributed' = Bytes(nodeTotal')
  BY <1>3, <1>5, <1>10, <1>11, <1>13, <1>14 DEF Bytes
<1> QED BY <1>7, <1>15, <1>16, <1>17 DEF new

\* IngestTrafficBatch keeps the totals, whatever its answer.
LEMMA IngestAccount ==
    ASSUME TypeOK, FiniteOK, TotalsMatchLedger, NEW b \in Batch, NEW who,
           IngestTrafficBatch(b, who)
    PROVE  /\ rows' \subseteq [batch : Batch, disp : [Users -> Dispositions]]
           /\ total' \in [Users -> Counter] /\ nodeTotal' \in Counter /\ unattributed' \in Nat
           /\ IsFiniteSet(rows') /\ IsFiniteSet(Ledger')
           /\ TotalsMatchLedger'
<1>1. CASE Status(b, who) = "accepted"
  <2>1. b \notin Ledger
    BY <1>1 DEF Status
  <2> DEFINE dis == [u \in Users |-> Disposition(b, u)]
             ro == [batch |-> b, disp |-> dis]
  <2>2. Accounts(b, dis, ro)
    BY <1>1, AccountAccounts DEF IngestTrafficBatch
  <2> HIDE DEF dis, ro
  <2>3. /\ dis \in [Users -> Dispositions]
        /\ rows' \subseteq [batch : Batch, disp : [Users -> Dispositions]]
        /\ IsFiniteSet(rows') /\ IsFiniteSet(Ledger')
    BY <2>1, <2>2, AccountRows
  <2>4. /\ total' \in [Users -> Counter] /\ nodeTotal' \in Counter /\ unattributed' \in Nat
        /\ SumFunction([u \in Users |-> Bytes(total'[u])]) + unattributed' = Bytes(nodeTotal')
    BY <2>2, <2>3, AccountBytes
  <2>5. \A d \in Dirs : nodeTotal'[d] = SumFunction([u \in Users |-> SumOf(Ledger', u, d)])
    BY <2>1, <2>2, AccountNode
  <2>6. \A u \in Users, d \in Dirs :
          total'[u][d] = SumFunction([r \in {q \in rows' : q.disp[u] = "accounted"}
                                          |-> r.batch.items[u][d]])
    BY <2>1, <2>2, AccountUsers
  <2>7. TotalsMatchLedger'
    BY <2>4, <2>5, <2>6, Zenon DEF TotalsMatchLedger, SumOf
  <2> QED BY <2>3, <2>4, <2>7
<1>2. CASE Status(b, who) # "accepted"
  <2>1. UNCHANGED ledgerVars
    BY <1>2 DEF IngestTrafficBatch
  <2>2. Ledger' = Ledger
    BY <2>1 DEF ledgerVars, Ledger
  <2>3. TotalsMatchLedger'
    BY <2>1, SameLedger
  <2> QED BY <2>1, <2>2, <2>3 DEF ledgerVars, TypeOK, FiniteOK
<1> QED BY <1>1, <1>2

\* The part of the invariant that a step which only moves batches from the
\* outbox to the ledger keeps.
LEMMA SameBytes ==
    ASSUME BaselinesOK, BalancedOK, Recorded' = Recorded, UNCHANGED <<core, carried, missed, db>>
    PROVE  BaselinesOK' /\ BalancedOK'
<1>1. BaselinesOK'
  BY DEF BaselinesOK, BaselineOK
<1>2. BalancedOK'
  BY DEF BalancedOK, Balanced, Unsampled, Seen, SumOf
<1> QED BY <1>1, <1>2

\* The steps that call IngestTrafficBatch.
LEMMA FlushAccount ==
    ASSUME TypeOK, LedgerInv, FiniteOK, BaselinesOK, BalancedOK, TotalsMatchLedger,
           FlushHead \/ FlushUnconfirmed \/ DeliverLatePost
    PROVE  TypeOK' /\ FiniteOK' /\ BaselinesOK' /\ BalancedOK' /\ TotalsMatchLedger'
<1>1. PICK b, who : /\ b \in Recorded /\ IngestTrafficBatch(b, who)
                    /\ outbox' = outbox \/ (outbox' = outbox \ {b} /\ Taken(b, who))
  <2>1. CASE FlushHead
    BY <2>1 DEF FlushHead, Recorded
  <2>2. CASE FlushUnconfirmed
    BY <2>2 DEF FlushUnconfirmed, agentVars, Recorded
  <2>3. CASE DeliverLatePost
    <3>1. PICK p \in posts : IngestTrafficBatch(p.batch, p.inst)
      BY <2>3 DEF DeliverLatePost
    <3>2. p.batch \in Recorded
      BY DEF LedgerInv, Posted
    <3>3. outbox' = outbox
      BY <2>3 DEF DeliverLatePost, agentVars
    <3> QED BY <3>1, <3>2, <3>3
  <2> QED BY <2>1, <2>2, <2>3
<1>2. /\ UNCHANGED <<core, carried, missed, db, drawn, inst, userState>>
      /\ posts' \subseteq posts
      /\ budget' = budget \/ Fault
  BY DEF FlushHead, FlushUnconfirmed, DeliverLatePost, coreVars, agentVars
<1>3. b \in Batch
  BY <1>1, RecordedFinite
<1>4. /\ rows' \subseteq [batch : Batch, disp : [Users -> Dispositions]]
      /\ total' \in [Users -> Counter] /\ nodeTotal' \in Counter /\ unattributed' \in Nat
      /\ IsFiniteSet(rows') /\ IsFiniteSet(Ledger')
      /\ TotalsMatchLedger'
  BY <1>1, <1>3, IngestAccount
<1>5. outbox' \subseteq outbox /\ outbox \ outbox' \subseteq Ledger'
  BY <1>1, IngestLedger
<1>6. Recorded' = Recorded
  BY <1>1, <1>5, IngestRecorded
<1>7. FiniteOK'
  <2>1. IsFiniteSet(outbox')
    BY <1>5, FS_Subset DEF FiniteOK
  <2> QED BY <1>4, <2>1 DEF FiniteOK
<1>8. BaselinesOK' /\ BalancedOK'
  BY <1>2, <1>6, SameBytes
<1>9. TypeOK'
  <2>1. budget' \in [changes : Nat, faults : Nat]
    BY <1>2 DEF TypeOK, Fault
  <2> QED BY <1>2, <1>4, <1>5, <2>1 DEF TypeOK
<1> QED BY <1>4, <1>7, <1>8, <1>9

\* The other steps touch neither bytes nor totals.
LEMMA OtherAccount ==
    ASSUME TypeOK, LedgerInv, FiniteOK, BaselinesOK, BalancedOK, TotalsMatchLedger,
           \/ FlushDelayed \/ Rebind \/ UNCHANGED vars
           \/ \E u \in Users : \/ Withdraw(u, "unassigned") \/ Withdraw(u, "archived")
                               \/ AssignUser(u)
    PROVE  TypeOK' /\ FiniteOK' /\ BaselinesOK' /\ BalancedOK' /\ TotalsMatchLedger'
<1>1. UNCHANGED <<core, carried, missed, db, outbox, drawn, rows, total, nodeTotal, unattributed>>
  BY DEF FlushDelayed, Rebind, Withdraw, AssignUser, vars, coreVars, agentVars, ledgerVars
<1> USE <1>1
<1>2. budget' \in [changes : Nat, faults : Nat]
  <2>1. budget' = budget \/ Fault \/ Change
    BY DEF FlushDelayed, Rebind, Withdraw, AssignUser, vars
  <2> QED BY <2>1 DEF TypeOK, Fault, Change
<1>3. inst' \in Nat
  BY DEF TypeOK, FlushDelayed, Rebind, Withdraw, AssignUser, vars, agentVars
<1>4. posts' \subseteq [batch : Batch, inst : Nat]
  <2>1. CASE FlushDelayed
    <3>1. PICK b \in outbox : posts' = posts \cup {[batch |-> b, inst |-> inst]}
      BY <2>1 DEF FlushDelayed
    <3>2. [batch |-> b, inst |-> inst] \in [batch : Batch, inst : Nat]
      BY DEF TypeOK
    <3> QED BY <3>1, <3>2 DEF TypeOK
  <2>2. CASE ~FlushDelayed
    BY <2>2 DEF TypeOK, Rebind, Withdraw, AssignUser, vars
  <2> QED BY <2>1, <2>2
<1>5. userState' \in [Users -> {"assigned", "unassigned", "archived"}]
  BY DEF TypeOK, FlushDelayed, Rebind, Withdraw, AssignUser, vars
<1>6. TypeOK'
  BY <1>2, <1>3, <1>4, <1>5 DEF TypeOK
<1>7. Ledger' = Ledger /\ Recorded' = Recorded
  BY DEF Ledger, Recorded
<1>8. FiniteOK'
  BY <1>7 DEF FiniteOK
<1>9. BaselinesOK' /\ BalancedOK'
  BY <1>7, SameBytes
<1>10. TotalsMatchLedger'
  BY SameLedger DEF ledgerVars
<1> QED BY <1>6, <1>8, <1>9, <1>10

\* Nothing is carried and nothing recorded at first.
LEMMA InitAccount == Init => AccountInv
<1> SUFFICES ASSUME Init PROVE AccountInv
  OBVIOUS
<1>1. Zero \in Counter /\ \A d \in Dirs : Zero[d] = 0
  BY DEF Zero, Counter
<1> USE <1>1
<1>2. /\ outbox = {} /\ rows = {} /\ posts = {}
      /\ carried = [u \in Users |-> Zero] /\ missed = [u \in Users |-> Zero]
      /\ total = [u \in Users |-> Zero] /\ nodeTotal = Zero /\ unattributed = 0
      /\ core.epoch = 1 /\ core.bytes = [u \in Users |-> Zero]
      /\ db.init = FALSE /\ db.counterEpoch = 0 /\ db.base = [u \in Users |-> NoBaseline]
  BY DEF Init
<1> USE <1>2
<1>3. NoBaseline \in Baseline /\ NoBaseline.core = 0 /\ NoBaseline.bytes = Zero
  BY DEF NoBaseline, Baseline
<1>4. TypeOK
  <2>1. core \in [named : BOOLEAN, epoch : Nat, bytes : [Users -> Counter]]
    BY DEF Init
  <2>2. db \in [ source : Nat, seq : Nat, init : BOOLEAN, counterEpoch : Nat,
                 base : [Users -> Baseline] ]
    BY <1>3 DEF Init
  <2>3. /\ drawn \in [batch : Nat, source : Nat] /\ inst \in Nat
        /\ userState \in [Users -> {"assigned", "unassigned", "archived"}]
        /\ budget \in [changes : Nat, faults : Nat]
    BY DEF Init
  <2> QED BY <2>1, <2>2, <2>3 DEF TypeOK
<1>5. LedgerInv
  BY InitLedger
<1>6. Ledger = {} /\ Recorded = {}
  BY DEF Ledger, Recorded
<1>7. FiniteOK
  BY <1>6, FS_EmptySet DEF FiniteOK
<1>8. BaselinesOK
  BY <1>3 DEF BaselinesOK, BaselineOK
<1>9. ASSUME NEW u \in Users, NEW d \in Dirs PROVE SumOf({}, u, d) = 0
  <2> DEFINE f == [b \in {} |-> b.items[u][d]]
  <2>1. f \in [{} -> Nat] /\ \A x \in {} : f[x] = 0
    OBVIOUS
  <2>2. SumOf({}, u, d) = SumFunction(f)
    BY DEF SumOf
  <2> HIDE DEF f
  <2> QED BY <2>1, <2>2, FS_EmptySet, SumZero, Zenon
<1>10. BalancedOK
  <2>1. ASSUME NEW u \in Users, NEW d \in Dirs PROVE Balanced(u, d)
    <3>1. carried[u][d] = 0 /\ missed[u][d] = 0 /\ Unsampled(u, d) = 0
      BY DEF Unsampled, Seen
    <3>2. SumOf(Recorded, u, d) = 0
      BY <1>6, <1>9
    <3> QED BY <3>1, <3>2 DEF Balanced
  <2> QED BY <2>1 DEF BalancedOK
<1>11. TotalsMatchLedger
  <2>1. ASSUME NEW u \in Users, NEW d \in Dirs
        PROVE  total[u][d] = SumFunction([r \in {q \in rows : q.disp[u] = "accounted"}
                                              |-> r.batch.items[u][d]])
    <3> DEFINE X == {q \in rows : q.disp[u] = "accounted"}
               f == [r \in X |-> r.batch.items[u][d]]
    <3>1. X = {}
      OBVIOUS
    <3>2. f \in [X -> Nat] /\ \A x \in X : f[x] = 0
      BY <3>1
    <3> HIDE DEF X, f
    <3>3. IsFiniteSet(X)
      BY <3>1, FS_EmptySet
    <3>4. SumFunction(f) = 0
      BY <3>2, <3>3, SumZero
    <3>5. total[u][d] = 0
      OBVIOUS
    <3> QED BY <3>4, <3>5 DEF X, f
  <2>2. ASSUME NEW d \in Dirs
        PROVE  nodeTotal[d] = SumFunction([u \in Users |-> SumOf(Ledger, u, d)])
    <3> DEFINE f == [u \in Users |-> SumOf(Ledger, u, d)]
    <3>1. \A u \in Users : SumOf(Ledger, u, d) = 0
      BY <1>6, <1>9
    <3>2. f \in [Users -> Nat] /\ \A u \in Users : f[u] = 0
      BY <3>1
    <3> HIDE DEF f
    <3>3. SumFunction(f) = 0
      BY <3>2, TrafficAssumption, SumZero
    <3>4. nodeTotal[d] = 0
      OBVIOUS
    <3> QED BY <3>3, <3>4 DEF f
  <2>3. SumFunction([u \in Users |-> Bytes(total[u])]) + unattributed = Bytes(nodeTotal)
    <3> DEFINE f == [u \in Users |-> Bytes(total[u])]
    <3>1. Bytes(Zero) = 0
      BY DEF Bytes, Zero, Dirs
    <3>2. f \in [Users -> Nat] /\ \A u \in Users : f[u] = 0
      BY <3>1
    <3> HIDE DEF f
    <3>3. SumFunction(f) = 0
      BY <3>2, TrafficAssumption, SumZero
    <3>4. SumFunction(f) + unattributed = Bytes(nodeTotal)
      BY <3>1, <3>3
    <3> QED BY <3>4 DEF f
  <2> QED BY <2>1, <2>2, <2>3, Zenon DEF TotalsMatchLedger
<1> QED BY <1>4, <1>5, <1>7, <1>8, <1>10, <1>11 DEF AccountInv

\* The baselines, the outbox, the ledger and the totals agree for ever.
THEOREM AccountInvariant == Spec => []AccountInv
<1>1. ASSUME AccountInv, [Next]_vars PROVE AccountInv'
  <2>1. LedgerInv'
    BY <1>1, NextLedger DEF AccountInv
  <2>2. TypeOK' /\ FiniteOK' /\ BaselinesOK' /\ BalancedOK' /\ TotalsMatchLedger'
    <3>1. CASE \E u \in Users, d \in Dirs : Carry(u, d)
      BY <1>1, <3>1, CarryAccount DEF AccountInv
    <3>2. CASE RestartCore
      BY <1>1, <3>2, RestartAccount DEF AccountInv
    <3>3. CASE SampleFirst
      BY <1>1, <3>3, SampleFirstAccount DEF AccountInv
    <3>4. CASE Sample
      BY <1>1, <3>4, SampleAccount DEF AccountInv
    <3>5. CASE FlushHead \/ FlushUnconfirmed \/ DeliverLatePost
      BY <1>1, <3>5, FlushAccount DEF AccountInv
    <3>6. CASE \/ FlushDelayed \/ Rebind \/ UNCHANGED vars
               \/ \E u \in Users : \/ Withdraw(u, "unassigned") \/ Withdraw(u, "archived")
                                   \/ AssignUser(u)
      BY <1>1, <3>6, OtherAccount DEF AccountInv
    <3> QED BY <1>1, <3>1, <3>2, <3>3, <3>4, <3>5, <3>6 DEF Next
  <2> QED BY <2>1, <2>2 DEF AccountInv
<1> QED BY InitAccount, <1>1, PTL DEF Spec

\* From the counters of a core that names its incarnation (Reality), over
\* recordTrafficSample's cutting into batches, flushTrafficOutbox's repeats
\* and IngestTrafficBatch: every byte is in exactly one place.
THEOREM BytesAreRecordedOnce == Spec => []EveryByteOnce
<1>1. AccountInv => EveryByteOnce
  BY DEF AccountInv, BalancedOK, Balanced, EveryByteOnce
<1> QED BY AccountInvariant, <1>1, PTL

\* And without named incarnations (Hysteria) no byte is counted twice: what
\* recordTrafficSample takes for a reset counter is never one it has seen.
THEOREM BytesNeverOvercounted == Spec => []NeverOvercounts
<1>1. AccountInv => NeverOvercounts
  BY DEF AccountInv, BalancedOK, Balanced, NeverOvercounts
<1> QED BY AccountInvariant, <1>1, PTL

\* The totals IngestTrafficBatch adds up for users, assignments and the node
\* are the sums over the ledger, for any number of users and batches.
THEOREM TotalsAreTheLedgers == Spec => []TotalsMatchLedger
<1>1. AccountInv => TotalsMatchLedger
  BY DEF AccountInv
<1> QED BY AccountInvariant, <1>1, PTL
=============================================================================
