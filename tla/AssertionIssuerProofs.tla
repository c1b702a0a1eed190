------------------------- MODULE AssertionIssuerProofs -------------------------
(***************************************************************************)
(* Proofs about AssertionIssuer, for any workers, units, digests and       *)
(* bounds on the faults.  The argument follows the write locks: what a     *)
(* database's draft has beyond its disk was written by the one worker that *)
(* holds the lock, and the worker's task says what that may be.            *)
(***************************************************************************)
EXTENDS AssertionIssuer, FiniteSetTheorems, TLAPS

(* A draft only adds to its disk, and both know the same pickups.          *)
DraftsGrow ==
    /\ disk.eligibility \subseteq draft.eligibility
    /\ disk.issuer.accepted \subseteq draft.issuer.accepted
    /\ disk.issuer.consumed \subseteq draft.issuer.consumed
    /\ draft.issuer.pickup = disk.issuer.pickup
    /\ \A a \in AssertionIds :
          /\ disk.issuer.minted[a] # Nobody => draft.issuer.minted[a] = disk.issuer.minted[a]
          /\ a > mints => draft.issuer.minted[a] = Nobody
    /\ \A d \in draft.issuer.consumed : disk.issuer.pickup[d] # 0

Minted(image, u) == \E a \in AssertionIds : image.minted[a] = u

(* What a worker between an UPDATE or INSERT and its commit has pending in *)
(* the issuer's database.                                                  *)
IssuerPending(w) ==
    /\ task[w].at = "accepting" =>
          /\ holder["issuer"] = w
          /\ task[w].digest \in draft.issuer.accepted \ disk.issuer.accepted
    /\ task[w].at \in {"found", "picked"} => disk.issuer.pickup[task[w].digest] # 0
    /\ task[w].at = "picked" =>
          /\ holder["issuer"] = w
          /\ task[w].digest \in draft.issuer.consumed \ disk.issuer.consumed
    /\ task[w].at = "saved" => holder["issuer"] = w /\ Minted(draft.issuer, task[w].unit)
    /\ task[w].at = "half" => Minted(disk.issuer, task[w].unit)

(* Without a refused commit, the ledger's lock is held by a request that   *)
(* is under way, and adds no more than its unit.                           *)
LedgerPending(w) ==
    holder["eligibility"] = w /\ refusedCommits = 0 =>
        /\ task[w].at \in {"opening", "claimed", "saved", "half"}
        /\ task[w].at = "opening" => draft.eligibility = disk.eligibility
        /\ task[w].at # "opening" => draft.eligibility \subseteq disk.eligibility \cup {task[w].unit}

(* A consumption that the refusal of a dead assertion left behind.         *)
DeadLeftover == \E d \in draft.issuer.consumed \ disk.issuer.consumed :
                    draft.issuer.pickup[d] \in dead

IssuerLockExplained(w) ==
    holder["issuer"] = w /\ refusedCommits = 0
    /\ task[w].at \in {"idle", "opening", "claimed", "found", "half"} => DeadLeftover

Worker(w) == IssuerPending(w) /\ LedgerPending(w) /\ IssuerLockExplained(w)

(* Whatever consumption is pending is of a dead assertion, or about to be  *)
(* delivered.                                                              *)
ConsumptionPending ==
    refusedCommits = 0 =>
        \A d \in draft.issuer.consumed \ disk.issuer.consumed :
            \/ draft.issuer.pickup[d] \in dead
            \/ \E w \in TrustWorkers : task[w].at = "picked" /\ task[w].digest = d

IInv ==
    /\ AssertionTypeOK /\ DraftsGrow
    /\ \A w \in TrustWorkers : Worker(w)
    /\ ConsumptionPending
    /\ SingleUse /\ ClaimedMeansAssertion /\ ConsumedMeansDelivered

-----------------------------------------------------------------------------
LEMMA Typed ==
    ASSUME AssertionTypeOK
    PROVE  /\ disk.issuer \in IssuerDatabase /\ draft.issuer \in IssuerDatabase
           /\ disk.eligibility \in SUBSET Units /\ draft.eligibility \in SUBSET Units
           /\ disk["issuer"] = disk.issuer /\ draft["issuer"] = draft.issuer
           /\ disk["eligibility"] = disk.eligibility
           /\ draft["eligibility"] = draft.eligibility
           /\ \A s \in Stores : holder[s] = Nobody => draft[s] = disk[s]
           /\ \A w \in TrustWorkers : task[w] \in Tasks /\ w # Nobody
           /\ mints \in Nat
  BY AssertionIssuerAssumption DEF AssertionTypeOK, Databases, Stores

LEMMA TaskKinds ==
    ASSUME NEW t \in Tasks
    PROVE  /\ t.at \in {"claimed", "saved", "half"} => t.unit \in Units
           /\ t.at \in {"accepting", "found", "picked"} => t.digest \in Digests
           /\ t.at \in {"idle", "opening", "claimed", "saved", "half",
                        "accepting", "found", "picked"}
  BY DEF Tasks

LEMMA InitHolds == AssertionInit => IInv
  <1> SUFFICES ASSUME AssertionInit PROVE IInv
    OBVIOUS
  <1> USE AssertionIssuerAssumption
  <1>1. AssertionTypeOK
    BY DEF AssertionInit, AssertionTypeOK, Databases, IssuerDatabase, Stores, Tasks, Idle,
           AssertionIds
  <1>2. DraftsGrow
    BY DEF AssertionInit, DraftsGrow
  <1>3. \A w \in TrustWorkers : Worker(w)
    BY DEF AssertionInit, Worker, IssuerPending, LedgerPending, IssuerLockExplained, Idle,
           Stores
  <1>4. ConsumptionPending /\ SingleUse /\ ClaimedMeansAssertion /\ ConsumedMeansDelivered
    BY DEF AssertionInit, ConsumptionPending, SingleUse, ClaimedMeansAssertion,
           ConsumedMeansDelivered
  <1> QED BY <1>1, <1>2, <1>3, <1>4 DEF IInv

(* A step of one worker leaves the others as they are: it changes no       *)
(* database that another worker holds.                                     *)
LEMMA Others ==
    ASSUME IInv, NEW v \in TrustWorkers, task'[v] = task[v],
           \A s \in Stores : /\ holder'[s] = v <=> holder[s] = v
                             /\ holder[s] = v => disk'[s] = disk[s] /\ draft'[s] = draft[s],
           AssertionTypeOK', disk'.issuer.pickup = disk.issuer.pickup,
           \A a \in AssertionIds : disk.issuer.minted[a] # Nobody =>
                                       disk'.issuer.minted[a] = disk.issuer.minted[a],
           refusedCommits' = 0 => refusedCommits = 0, dead \subseteq dead'
    PROVE  Worker(v)'
  <1> USE DEF IInv
  <1>1. /\ holder["issuer"] = v =>
             disk'.issuer = disk.issuer /\ draft'.issuer = draft.issuer
        /\ holder["eligibility"] = v =>
             disk'.eligibility = disk.eligibility /\ draft'.eligibility = draft.eligibility
        /\ holder'["issuer"] = v <=> holder["issuer"] = v
        /\ holder'["eligibility"] = v <=> holder["eligibility"] = v
    BY Typed DEF Stores, AssertionTypeOK, Databases
  <1>2. task[v] \in Tasks
    BY Typed
  <1>3. IssuerPending(v)'
    <2>1. ASSUME task[v].at = "half" PROVE Minted(disk'.issuer, task[v].unit)
      BY <2>1, <1>2, TaskKinds, AssertionIssuerAssumption DEF Worker, IssuerPending, Minted
    <2>2. ASSUME task[v].at = "saved"
          PROVE  holder'["issuer"] = v /\ Minted(draft'.issuer, task[v].unit)
      BY <2>2, <1>1 DEF Worker, IssuerPending, Minted
    <2> QED BY <1>1, <2>1, <2>2 DEF Worker, IssuerPending
  <1>4. LedgerPending(v)'
    BY <1>1 DEF Worker, LedgerPending
  <1>5. IssuerLockExplained(v)'
    BY <1>1 DEF Worker, IssuerLockExplained, DeadLeftover
  <1> QED BY <1>3, <1>4, <1>5 DEF Worker


-----------------------------------------------------------------------------
(* Steps that only change the task of w, or end it.                        *)
LEMMA TaskOnly ==
    ASSUME IInv, NEW w \in TrustWorkers, UNCHANGED <<databaseVars, clientVars, dead, mints>>,
           issuerCrashes' = issuerCrashes,
           refusedCommits' \in refusedCommits .. MaxRefusedCommits,
           NEW next \in Tasks, Become(w, next),
           next.at \in {"idle", "found"},
           next.at = "found" => disk.issuer.pickup[next.digest] # 0,
           \/ task[w].at \in {"idle", "found"}
           \/ refusedCommits' > refusedCommits
           \/ task[w].at = "picked" /\ draft.issuer.pickup[task[w].digest] \in dead
    PROVE  IInv'
  <1> USE DEF IInv, databaseVars, clientVars, Become
  <1>1. /\ task' \in [TrustWorkers -> Tasks] /\ task'[w] = next
        /\ \A v \in TrustWorkers \ {w} : task'[v] = task[v]
        /\ refusedCommits \in Nat /\ refusedCommits' \in 0 .. MaxRefusedCommits
        /\ refusedCommits' = 0 => refusedCommits = 0
    BY AssertionIssuerAssumption DEF AssertionTypeOK
  <1>2. AssertionTypeOK'
    BY <1>1 DEF AssertionTypeOK
  <1>3. DraftsGrow' /\ SingleUse' /\ ClaimedMeansAssertion' /\ ConsumedMeansDelivered'
    BY <1>1 DEF DraftsGrow, SingleUse, ClaimedMeansAssertion, AssertionsFor,
                ConsumedMeansDelivered
  <1>4. ASSUME NEW v \in TrustWorkers \ {w} PROVE Worker(v)'
    BY <1>1, <1>2, Others
  <1>5. Worker(w)'
    <2>1. IssuerPending(w)'
      BY <1>1 DEF IssuerPending
    <2>2. LedgerPending(w)'
      BY <1>1 DEF LedgerPending, Worker
    <2>3. IssuerLockExplained(w)'
      BY <1>1 DEF IssuerLockExplained, Worker, IssuerPending, DeadLeftover
    <2> QED BY <2>1, <2>2, <2>3 DEF Worker
  <1>6. ConsumptionPending'
    BY <1>1 DEF ConsumptionPending
  <1> QED BY <1>2, <1>3, <1>4, <1>5, <1>6

(* Steps that roll back the stores in S and end the task of w.             *)
LEMMA Rollback ==
    ASSUME IInv, NEW w \in TrustWorkers, NEW S \in SUBSET Stores, RollbackOn(w, S),
           Become(w, Idle), UNCHANGED <<clientVars, dead, mints, refusedCommits>>,
           issuerCrashes' \in 0 .. MaxIssuerCrashes,
           \/ S = Stores
           \/ task[w].at = "found" /\ S = {"issuer"}
           \/ task[w].at = "idle" /\ S = {"eligibility"}
    PROVE  IInv'
  <1> USE DEF IInv, clientVars, Become
  <1>1. /\ task' \in [TrustWorkers -> Tasks] /\ task'[w].at = "idle"
        /\ \A v \in TrustWorkers \ {w} : task'[v] = task[v]
    BY DEF AssertionTypeOK, Tasks, Idle
  <1>2. /\ disk' = disk
        /\ \A s \in Stores :
             /\ draft'[s] = IF s \in S /\ holder[s] = w THEN disk[s] ELSE draft[s]
             /\ holder'[s] = IF s \in S /\ holder[s] = w THEN Nobody ELSE holder[s]
    BY DEF RollbackOn
  <1>3. /\ draft'.issuer = IF "issuer" \in S /\ holder["issuer"] = w
                             THEN disk.issuer ELSE draft.issuer
        /\ draft'.eligibility = IF "eligibility" \in S /\ holder["eligibility"] = w
                                  THEN disk.eligibility ELSE draft.eligibility
        /\ draft' \in Databases
    <2>1. draft' = [s \in Stores |-> IF s \in S /\ holder[s] = w THEN disk[s] ELSE draft[s]]
      BY DEF RollbackOn
    <2> QED BY <2>1, Typed DEF Stores, Databases
  <1>4. AssertionTypeOK'
    <2>1. holder' \in [Stores -> TrustWorkers \cup {Nobody}]
      BY DEF RollbackOn, AssertionTypeOK
    <2>2. \A s \in Stores : holder'[s] = Nobody => draft'[s] = disk'[s]
      BY <1>2, Typed
    <2> QED BY <1>1, <1>2, <1>3, <2>1, <2>2 DEF AssertionTypeOK
  <1>5. DraftsGrow'
    BY <1>2, <1>3, Typed DEF DraftsGrow, IssuerDatabase
  <1>6. SingleUse' /\ ClaimedMeansAssertion' /\ ConsumedMeansDelivered'
    BY <1>2 DEF SingleUse, ClaimedMeansAssertion, AssertionsFor, ConsumedMeansDelivered
  <1>7. ASSUME NEW v \in TrustWorkers \ {w} PROVE Worker(v)'
    BY <1>1, <1>2, <1>4, Typed, Others
  <1>8. Worker(w)'
    <2>1. IssuerPending(w)'
      BY <1>1 DEF IssuerPending
    <2>2. LedgerPending(w)'
      BY <1>1, <1>2, Typed DEF LedgerPending, Worker, Stores
    <2>3. IssuerLockExplained(w)'
      BY <1>1, <1>2, <1>3, Typed DEF IssuerLockExplained, Worker, DeadLeftover, Stores
    <2> QED BY <2>1, <2>2, <2>3 DEF Worker
  <1>9. ConsumptionPending'
    BY <1>1, <1>2, <1>3, Typed
       DEF ConsumptionPending, Worker, IssuerPending, Stores
  <1> QED BY <1>4, <1>5, <1>6, <1>7, <1>8, <1>9


-----------------------------------------------------------------------------
(* An INSERT into the ledger: the step after it commits or rolls back.     *)
LEMMA LedgerWrite ==
    ASSUME IInv, NEW w \in TrustWorkers, NEW ledger \in SUBSET Units, NEW next \in Tasks,
           task[w] = Idle, Become(w, next), WriteRow(w, "eligibility", ledger),
           \/ next.at = "opening" /\ ledger = Seen(w, "eligibility")
           \/ next.at = "claimed" /\ ledger = Seen(w, "eligibility") \cup {next.unit},
           UNCHANGED <<clientVars, dead, mints, faultVars>>
    PROVE  IInv'
  <1> USE DEF IInv, clientVars, faultVars, Become
  <1>1. /\ task' \in [TrustWorkers -> Tasks] /\ task'[w] = next /\ task[w].at = "idle"
        /\ \A v \in TrustWorkers \ {w} : task'[v] = task[v]
    BY DEF AssertionTypeOK, Idle
  <1>2. /\ disk' = disk /\ holder["eligibility"] \in {Nobody, w}
        /\ holder' = [holder EXCEPT !["eligibility"] = w]
        /\ draft' = [draft EXCEPT !["eligibility"] = ledger]
    BY DEF WriteRow, CanWrite
  <1>3. /\ draft'.issuer = draft.issuer /\ draft'.eligibility = ledger /\ draft' \in Databases
        /\ holder' \in [Stores -> TrustWorkers \cup {Nobody}]
        /\ holder'["issuer"] = holder["issuer"] /\ holder'["eligibility"] = w
    BY <1>2 DEF AssertionTypeOK, Databases, Stores
  <1>4. AssertionTypeOK'
    <2>1. \A s \in Stores : holder'[s] = Nobody => draft'[s] = disk'[s]
      BY <1>2, <1>3, Typed DEF Stores, Databases
    <2> QED BY <1>1, <1>2, <1>3, <2>1 DEF AssertionTypeOK
  (* Nothing is pending in the ledger before, unless a commit was refused. *)
  <1>5. /\ disk.eligibility \subseteq ledger
        /\ refusedCommits = 0 => Seen(w, "eligibility") = disk.eligibility
    BY <1>1, <1>2, Typed DEF Seen, Worker, LedgerPending, DraftsGrow, Stores
  <1>6. DraftsGrow'
    BY <1>2, <1>3, <1>5 DEF DraftsGrow
  <1>7. SingleUse' /\ ClaimedMeansAssertion' /\ ConsumedMeansDelivered'
    BY <1>2 DEF SingleUse, ClaimedMeansAssertion, AssertionsFor, ConsumedMeansDelivered
  <1>8. ASSUME NEW v \in TrustWorkers \ {w} PROVE Worker(v)'
    <2>1. \A s \in Stores : /\ holder'[s] = v <=> holder[s] = v
                            /\ holder[s] = v => disk'[s] = disk[s] /\ draft'[s] = draft[s]
      BY <1>2, <1>3, Typed DEF Stores, Databases
    <2> QED BY <1>1, <1>2, <1>4, <2>1, Others
  <1>9. Worker(w)'
    <2>1. IssuerPending(w)'
      BY <1>1 DEF IssuerPending
    <2>2. LedgerPending(w)'
      BY <1>1, <1>2, <1>3, <1>5 DEF LedgerPending
    <2>3. IssuerLockExplained(w)'
      BY <1>1, <1>2, <1>3 DEF IssuerLockExplained, Worker, DeadLeftover
    <2> QED BY <2>1, <2>2, <2>3 DEF Worker
  <1>10. ConsumptionPending'
    BY <1>1, <1>2, <1>3 DEF ConsumptionPending
  <1> QED BY <1>4, <1>6, <1>7, <1>8, <1>9, <1>10

(* The commit of the ledger, of a case or of a claim whose assertion is    *)
(* committed.                                                              *)
LEMMA LedgerCommit ==
    ASSUME IInv, NEW w \in TrustWorkers, task[w].at \in {"opening", "half"},
           CommitOn(w, {"eligibility"}), Become(w, Idle),
           UNCHANGED <<clientVars, dead, mints, faultVars>>
    PROVE  IInv'
  <1> USE DEF IInv, clientVars, faultVars, Become
  <1>1. /\ task' \in [TrustWorkers -> Tasks] /\ task'[w].at = "idle"
        /\ \A v \in TrustWorkers \ {w} : task'[v] = task[v]
    BY DEF AssertionTypeOK, Tasks, Idle
  <1>2. /\ draft' = draft
        /\ \A s \in Stores :
             /\ disk'[s] = IF s = "eligibility" /\ holder[s] = w THEN draft[s] ELSE disk[s]
             /\ holder'[s] = IF s = "eligibility" /\ holder[s] = w THEN Nobody ELSE holder[s]
    BY DEF CommitOn
  <1>3. /\ disk'.issuer = disk.issuer /\ disk' \in Databases
        /\ disk'.eligibility = IF holder["eligibility"] = w
                                 THEN draft.eligibility ELSE disk.eligibility
        /\ holder' \in [Stores -> TrustWorkers \cup {Nobody}]
    <2>1. disk' = [s \in Stores |-> IF s = "eligibility" /\ holder[s] = w
                                      THEN draft[s] ELSE disk[s]]
      BY DEF CommitOn, Stores
    <2>2. holder' \in [Stores -> TrustWorkers \cup {Nobody}]
      BY DEF CommitOn, AssertionTypeOK
    <2> QED BY <2>1, <2>2, Typed DEF Stores, Databases
  <1>4. AssertionTypeOK'
    <2>1. \A s \in Stores : holder'[s] = Nobody => draft'[s] = disk'[s]
      BY <1>2, Typed
    <2> QED BY <1>1, <1>2, <1>3, <2>1 DEF AssertionTypeOK
  <1>5. DraftsGrow'
    BY <1>2, <1>3 DEF DraftsGrow
  <1>6. SingleUse' /\ ConsumedMeansDelivered'
    BY <1>3 DEF SingleUse, ConsumedMeansDelivered
  <1>7. ClaimedMeansAssertion'
    BY <1>3 DEF ClaimedMeansAssertion, AssertionsFor, Worker, LedgerPending, IssuerPending,
                Minted
  <1>8. ASSUME NEW v \in TrustWorkers \ {w} PROVE Worker(v)'
    BY <1>1, <1>2, <1>3, <1>4, Typed, Others
  <1>9. Worker(w)'
    <2>1. IssuerPending(w)'
      BY <1>1 DEF IssuerPending
    <2>2. LedgerPending(w)'
      BY <1>1, <1>2, Typed DEF LedgerPending, Stores
    <2>3. IssuerLockExplained(w)'
      BY <1>1, <1>2, <1>3 DEF IssuerLockExplained, Worker, DeadLeftover, Stores
    <2> QED BY <2>1, <2>2, <2>3 DEF Worker
  <1>10. ConsumptionPending'
    BY <1>1, <1>2, <1>3 DEF ConsumptionPending
  <1> QED BY <1>4, <1>5, <1>6, <1>7, <1>8, <1>9, <1>10


-----------------------------------------------------------------------------
(* A write to the issuer's database, by a worker that has none pending but *)
(* what the refusal of a dead assertion may have left there.               *)
LEMMA IssuerWrite ==
    ASSUME IInv, NEW w \in TrustWorkers, NEW image \in IssuerDatabase, NEW next \in Tasks,
           WriteRow(w, "issuer", image), Become(w, next),
           mints' \in mints .. MaxMints,
           UNCHANGED <<clientVars, dead, faultVars>>,
           image.pickup = draft.issuer.pickup,
           draft.issuer.accepted \subseteq image.accepted,
           draft.issuer.consumed \subseteq image.consumed,
           \A a \in AssertionIds :
               /\ a <= mints => image.minted[a] = draft.issuer.minted[a]
               /\ a > mints' => image.minted[a] = Nobody,
           \/ /\ task[w].at = "claimed" /\ next.at = "saved" /\ next.unit = task[w].unit
              /\ Minted(image, next.unit) /\ image.consumed = draft.issuer.consumed
           \/ /\ task[w].at = "idle" /\ next.at = "accepting"
              /\ next.digest \in image.accepted \ disk.issuer.accepted
              /\ image.consumed = draft.issuer.consumed
           \/ /\ task[w].at = "found" /\ next.at = "picked" /\ next.digest = task[w].digest
              /\ next.digest \in image.consumed \ disk.issuer.consumed
              /\ image.consumed = draft.issuer.consumed \cup {next.digest}
    PROVE  IInv'
  <1> USE DEF IInv, clientVars, faultVars, Become
  <1>1. /\ task' \in [TrustWorkers -> Tasks] /\ task'[w] = next
        /\ \A v \in TrustWorkers \ {w} : task'[v] = task[v]
    BY DEF AssertionTypeOK
  <1>2. /\ disk' = disk /\ holder["issuer"] \in {Nobody, w}
        /\ holder' = [holder EXCEPT !["issuer"] = w]
        /\ draft' = [draft EXCEPT !["issuer"] = image]
    BY DEF WriteRow, CanWrite
  <1>3. /\ draft'.eligibility = draft.eligibility /\ draft'.issuer = image
        /\ draft' \in Databases
        /\ holder' \in [Stores -> TrustWorkers \cup {Nobody}]
        /\ holder'["eligibility"] = holder["eligibility"] /\ holder'["issuer"] = w
    BY <1>2 DEF AssertionTypeOK, Databases, Stores
  <1>4. AssertionTypeOK'
    <2>1. \A s \in Stores : holder'[s] = Nobody => draft'[s] = disk'[s]
      BY <1>2, <1>3, Typed DEF Stores, Databases
    <2>2. mints' \in 0 .. MaxMints
      BY Typed, AssertionIssuerAssumption
    <2> QED BY <1>1, <1>2, <1>3, <2>1, <2>2 DEF AssertionTypeOK
  <1>5. \A a \in AssertionIds : disk.issuer.minted[a] # Nobody =>
                                    a <= mints /\ image.minted[a] = disk.issuer.minted[a]
    BY Typed, AssertionIssuerAssumption DEF DraftsGrow, AssertionIds
  <1>6. DraftsGrow'
    <2>1. \A d \in image.consumed : disk.issuer.pickup[d] # 0
      BY DEF DraftsGrow, Worker, IssuerPending
    <2> QED BY <1>2, <1>3, <1>5, <2>1 DEF DraftsGrow
  <1>7. SingleUse' /\ ClaimedMeansAssertion' /\ ConsumedMeansDelivered'
    BY <1>2 DEF SingleUse, ClaimedMeansAssertion, AssertionsFor, ConsumedMeansDelivered
  <1>8. ASSUME NEW v \in TrustWorkers \ {w} PROVE Worker(v)'
    <2>1. \A s \in Stores : /\ holder'[s] = v <=> holder[s] = v
                            /\ holder[s] = v => disk'[s] = disk[s] /\ draft'[s] = draft[s]
      BY <1>2, <1>3, Typed DEF Stores, Databases
    <2> QED BY <1>1, <1>2, <1>4, <2>1, Others
  <1>9. Worker(w)'
    <2>1. IssuerPending(w)'
      BY <1>1, <1>2, <1>3 DEF IssuerPending, Worker
    <2>2. LedgerPending(w)'
      BY <1>1, <1>2, <1>3 DEF LedgerPending, Worker
    <2>3. IssuerLockExplained(w)'
      BY <1>1 DEF IssuerLockExplained
    <2> QED BY <2>1, <2>2, <2>3 DEF Worker
  <1>10. ConsumptionPending'
    BY <1>1, <1>2, <1>3 DEF ConsumptionPending
  <1> QED BY <1>4, <1>6, <1>7, <1>8, <1>9, <1>10

(* The commit of the issuer's database: of an assertion, of a handoff, or  *)
(* of a delivery.                                                          *)
LEMMA IssuerCommit ==
    ASSUME IInv, NEW w \in TrustWorkers, NEW next \in Tasks, CommitOn(w, {"issuer"}),
           Become(w, next), UNCHANGED <<dead, mints, faultVars>>,
           \/ /\ task[w].at = "saved" /\ next.at = "half" /\ next.unit = task[w].unit
              /\ UNCHANGED clientVars
           \/ /\ task[w].at = "accepting" /\ next.at = "idle"
              /\ acceptances' = [acceptances EXCEPT ![task[w].digest] = @ + 1]
              /\ UNCHANGED deliveries
           \/ /\ task[w].at = "picked" /\ next.at = "idle"
              /\ deliveries' = [deliveries EXCEPT ![task[w].digest] = @ + 1]
              /\ UNCHANGED acceptances
    PROVE  IInv'
  <1> USE DEF IInv, clientVars, faultVars, Become
  <1>1. /\ task' \in [TrustWorkers -> Tasks] /\ task'[w] = next
        /\ \A v \in TrustWorkers \ {w} : task'[v] = task[v]
        /\ holder["issuer"] = w
    BY DEF AssertionTypeOK, Worker, IssuerPending
  <1>2. /\ draft' = draft
        /\ \A s \in Stores :
             /\ disk'[s] = IF s = "issuer" /\ holder[s] = w THEN draft[s] ELSE disk[s]
             /\ holder'[s] = IF s = "issuer" /\ holder[s] = w THEN Nobody ELSE holder[s]
    BY DEF CommitOn
  <1>3. /\ disk'.issuer = draft.issuer /\ disk'.eligibility = disk.eligibility
        /\ disk' \in Databases
        /\ holder' \in [Stores -> TrustWorkers \cup {Nobody}]
    <2>1. disk' = [s \in Stores |-> IF s = "issuer" /\ holder[s] = w
                                      THEN draft[s] ELSE disk[s]]
      BY DEF CommitOn, Stores
    <2>2. holder' \in [Stores -> TrustWorkers \cup {Nobody}]
      BY DEF CommitOn, AssertionTypeOK
    <2> QED BY <1>1, <2>1, <2>2, Typed DEF Stores, Databases
  <1>4. /\ acceptances' \in [Digests -> Nat] /\ deliveries' \in [Digests -> Nat]
        /\ task[w].at \in {"accepting", "picked"} => task[w].digest \in Digests
    BY Typed, TaskKinds DEF AssertionTypeOK
  <1>5. AssertionTypeOK'
    <2>1. \A s \in Stores : holder'[s] = Nobody => draft'[s] = disk'[s]
      BY <1>2, Typed
    <2> QED BY <1>1, <1>2, <1>3, <1>4, <2>1 DEF AssertionTypeOK
  <1>6. DraftsGrow'
    BY <1>2, <1>3 DEF DraftsGrow
  <1>7. SingleUse'
    <2> SUFFICES ASSUME NEW d \in Digests
                 PROVE  /\ acceptances'[d] <= 1
                        /\ acceptances'[d] = 1 => d \in draft.issuer.accepted
                        /\ deliveries'[d] <= 1
                        /\ deliveries'[d] = 1 => d \in draft.issuer.consumed
      BY <1>3 DEF SingleUse
    <2>1. /\ acceptances[d] \in Nat /\ acceptances[d] <= 1
          /\ acceptances[d] = 1 => d \in disk.issuer.accepted
          /\ deliveries[d] \in Nat /\ deliveries[d] <= 1
          /\ deliveries[d] = 1 => d \in disk.issuer.consumed
      BY DEF SingleUse, AssertionTypeOK
    <2>2. /\ acceptances'[d] = acceptances[d]
                \/ /\ acceptances'[d] = acceptances[d] + 1
                   /\ d \in draft.issuer.accepted \ disk.issuer.accepted
          /\ deliveries'[d] = deliveries[d]
                \/ /\ deliveries'[d] = deliveries[d] + 1
                   /\ d \in draft.issuer.consumed \ disk.issuer.consumed
      BY <1>4 DEF Worker, IssuerPending, AssertionTypeOK
    <2> QED BY <2>1, <2>2 DEF DraftsGrow
  <1>8. ClaimedMeansAssertion'
    <2>1. \A u \in Units : AssertionsFor(u) \subseteq AssertionsFor(u)'
      BY <1>3, AssertionIssuerAssumption DEF AssertionsFor, DraftsGrow
    <2>2. disk.eligibility \subseteq Units
      BY Typed
    <2> QED BY <1>3, <2>1, <2>2 DEF ClaimedMeansAssertion
  <1>9. ConsumedMeansDelivered'
    <2> SUFFICES ASSUME refusedCommits = 0, NEW d \in draft.issuer.consumed
                 PROVE  deliveries'[d] = 1 \/ disk'.issuer.pickup[d] \in dead
      BY <1>3 DEF ConsumedMeansDelivered
    <2>1. d \in Digests
      BY Typed DEF IssuerDatabase
    <2>2. CASE d \in disk.issuer.consumed
      <3>1. deliveries[d] = 1 => deliveries'[d] = 1
        BY <1>5, <1>7, <2>1, <2>2 DEF SingleUse, AssertionTypeOK, Worker, IssuerPending
      <3> QED BY <1>3, <2>2, <3>1 DEF ConsumedMeansDelivered, DraftsGrow
    <2>3. CASE d \notin disk.issuer.consumed /\ draft.issuer.pickup[d] \notin dead
      <3>1. PICK v \in TrustWorkers : task[v].at = "picked" /\ task[v].digest = d
        BY <2>3 DEF ConsumptionPending
      <3>2. v = w
        BY <1>1, <3>1 DEF Worker, IssuerPending
      <3>3. deliveries'[d] = deliveries[d] + 1 /\ deliveries[d] \in Nat /\ deliveries[d] <= 1
            /\ deliveries[d] # 1
        BY <2>1, <2>3, <3>1, <3>2 DEF SingleUse, AssertionTypeOK
      <3> QED BY <3>3
    <2> QED BY <1>3, <2>2, <2>3
  <1>10. ASSUME NEW v \in TrustWorkers \ {w} PROVE Worker(v)'
    <2>1. \A s \in Stores : /\ holder'[s] = v <=> holder[s] = v
                            /\ holder[s] = v => disk'[s] = disk[s] /\ draft'[s] = draft[s]
      BY <1>1, <1>2, Typed
    <2> QED BY <1>1, <1>3, <1>5, <2>1, Others DEF DraftsGrow
  <1>11. Worker(w)'
    <2>1. IssuerPending(w)'
      BY <1>1, <1>3 DEF IssuerPending, Worker, Minted
    <2>2. LedgerPending(w)'
      BY <1>1, <1>2, <1>3 DEF LedgerPending, Worker, Stores
    <2>3. IssuerLockExplained(w)'
      BY <1>1, <1>2, Typed DEF IssuerLockExplained, Stores
    <2> QED BY <2>1, <2>2, <2>3 DEF Worker
  <1>12. ConsumptionPending'
    BY <1>2, <1>3 DEF ConsumptionPending
  <1> QED BY <1>5, <1>6, <1>7, <1>8, <1>9, <1>10, <1>11, <1>12


-----------------------------------------------------------------------------
LEMMA Provision ==
    ASSUME IInv, NEW d \in Digests, NEW a \in AssertionIds, ProvisionPickup(d, a)
    PROVE  IInv'
  <1> USE DEF IInv, clientVars, faultVars
  <1>1. /\ holder["issuer"] = Nobody /\ disk.issuer.pickup[d] = 0
        /\ disk' = [disk EXCEPT !.issuer = [disk.issuer EXCEPT !.pickup[d] = a]]
        /\ draft' = [draft EXCEPT !.issuer = [draft.issuer EXCEPT !.pickup[d] = a]]
        /\ UNCHANGED <<holder, task, clientVars, dead, mints, faultVars>>
        /\ draft.issuer = disk.issuer
    BY Typed DEF ProvisionPickup, Stores
  <1> DEFINE image == [disk.issuer EXCEPT !.pickup[d] = a]
  <1>2. /\ image \in IssuerDatabase
        /\ image.minted = disk.issuer.minted /\ image.accepted = disk.issuer.accepted
        /\ image.consumed = disk.issuer.consumed
        /\ \A e \in Digests : image.pickup[e] = IF e = d THEN a ELSE disk.issuer.pickup[e]
    <2>1. disk.issuer \in IssuerDatabase
      BY Typed
    <2>2. [disk.issuer.pickup EXCEPT ![d] = a] \in [Digests -> {0} \cup AssertionIds]
      BY <2>1 DEF IssuerDatabase
    <2> QED BY <2>1, <2>2 DEF IssuerDatabase
  <1>3. /\ disk'.issuer = image /\ draft'.issuer = image
        /\ disk'.eligibility = disk.eligibility /\ draft'.eligibility = draft.eligibility
        /\ disk' \in Databases /\ draft' \in Databases
    BY <1>1, <1>2, Typed DEF AssertionTypeOK, Databases
  <1> HIDE DEF image
  <1>4. d \notin disk.issuer.consumed
    BY <1>1 DEF DraftsGrow
  <1>5. AssertionTypeOK'
    <2>1. \A s \in Stores : holder'[s] = Nobody => draft'[s] = disk'[s]
      BY <1>1, <1>3, Typed DEF Stores, Databases
    <2> QED BY <1>1, <1>3, <2>1 DEF AssertionTypeOK
  <1>6. DraftsGrow'
    <2>1. a # 0
      BY DEF AssertionIds
    <2>2. \A e \in disk.issuer.consumed : e \in Digests /\ disk.issuer.pickup[e] # 0
      BY <1>1, Typed DEF DraftsGrow, IssuerDatabase
    <2> QED BY <1>1, <1>2, <1>3, <2>1, <2>2 DEF DraftsGrow
  <1>7. SingleUse' /\ ClaimedMeansAssertion'
    BY <1>1, <1>2, <1>3 DEF SingleUse, ClaimedMeansAssertion, AssertionsFor
  <1>8. ConsumedMeansDelivered'
    BY <1>1, <1>2, <1>3, <1>4, Typed DEF ConsumedMeansDelivered, IssuerDatabase
  <1>9. ASSUME NEW v \in TrustWorkers PROVE Worker(v)'
    <2>1. task[v] \in Tasks /\ v # Nobody
      BY Typed
    <2>2. IssuerPending(v)'
      <3>1. task[v].at \in {"found", "picked"} => disk'.issuer.pickup[task[v].digest] # 0
        BY <1>2, <1>3, <2>1, TaskKinds DEF Worker, IssuerPending, AssertionIds
      <3>2. task[v].at = "half" => Minted(disk'.issuer, task[v].unit)
        BY <1>2, <1>3 DEF Worker, IssuerPending, Minted
      <3> QED BY <1>1, <2>1, <3>1, <3>2 DEF Worker, IssuerPending
    <2>3. LedgerPending(v)'
      BY <1>1, <1>3 DEF Worker, LedgerPending
    <2>4. IssuerLockExplained(v)'
      BY <1>1, <2>1 DEF IssuerLockExplained
    <2> QED BY <2>2, <2>3, <2>4 DEF Worker
  <1>10. ConsumptionPending'
    BY <1>3 DEF ConsumptionPending
  <1> QED BY <1>5, <1>6, <1>7, <1>8, <1>9, <1>10

LEMMA Dies == ASSUME IInv, NEW a \in AssertionIds, AssertionDies(a) PROVE IInv'
  <1> USE DEF IInv
  <1>1. /\ dead' = dead \cup {a}
        /\ UNCHANGED <<disk, draft, holder, task, acceptances, deliveries, mints,
                       issuerCrashes, refusedCommits>>
    BY DEF AssertionDies, databaseVars, clientVars, faultVars
  <1>2. AssertionTypeOK'
    BY <1>1 DEF AssertionTypeOK
  <1>3. DraftsGrow' /\ SingleUse' /\ ClaimedMeansAssertion'
    BY <1>1 DEF DraftsGrow, SingleUse, ClaimedMeansAssertion, AssertionsFor
  <1>4. ConsumedMeansDelivered' /\ ConsumptionPending'
    BY <1>1 DEF ConsumedMeansDelivered, ConsumptionPending
  <1>5. ASSUME NEW v \in TrustWorkers PROVE Worker(v)'
    BY <1>1, <1>2, Others
  <1> QED BY <1>2, <1>3, <1>4, <1>5

-----------------------------------------------------------------------------
LEMMA RequestSteps ==
    ASSUME IInv, NEW w \in TrustWorkers,
           \/ OpenCase(w) \/ CommitCase(w)
           \/ \E u \in Units : ClaimUnit(w, u) \/ AlreadyClaimed(w, u)
           \/ MintFails(w) \/ SaveAssertion(w) \/ CommitAssertion(w) \/ CommitClaim(w)
    PROVE  IInv'
  <1>1. AssertionTypeOK /\ task[w] \in Tasks /\ Idle \in Tasks /\ mints \in Nat
        /\ Seen(w, "eligibility") \in SUBSET Units
        /\ issuerCrashes \in 0 .. MaxIssuerCrashes
    BY Typed DEF IInv, AssertionTypeOK, Seen, Idle, Tasks
  <1>2. CASE OpenCase(w)
    <2>1. [at |-> "opening"] \in Tasks
      BY DEF Tasks
    <2> QED BY <1>1, <1>2, <2>1, LedgerWrite DEF OpenCase
  <1>3. CASE CommitCase(w)
    BY <1>3, LedgerCommit DEF CommitCase
  <1>4. ASSUME NEW u \in Units, ClaimUnit(w, u) PROVE IInv'
    <2>1. [at |-> "claimed", unit |-> u] \in Tasks
      BY DEF Tasks
    <2> QED BY <1>1, <1>4, <2>1, LedgerWrite DEF ClaimUnit
  <1>5. ASSUME NEW u \in Units, AlreadyClaimed(w, u) PROVE IInv'
    <2>1. Become(w, Idle) /\ task[w].at = "idle"
      BY <1>5 DEF AlreadyClaimed, Become, Idle, IInv, AssertionTypeOK
    <2>2. {"eligibility"} \in SUBSET Stores
      BY DEF Stores
    <2> QED BY <1>1, <1>5, <2>1, <2>2, Rollback DEF AlreadyClaimed, faultVars
  <1>6. CASE MintFails(w)
    BY <1>1, <1>6, Rollback DEF MintFails, faultVars
  <1>7. CASE SaveAssertion(w)
    <2> DEFINE next == [task[w] EXCEPT !.at = "saved"]
               image == [draft.issuer EXCEPT !.minted[mints + 1] = task[w].unit]
    <2>1. task[w].at = "claimed" /\ task[w].unit \in Units /\ mints + 1 \in AssertionIds
          /\ mints' = mints + 1 /\ mints' \in mints .. MaxMints
      BY <1>1, <1>7, TaskKinds, AssertionIssuerAssumption DEF SaveAssertion, AssertionIds
    <2>2. next \in Tasks /\ next.at = "saved" /\ next.unit = task[w].unit
      BY <1>1, <2>1 DEF Tasks
    <2>3. Seen(w, "issuer") = draft.issuer
      BY <1>1, <1>7, Typed DEF SaveAssertion, WriteRow, CanWrite, Seen, Stores
    <2>4. /\ image \in IssuerDatabase
          /\ image.pickup = draft.issuer.pickup /\ image.accepted = draft.issuer.accepted
          /\ image.consumed = draft.issuer.consumed
          /\ \A a \in AssertionIds : image.minted[a] = IF a = mints + 1 THEN task[w].unit
                                                      ELSE draft.issuer.minted[a]
      <3>1. draft.issuer \in IssuerDatabase
        BY <1>1, Typed
      <3>2. [draft.issuer.minted EXCEPT ![mints + 1] = task[w].unit]
                \in [AssertionIds -> Units \cup {Nobody}]
        BY <2>1, <3>1 DEF IssuerDatabase
      <3> QED BY <2>1, <3>1, <3>2 DEF IssuerDatabase
    <2>5. Become(w, next) /\ WriteRow(w, "issuer", image)
          /\ UNCHANGED <<clientVars, dead, faultVars>>
      BY <1>7, <2>3 DEF SaveAssertion
    <2> HIDE DEF next, image
    <2>6. Minted(image, next.unit)
      BY <2>1, <2>2, <2>4 DEF Minted
    <2>7. \A a \in AssertionIds :
             /\ a <= mints => image.minted[a] = draft.issuer.minted[a]
             /\ a > mints' => image.minted[a] = Nobody
      BY <1>1, <2>1, <2>4 DEF IInv, DraftsGrow, AssertionIds
    <2> QED BY <2>1, <2>2, <2>4, <2>5, <2>6, <2>7, IssuerWrite
  <1>8. CASE CommitAssertion(w)
    <2>1. [task[w] EXCEPT !.at = "half"] \in Tasks
          /\ [task[w] EXCEPT !.at = "half"].at = "half"
          /\ [task[w] EXCEPT !.at = "half"].unit = task[w].unit
      BY <1>1, <1>8 DEF CommitAssertion, Tasks
    <2> QED BY <1>8, <2>1, IssuerCommit DEF CommitAssertion
  <1>9. CASE CommitClaim(w)
    BY <1>9, LedgerCommit DEF CommitClaim
  <1> QED BY <1>2, <1>3, <1>4, <1>5, <1>6, <1>7, <1>8, <1>9

LEMMA PickupSteps ==
    ASSUME IInv, NEW w \in TrustWorkers,
           \/ \E d \in Digests : AcceptHandoff(w, d) \/ FindPickup(w, d)
           \/ CommitHandoff(w)
           \/ ConsumePickup(w) \/ PickupTaken(w) \/ DeliverAssertion(w)
           \/ AssertionNotLive(w) \/ RequestLockedOut(w)
           \/ CommitRefused(w) \/ IssuerCrash(w)
    PROVE  IInv'
  <1>1. /\ AssertionTypeOK /\ task[w] \in Tasks /\ Idle \in Tasks /\ mints \in Nat
        /\ issuerCrashes \in 0 .. MaxIssuerCrashes /\ refusedCommits \in 0 .. MaxRefusedCommits
        /\ draft.issuer \in IssuerDatabase /\ mints \in mints .. MaxMints
        /\ CanWrite(w, "issuer") => Seen(w, "issuer") = draft.issuer
        /\ Seen(w, "issuer").pickup = disk.issuer.pickup
        /\ \A a \in AssertionIds : a > mints => draft.issuer.minted[a] = Nobody
    BY Typed, AssertionIssuerAssumption
       DEF IInv, AssertionTypeOK, DraftsGrow, Seen, CanWrite, Stores, Idle, Tasks
  <1>2. ASSUME NEW d \in Digests, AcceptHandoff(w, d) PROVE IInv'
    <2> DEFINE next == [at |-> "accepting", digest |-> d]
               image == [draft.issuer EXCEPT !.accepted = @ \cup {d}]
    <2>1. /\ next \in Tasks /\ image \in IssuerDatabase
          /\ image.pickup = draft.issuer.pickup /\ image.minted = draft.issuer.minted
          /\ image.consumed = draft.issuer.consumed
          /\ image.accepted = draft.issuer.accepted \cup {d}
          /\ next.at = "accepting" /\ next.digest = d
      BY <1>1 DEF Tasks, IssuerDatabase
    <2>2. /\ task[w].at = "idle" /\ d \notin draft.issuer.accepted
          /\ Become(w, next) /\ WriteRow(w, "issuer", image)
          /\ UNCHANGED <<clientVars, dead, mints, faultVars>>
      <3>1. Seen(w, "issuer") = draft.issuer /\ task[w] = Idle
        BY <1>1, <1>2 DEF AcceptHandoff, WriteRow
      <3> QED BY <1>2, <3>1 DEF AcceptHandoff, Idle
    <2>3. d \notin disk.issuer.accepted
      BY <2>2 DEF IInv, DraftsGrow
    <2> HIDE DEF next, image
    <2> QED BY <1>1, <2>1, <2>2, <2>3, IssuerWrite
  <1>3. ASSUME NEW d \in Digests, FindPickup(w, d) PROVE IInv'
    <2>1. /\ [at |-> "found", digest |-> d] \in Tasks /\ task[w].at = "idle"
          /\ disk.issuer.pickup[d] # 0
      BY <1>1, <1>3 DEF FindPickup, Tasks, Idle
    <2> QED BY <1>1, <1>3, <2>1, TaskOnly DEF FindPickup, faultVars
  <1>4. CASE CommitHandoff(w)
    <2>1. Idle.at = "idle"
      BY DEF Idle
    <2> QED BY <1>1, <1>4, <2>1, IssuerCommit DEF CommitHandoff
  <1>5. CASE ConsumePickup(w)
    <2> DEFINE next == [task[w] EXCEPT !.at = "picked"]
               image == [draft.issuer EXCEPT !.consumed = @ \cup {task[w].digest}]
    <2>1. /\ task[w].at = "found" /\ Become(w, next) /\ WriteRow(w, "issuer", image)
          /\ task[w].digest \notin draft.issuer.consumed
          /\ UNCHANGED <<clientVars, dead, mints, faultVars>>
      BY <1>1, <1>5 DEF ConsumePickup, Unconsumed, WriteRow
    <2>2. task[w].digest \in Digests
      BY <1>1, <2>1, TaskKinds
    <2>3. /\ next \in Tasks /\ image \in IssuerDatabase
          /\ image.pickup = draft.issuer.pickup /\ image.minted = draft.issuer.minted
          /\ image.accepted = draft.issuer.accepted
          /\ image.consumed = draft.issuer.consumed \cup {task[w].digest}
          /\ next.at = "picked" /\ next.digest = task[w].digest
      BY <1>1, <2>1, <2>2 DEF Tasks, IssuerDatabase
    <2>4. task[w].digest \notin disk.issuer.consumed
      BY <2>1 DEF IInv, DraftsGrow
    <2> HIDE DEF next, image
    <2> QED BY <1>1, <2>1, <2>3, <2>4, IssuerWrite
  <1>6. CASE PickupTaken(w)
    <2>1. {"issuer"} \in SUBSET Stores
      BY DEF Stores
    <2> QED BY <1>1, <1>6, <2>1, Rollback DEF PickupTaken, faultVars
  <1>7. CASE DeliverAssertion(w)
    <2>1. Idle.at = "idle"
      BY DEF Idle
    <2> QED BY <1>1, <1>7, <2>1, IssuerCommit DEF DeliverAssertion
  <1>8. CASE AssertionNotLive(w)
    <2>1. /\ Idle.at = "idle" /\ task[w].at = "picked"
          /\ draft.issuer.pickup[task[w].digest] \in dead
      BY <1>1, <1>8 DEF AssertionNotLive, Deliverable, PickedAssertion, Idle, IInv, DraftsGrow
    <2> QED BY <1>1, <1>8, <2>1, TaskOnly DEF AssertionNotLive, faultVars
  <1>9. CASE RequestLockedOut(w)
    <2>1. Idle.at = "idle"
      BY DEF Idle
    <2> QED BY <1>1, <1>9, <2>1, TaskOnly DEF RequestLockedOut, faultVars
  <1>10. CASE CommitRefused(w)
    <2>1. Idle.at = "idle" /\ refusedCommits' \in refusedCommits .. MaxRefusedCommits
          /\ refusedCommits' > refusedCommits
      BY <1>1, <1>10, AssertionIssuerAssumption DEF CommitRefused, Idle
    <2> QED BY <1>1, <1>10, <2>1, TaskOnly DEF CommitRefused
  <1>11. CASE IssuerCrash(w)
    <2>1. issuerCrashes' \in 0 .. MaxIssuerCrashes
      BY <1>1, <1>11, AssertionIssuerAssumption DEF IssuerCrash
    <2> QED BY <1>11, <2>1, Rollback DEF IssuerCrash
  <1> QED BY <1>2, <1>3, <1>4, <1>5, <1>6, <1>7, <1>8, <1>9, <1>10, <1>11

LEMMA NextHolds == IInv /\ [AssertionNext]_assertionVars => IInv'
  <1> SUFFICES ASSUME IInv, [AssertionNext]_assertionVars PROVE IInv'
    OBVIOUS
  <1>1. CASE UNCHANGED assertionVars
    <2> USE <1>1 DEF assertionVars, databaseVars, clientVars, faultVars
    <2>1. AssertionTypeOK' /\ DraftsGrow'
      BY DEF IInv, AssertionTypeOK, DraftsGrow
    <2>2. \A w \in TrustWorkers : Worker(w)'
      BY DEF IInv, Worker, IssuerPending, LedgerPending, IssuerLockExplained, DeadLeftover
    <2>3. ConsumptionPending' /\ SingleUse' /\ ClaimedMeansAssertion' /\ ConsumedMeansDelivered'
      BY DEF IInv, ConsumptionPending, SingleUse, ClaimedMeansAssertion, AssertionsFor,
             ConsumedMeansDelivered
    <2> QED BY <2>1, <2>2, <2>3 DEF IInv
  <1>2. CASE AssertionNext
    BY <1>2, RequestSteps, PickupSteps, Provision, Dies DEF AssertionNext
  <1> QED BY <1>1, <1>2

LEMMA AlwaysHolds == AssertionSpec => []IInv
  BY InitHolds, NextHolds, PTL DEF AssertionSpec

-----------------------------------------------------------------------------
(* Every reachable state has the types the model declares; among them, a   *)
(* database whose lock is free has nothing pending.                        *)
THEOREM TypeCorrect == AssertionSpec => []AssertionTypeOK
  BY AlwaysHolds, PTL DEF IInv

(* No handoff is accepted twice and no pickup delivers twice, whoever      *)
(* races, whoever crashes and whichever commit is refused                  *)
(* (handoff.accept, assertion.pickup.consume).                             *)
THEOREM UsedOnce == AssertionSpec => []SingleUse
  BY AlwaysHolds, PTL DEF IInv

(* Unless a commit raises, nobody is locked out by a mint that failed: a   *)
(* used unit has its assertion (assertion.mint).                           *)
THEOREM ClaimsHaveAssertions == AssertionSpec => []ClaimedMeansAssertion
  BY AlwaysHolds, PTL DEF IInv

(* Unless a commit raises, only the pickup of a dead assertion is used up  *)
(* without a delivery (assertion.pickup.consume).                          *)
THEOREM ConsumptionsDeliver == AssertionSpec => []ConsumedMeansDelivered
  BY AlwaysHolds, PTL DEF IInv

(* Unless a commit raises, no worker that serves nothing holds a lock, but *)
(* for one whose consumption of a dead assertion waits for its next commit.*)
THEOREM LocksComeBack == AssertionSpec => []LocksAreReleased
  <1>1. IInv => LocksAreReleased
    <2> SUFFICES ASSUME IInv, NEW s \in Stores, holder[s] # Nobody, task[holder[s]] = Idle,
                        refusedCommits = 0
                 PROVE  s = "issuer" /\ DeadLeftover
      BY DEF LocksAreReleased, DeadLeftover
    <2>1. holder[s] \in TrustWorkers /\ task[holder[s]].at = "idle"
      BY DEF IInv, AssertionTypeOK, Idle
    <2>2. s = "issuer"
      BY <2>1 DEF IInv, Worker, LedgerPending, Stores
    <2> QED BY <2>1, <2>2 DEF IInv, Worker, IssuerLockExplained
  <1> QED BY <1>1, AlwaysHolds, PTL

(* A pickup is served once, whoever races or crashes                       *)
(* (handoff.accept, assertion.pickup.consume).                             *)
THEOREM PickupsServe == AssertionSpec => []PickupsServeOnce
  BY UsedOnce, ConsumptionsDeliver, PTL DEF PickupsServeOnce

-----------------------------------------------------------------------------
(* How many assertions a unit can have.  A unit's next assertion needs its *)
(* claim, a claim needs the unit to be unused, and a unit that has its     *)
(* assertions is unused again only after a loss: a crash or a refused      *)
(* commit.                                                                 *)

MintedFor(u) == {a \in AssertionIds : draft.issuer.minted[a] = u}
Losses == issuerCrashes + refusedCommits

(* A worker keeps its claim, uncommitted, until it is done with the unit.  *)
ClaimOf(w) ==
    task[w].at \in {"claimed", "saved", "half"} =>
        /\ holder["eligibility"] = w /\ task[w].unit \in draft.eligibility
        /\ task[w].at = "claimed" => task[w].unit \notin disk.eligibility

Minting(u) ==
    \E w \in TrustWorkers : task[w].at \in {"saved", "half"} /\ task[w].unit = u

Budget ==
    \A u \in Units :
        /\ Cardinality(MintedFor(u)) <= 1 + Losses
        /\ u \notin disk.eligibility /\ ~Minting(u) => Cardinality(MintedFor(u)) <= Losses

RationInv == (\A w \in TrustWorkers : ClaimOf(w)) /\ Budget

(* What a step of w that mints nothing does to the databases.              *)
NoNewMint ==
    \A a \in AssertionIds : draft'.issuer.minted[a] \in {draft.issuer.minted[a], Nobody}

LedgerOfOthers(w) ==
    /\ disk.eligibility \subseteq disk'.eligibility
    /\ \A v \in TrustWorkers \ {w} : holder["eligibility"] = v =>
          /\ holder'["eligibility"] = v
          /\ draft'.eligibility = draft.eligibility /\ disk'.eligibility = disk.eligibility

LEMMA MintedFinite ==
    ASSUME NEW u
    PROVE  IsFiniteSet(MintedFor(u)) /\ Cardinality(MintedFor(u)) \in Nat
<1>1. IsFiniteSet(1 .. MaxMints)
  BY AssertionIssuerAssumption, FS_Interval
<1>2. MintedFor(u) \subseteq 1 .. MaxMints
  BY DEF MintedFor, AssertionIds
<1>3. QED
  BY <1>1, <1>2, FS_Subset, FS_CardinalityType

LEMMA MintedShrinks ==
    ASSUME NoNewMint, NEW u \in Units
    PROVE  /\ Cardinality(MintedFor(u)) \in Nat /\ Cardinality(MintedFor(u)') \in Nat
           /\ Cardinality(MintedFor(u)') <= Cardinality(MintedFor(u))
<1>1. MintedFor(u)' \subseteq MintedFor(u)
  BY AssertionIssuerAssumption DEF NoNewMint, MintedFor
<1>2. QED
  BY <1>1, MintedFinite, FS_Subset, FS_CardinalityType

LEMMA LossesType == ASSUME AssertionTypeOK PROVE Losses \in Nat
BY AssertionIssuerAssumption DEF AssertionTypeOK, Losses

(* A step that mints nothing keeps the budget: it is a loss, or it keeps   *)
(* what each unit had.                                                     *)
LEMMA BudgetKept ==
    ASSUME IInv, Budget, NoNewMint,
           \/ Losses' = Losses + 1
           \/ /\ Losses' = Losses /\ disk.eligibility \subseteq disk'.eligibility
              /\ \A u \in Units : Minting(u) => Minting(u)' \/ u \in disk'.eligibility
    PROVE  Budget'
<1> SUFFICES ASSUME NEW u \in Units
             PROVE  /\ Cardinality(MintedFor(u)') <= 1 + Losses'
                    /\ u \notin disk'.eligibility /\ ~Minting(u)' =>
                           Cardinality(MintedFor(u)') <= Losses'
  BY DEF Budget
<1>1. /\ Cardinality(MintedFor(u)) \in Nat /\ Cardinality(MintedFor(u)') \in Nat
      /\ Cardinality(MintedFor(u)') <= Cardinality(MintedFor(u))
      /\ Losses \in Nat
  BY MintedShrinks, LossesType DEF IInv
<1>2. /\ Cardinality(MintedFor(u)) <= 1 + Losses
      /\ u \notin disk.eligibility /\ ~Minting(u) => Cardinality(MintedFor(u)) <= Losses
  BY DEF Budget
<1>3. CASE Losses' = Losses + 1
  BY <1>1, <1>2, <1>3
<1>4. CASE /\ Losses' = Losses /\ disk.eligibility \subseteq disk'.eligibility
           /\ Minting(u) => Minting(u)' \/ u \in disk'.eligibility
  BY <1>1, <1>2, <1>4
<1>5. QED
  BY <1>3, <1>4

(* The claims of the workers that do not move.                             *)
LEMMA ClaimsOfOthers ==
    ASSUME RationInv, NEW w \in TrustWorkers, LedgerOfOthers(w),
           \A v \in TrustWorkers \ {w} : task'[v] = task[v]
    PROVE  \A v \in TrustWorkers \ {w} : ClaimOf(v)'
BY DEF RationInv, ClaimOf, LedgerOfOthers

(* The effects of the database operations.                                 *)
LEMMA WriteEffects ==
    ASSUME IInv, NEW w \in TrustWorkers, NEW s \in Stores, NEW image, WriteRow(w, s, image),
           s = "issuer" => image.minted = draft.issuer.minted
    PROVE  /\ NoNewMint /\ LedgerOfOthers(w)
           /\ disk' = disk
           /\ s = "issuer" => /\ holder'["eligibility"] = holder["eligibility"]
                              /\ draft'.eligibility = draft.eligibility
           /\ s = "eligibility" => /\ holder'["eligibility"] = w
                                   /\ draft'.eligibility = image
<1>1. /\ draft' = [draft EXCEPT ![s] = image] /\ holder' = [holder EXCEPT ![s] = w]
      /\ disk' = disk /\ holder[s] \in {Nobody, w}
  BY DEF WriteRow, CanWrite
<1>2. /\ draft \in [eligibility : SUBSET Units, issuer : IssuerDatabase]
      /\ holder \in [Stores -> TrustWorkers \cup {Nobody}] /\ s \in {"eligibility", "issuer"}
  BY DEF IInv, AssertionTypeOK, Databases, Stores
<1>3. CASE s = "issuer"
  BY <1>1, <1>2, <1>3, AssertionIssuerAssumption DEF NoNewMint, LedgerOfOthers, Stores
<1>4. CASE s = "eligibility"
  BY <1>1, <1>2, <1>4, AssertionIssuerAssumption DEF NoNewMint, LedgerOfOthers, Stores
<1>5. QED
  BY <1>2, <1>3, <1>4

LEMMA CommitEffects ==
    ASSUME IInv, NEW w \in TrustWorkers, NEW s \in Stores, CommitOn(w, {s})
    PROVE  /\ NoNewMint /\ LedgerOfOthers(w)
           /\ draft' = draft
           /\ s = "issuer" => /\ holder'["eligibility"] = holder["eligibility"]
                              /\ disk'.eligibility = disk.eligibility
           /\ s = "eligibility" /\ holder["eligibility"] = w =>
                  disk'.eligibility = draft.eligibility
<1> DEFINE mine == {r \in {s} : holder[r] = w}
<1>1. /\ disk' = [r \in Stores |-> IF r \in mine THEN draft[r] ELSE disk[r]]
      /\ holder' = [r \in Stores |-> IF r \in mine THEN Nobody ELSE holder[r]]
      /\ draft' = draft
  BY DEF CommitOn
<1>2. /\ disk'.eligibility = IF "eligibility" \in mine THEN draft.eligibility
                             ELSE disk.eligibility
      /\ holder'["eligibility"] = IF "eligibility" \in mine THEN Nobody
                                  ELSE holder["eligibility"]
  BY <1>1, Typed DEF IInv, Stores
<1>3. disk.eligibility \subseteq draft.eligibility
  BY DEF IInv, DraftsGrow
<1>4. NoNewMint
  BY <1>1 DEF NoNewMint
<1>5. LedgerOfOthers(w)
  BY <1>1, <1>2, <1>3 DEF LedgerOfOthers
<1>6. QED
  BY <1>1, <1>2, <1>4, <1>5

LEMMA RollbackEffects ==
    ASSUME IInv, NEW w \in TrustWorkers, NEW S \in SUBSET Stores, RollbackOn(w, S)
    PROVE  NoNewMint /\ LedgerOfOthers(w) /\ disk' = disk
<1>1. /\ draft' = [r \in Stores |-> IF r \in S /\ holder[r] = w THEN disk[r] ELSE draft[r]]
      /\ holder' = [r \in Stores |-> IF r \in S /\ holder[r] = w THEN Nobody ELSE holder[r]]
      /\ disk' = disk
  BY DEF RollbackOn
<1>2. /\ draft'.issuer \in {disk.issuer, draft.issuer}
      /\ holder["eligibility"] # w => /\ draft'.eligibility = draft.eligibility
                                      /\ holder'["eligibility"] = holder["eligibility"]
  BY <1>1, Typed DEF IInv, Stores
<1>3. NoNewMint
  BY <1>2 DEF NoNewMint, IInv, DraftsGrow, AssertionTypeOK, Databases, IssuerDatabase
<1>4. LedgerOfOthers(w)
  BY <1>1, <1>2 DEF LedgerOfOthers
<1>5. QED
  BY <1>1, <1>3, <1>4

LEMMA NoEffects ==
    ASSUME IInv, NEW w \in TrustWorkers, UNCHANGED databaseVars
    PROVE  NoNewMint /\ LedgerOfOthers(w)
BY DEF databaseVars, NoNewMint, LedgerOfOthers

(* A worker that was not minting, or that stops with a loss or a committed *)
(* claim, and serves nothing or something else next.                       *)
LEMMA RationKept ==
    ASSUME IInv, RationInv, NEW w \in TrustWorkers, NEW next \in Tasks, Become(w, next),
           NoNewMint, LedgerOfOthers(w), ClaimOf(w)',
           \/ Losses' = Losses + 1
           \/ /\ Losses' = Losses
              /\ task[w].at \in {"saved", "half"} =>
                    \/ next.at \in {"saved", "half"} /\ next.unit = task[w].unit
                    \/ task[w].unit \in disk'.eligibility
    PROVE  RationInv'
<1>1. task'[w] = next /\ \A v \in TrustWorkers \ {w} : task'[v] = task[v]
  BY DEF Become, IInv, AssertionTypeOK
<1>2. \A v \in TrustWorkers : ClaimOf(v)'
  BY <1>1, ClaimsOfOthers
<1>3. Budget
  BY DEF RationInv
<1>4. CASE Losses' = Losses + 1
  <2>1. Budget'
    BY <1>3, <1>4, BudgetKept
  <2>2. QED
    BY <1>2, <2>1 DEF RationInv
<1>5. CASE /\ Losses' = Losses
           /\ task[w].at \in {"saved", "half"} =>
                    \/ next.at \in {"saved", "half"} /\ next.unit = task[w].unit
                    \/ task[w].unit \in disk'.eligibility
  <2>1. ASSUME NEW u \in Units, Minting(u) PROVE Minting(u)' \/ u \in disk'.eligibility
    <3>1. PICK v \in TrustWorkers : task[v].at \in {"saved", "half"} /\ task[v].unit = u
      BY <2>1 DEF Minting
    <3>2. QED
      BY <3>1, <1>1, <1>5 DEF Minting
  <2>2. disk.eligibility \subseteq disk'.eligibility
    BY DEF LedgerOfOthers
  <2>3. Budget'
    BY <1>3, <1>5, <2>1, <2>2, BudgetKept
  <2>4. QED
    BY <1>2, <2>3 DEF RationInv
<1>6. QED
  BY <1>4, <1>5

(* The step that mints.                                                    *)
LEMMA SaveRationed ==
    ASSUME IInv, RationInv, NEW w \in TrustWorkers, SaveAssertion(w)
    PROVE  RationInv'
<1> DEFINE next == [task[w] EXCEPT !.at = "saved"]
<1>a. /\ task[w].at = "claimed" /\ task[w].unit \in Units /\ mints + 1 \in AssertionIds
      /\ task[w] \in Tasks /\ mints \in Nat
  BY Typed, TaskKinds, AssertionIssuerAssumption DEF IInv, SaveAssertion, AssertionIds
<1>b. PICK unit \in Units : unit = task[w].unit
  BY <1>a
<1>1. /\ task[w].at = "claimed" /\ unit = task[w].unit /\ unit \in Units
      /\ mints + 1 \in AssertionIds /\ task[w] \in Tasks /\ mints \in Nat
  BY <1>a, <1>b
<1>2. next.at = "saved" /\ next.unit = unit
  BY <1>1 DEF Tasks
<1>3. /\ task'[w] = next /\ \A v \in TrustWorkers \ {w} : task'[v] = task[v]
  BY DEF SaveAssertion, Become, IInv, AssertionTypeOK
<1>4. /\ draft' = [draft EXCEPT !["issuer"] =
              [draft.issuer EXCEPT !.minted[mints + 1] = unit]]
      /\ holder' = [holder EXCEPT !["issuer"] = w] /\ disk' = disk
      /\ Losses' = Losses
  BY Typed, <1>1 DEF IInv, SaveAssertion, WriteRow, CanWrite, Seen, faultVars, Losses, Stores
<1>5. /\ draft'.eligibility = draft.eligibility
      /\ holder'["eligibility"] = holder["eligibility"]
      /\ draft'.issuer.minted = [draft.issuer.minted EXCEPT ![mints + 1] = unit]
  <2>1. /\ draft \in [eligibility : SUBSET Units, issuer : IssuerDatabase]
        /\ holder \in [Stores -> TrustWorkers \cup {Nobody}]
    BY DEF IInv, AssertionTypeOK, Databases
  <2>2. QED
    BY <1>4, <2>1 DEF IssuerDatabase, Stores
<1>6. draft.issuer.minted \in [AssertionIds -> Units \cup {Nobody}]
      /\ draft.issuer.minted[mints + 1] = Nobody
  BY <1>1, Typed DEF IInv, DraftsGrow, IssuerDatabase
<1> HIDE DEF next
<1>7. \A v \in TrustWorkers : ClaimOf(v)'
  BY <1>1, <1>2, <1>3, <1>4, <1>5 DEF RationInv, ClaimOf
<1>8. ~Minting(unit) /\ unit \notin disk.eligibility
  <2>1. holder["eligibility"] = w /\ unit \notin disk.eligibility
    BY <1>1 DEF RationInv, ClaimOf
  <2>2. \A v \in TrustWorkers : task[v].at \in {"saved", "half"} => v = w
    BY <2>1 DEF RationInv, ClaimOf
  <2>3. QED
    BY <1>1, <2>1, <2>2 DEF Minting
<1>9. Minting(unit)'
  BY <1>1, <1>2, <1>3 DEF Minting
<1>10. ASSUME NEW u \in Units
       PROVE  /\ Cardinality(MintedFor(u)') <= 1 + Losses'
              /\ u \notin disk'.eligibility /\ ~Minting(u)' =>
                     Cardinality(MintedFor(u)') <= Losses'
  <2>1. /\ IsFiniteSet(MintedFor(u)) /\ Cardinality(MintedFor(u)) \in Nat
        /\ Losses \in Nat
        /\ Cardinality(MintedFor(u)) <= 1 + Losses
        /\ u \notin disk.eligibility /\ ~Minting(u) => Cardinality(MintedFor(u)) <= Losses
    BY MintedFinite, LossesType DEF IInv, RationInv, Budget
  <2>2. CASE u = unit
    <3>1. MintedFor(u)' = MintedFor(u) \cup {mints + 1} /\ mints + 1 \notin MintedFor(u)
      BY <2>2, <1>1, <1>5, <1>6, AssertionIssuerAssumption DEF MintedFor
    <3>2. Cardinality(MintedFor(u)') = Cardinality(MintedFor(u)) + 1
      BY <3>1, <2>1, FS_AddElement
    <3>3. QED
      <4>1. Cardinality(MintedFor(u)) <= Losses /\ Minting(u)'
        BY <2>1, <2>2, <1>8, <1>9
      <4>2. QED
        BY <2>1, <3>2, <4>1, <1>4
  <2>3. CASE u # unit
    <3>1. MintedFor(u)' = MintedFor(u)
      BY <2>3, <1>1, <1>5, <1>6, AssertionIssuerAssumption DEF MintedFor
    <3>2. Minting(u) => Minting(u)'
      BY <2>3, <1>1, <1>3 DEF Minting
    <3>3. QED
      BY <2>1, <3>1, <3>2, <1>4
  <2>4. QED
    BY <2>2, <2>3
<1>11. QED
  BY <1>7, <1>10 DEF RationInv, Budget

LEMMA WorkerRationed ==
    ASSUME IInv, RationInv, NEW w \in TrustWorkers,
           \/ OpenCase(w) \/ CommitCase(w)
           \/ \E u \in Units : ClaimUnit(w, u) \/ AlreadyClaimed(w, u)
           \/ MintFails(w) \/ SaveAssertion(w) \/ CommitAssertion(w) \/ CommitClaim(w)
           \/ \E d \in Digests : AcceptHandoff(w, d) \/ FindPickup(w, d)
           \/ CommitHandoff(w)
           \/ ConsumePickup(w) \/ PickupTaken(w) \/ DeliverAssertion(w)
           \/ AssertionNotLive(w) \/ RequestLockedOut(w)
           \/ CommitRefused(w) \/ IssuerCrash(w)
    PROVE  RationInv'
<1>1. /\ AssertionTypeOK /\ task[w] \in Tasks /\ Idle \in Tasks /\ Idle.at = "idle"
      /\ CanWrite(w, "issuer") => Seen(w, "issuer") = draft.issuer
      /\ CanWrite(w, "eligibility") => Seen(w, "eligibility") = draft.eligibility
      /\ draft.issuer \in IssuerDatabase
      /\ {"issuer"} \in SUBSET Stores /\ {"eligibility"} \in SUBSET Stores
      /\ "issuer" \in Stores /\ "eligibility" \in Stores
      /\ disk.eligibility \subseteq draft.eligibility /\ ClaimOf(w)
      /\ issuerCrashes \in Nat /\ refusedCommits \in Nat
  BY Typed, AssertionIssuerAssumption
     DEF IInv, RationInv, DraftsGrow, AssertionTypeOK, Seen, CanWrite, Stores, Idle, Tasks
<1>2. ASSUME NEW next \in Tasks, Become(w, next),
             next.at \notin {"claimed", "saved", "half"}
      PROVE  ClaimOf(w)'
  BY <1>1, <1>2 DEF AssertionTypeOK, Become, ClaimOf
<1>3. CASE OpenCase(w)
  <2>1. /\ [at |-> "opening"] \in Tasks /\ [at |-> "opening"].at = "opening"
    BY DEF Tasks
  <2>2. NoNewMint /\ LedgerOfOthers(w) /\ Losses' = Losses /\ task[w].at = "idle"
    BY <1>1, <1>3, WriteEffects DEF OpenCase, faultVars, Losses
  <2>3. QED
    BY <1>2, <1>3, <2>1, <2>2, RationKept DEF OpenCase
<1>4. CASE CommitCase(w)
  <2>1. NoNewMint /\ LedgerOfOthers(w) /\ Losses' = Losses /\ task[w].at = "opening"
    BY <1>1, <1>4, CommitEffects DEF CommitCase, faultVars, Losses
  <2>2. QED
    BY <1>1, <1>2, <1>4, <2>1, RationKept DEF CommitCase
<1>5. ASSUME NEW u \in Units, ClaimUnit(w, u) PROVE RationInv'
  <2> DEFINE next == [at |-> "claimed", unit |-> u]
  <2>1. next \in Tasks /\ next.at = "claimed" /\ next.unit = u
    BY DEF Tasks
  <2>2. /\ NoNewMint /\ LedgerOfOthers(w) /\ Losses' = Losses /\ task[w].at = "idle"
        /\ Become(w, next) /\ u \notin draft.eligibility
        /\ disk' = disk /\ draft'.eligibility = draft.eligibility \cup {u}
        /\ holder'["eligibility"] = w
    <3>1. Seen(w, "eligibility") = draft.eligibility
      BY <1>1, <1>5 DEF ClaimUnit, WriteRow
    <3>2. QED
      BY <1>1, <1>5, <3>1, WriteEffects DEF ClaimUnit, faultVars, Losses
  <2> HIDE DEF next
  <2>3. ClaimOf(w)'
    BY <1>1, <2>1, <2>2 DEF AssertionTypeOK, Become, ClaimOf
  <2>4. QED
    BY <2>1, <2>2, <2>3, RationKept
<1>6. ASSUME NEW u \in Units, AlreadyClaimed(w, u) PROVE RationInv'
  <2>1. Become(w, Idle) /\ task[w].at = "idle"
    BY <1>1, <1>6 DEF AlreadyClaimed, Become, AssertionTypeOK
  <2>2. NoNewMint /\ LedgerOfOthers(w) /\ Losses' = Losses
    BY <1>1, <1>6, RollbackEffects DEF AlreadyClaimed, faultVars, Losses
  <2>3. QED
    BY <1>1, <1>2, <2>1, <2>2, RationKept
<1>7. CASE MintFails(w)
  <2>1. NoNewMint /\ LedgerOfOthers(w) /\ Losses' = Losses /\ task[w].at = "claimed"
    BY <1>1, <1>7, RollbackEffects DEF MintFails, faultVars, Losses
  <2>2. QED
    BY <1>1, <1>2, <1>7, <2>1, RationKept DEF MintFails
<1>8. CASE SaveAssertion(w)
  BY <1>8, SaveRationed
<1>9. CASE CommitAssertion(w)
  <2> DEFINE next == [task[w] EXCEPT !.at = "half"]
  <2>1. next \in Tasks /\ next.at = "half" /\ next.unit = task[w].unit /\ task[w].at = "saved"
    BY <1>1, <1>9 DEF CommitAssertion, Tasks
  <2>2. /\ NoNewMint /\ LedgerOfOthers(w) /\ Losses' = Losses /\ Become(w, next)
        /\ draft' = draft /\ holder'["eligibility"] = holder["eligibility"]
    BY <1>1, <1>9, CommitEffects DEF CommitAssertion, faultVars, Losses
  <2> HIDE DEF next
  <2>3. ClaimOf(w)'
    BY <1>1, <2>1, <2>2 DEF AssertionTypeOK, Become, ClaimOf
  <2>4. QED
    BY <2>1, <2>2, <2>3, RationKept
<1>10. CASE CommitClaim(w)
  <2>1. /\ NoNewMint /\ LedgerOfOthers(w) /\ Losses' = Losses /\ task[w].at = "half"
        /\ disk'.eligibility = draft.eligibility
    BY <1>1, <1>10, CommitEffects DEF CommitClaim, faultVars, Losses, ClaimOf
  <2>2. task[w].unit \in disk'.eligibility
    BY <1>1, <2>1 DEF ClaimOf
  <2>3. QED
    BY <1>1, <1>2, <1>10, <2>1, <2>2, RationKept DEF CommitClaim
<1>11. ASSUME NEW d \in Digests, AcceptHandoff(w, d) PROVE RationInv'
  <2>1. /\ [at |-> "accepting", digest |-> d] \in Tasks
        /\ [at |-> "accepting", digest |-> d].at = "accepting"
    BY DEF Tasks
  <2>2. [draft.issuer EXCEPT !.accepted = @ \cup {d}].minted = draft.issuer.minted
    BY <1>1 DEF IssuerDatabase
  <2>3. WriteRow(w, "issuer", [draft.issuer EXCEPT !.accepted = @ \cup {d}])
    BY <1>1, <1>11 DEF AcceptHandoff, WriteRow
  <2>4. NoNewMint /\ LedgerOfOthers(w) /\ Losses' = Losses /\ task[w].at = "idle"
    BY <1>1, <1>11, <2>2, <2>3, WriteEffects DEF AcceptHandoff, faultVars, Losses
  <2>5. QED
    BY <1>2, <1>11, <2>1, <2>4, RationKept DEF AcceptHandoff
<1>12. ASSUME NEW d \in Digests, FindPickup(w, d) PROVE RationInv'
  <2>1. /\ [at |-> "found", digest |-> d] \in Tasks
        /\ [at |-> "found", digest |-> d].at = "found"
    BY DEF Tasks
  <2>2. NoNewMint /\ LedgerOfOthers(w) /\ Losses' = Losses /\ task[w].at = "idle"
    BY <1>1, <1>12, NoEffects DEF FindPickup, faultVars, Losses
  <2>3. QED
    BY <1>2, <1>12, <2>1, <2>2, RationKept DEF FindPickup
<1>13. CASE ConsumePickup(w)
  <2> DEFINE next == [task[w] EXCEPT !.at = "picked"]
             image == [draft.issuer EXCEPT !.consumed = @ \cup {task[w].digest}]
  <2>1. task[w].at = "found" /\ next \in Tasks /\ next.at = "picked"
    BY <1>1, <1>13 DEF ConsumePickup, Tasks
  <2>2. image.minted = draft.issuer.minted
    BY <1>1 DEF IssuerDatabase
  <2>3. WriteRow(w, "issuer", image) /\ Become(w, next) /\ Losses' = Losses
    BY <1>1, <1>13 DEF ConsumePickup, WriteRow, faultVars, Losses
  <2> HIDE DEF image, next
  <2>4. NoNewMint /\ LedgerOfOthers(w)
    BY <1>1, <2>2, <2>3, WriteEffects
  <2>5. QED
    BY <1>2, <2>1, <2>3, <2>4, RationKept
<1>14. CASE CommitHandoff(w) \/ DeliverAssertion(w)
  <2>1. NoNewMint /\ LedgerOfOthers(w) /\ Losses' = Losses /\ Become(w, Idle)
        /\ task[w].at \in {"accepting", "picked"}
    BY <1>1, <1>14, CommitEffects DEF CommitHandoff, DeliverAssertion, faultVars, Losses
  <2>2. QED
    BY <1>1, <1>2, <2>1, RationKept
<1>15. CASE PickupTaken(w)
  <2>1. NoNewMint /\ LedgerOfOthers(w) /\ Losses' = Losses /\ Become(w, Idle)
        /\ task[w].at = "found"
    BY <1>1, <1>15, RollbackEffects DEF PickupTaken, faultVars, Losses
  <2>2. QED
    BY <1>1, <1>2, <2>1, RationKept
<1>16. CASE AssertionNotLive(w) \/ RequestLockedOut(w)
  <2>1. NoNewMint /\ LedgerOfOthers(w) /\ Losses' = Losses /\ Become(w, Idle)
        /\ task[w].at \in {"found", "picked"}
    BY <1>1, <1>16, NoEffects DEF AssertionNotLive, RequestLockedOut, faultVars, Losses
  <2>2. QED
    BY <1>1, <1>2, <2>1, RationKept
<1>17. CASE CommitRefused(w)
  <2>1. NoNewMint /\ LedgerOfOthers(w) /\ Losses' = Losses + 1 /\ Become(w, Idle)
    BY <1>1, <1>17, NoEffects DEF CommitRefused, Losses
  <2>2. QED
    BY <1>1, <1>2, <2>1, RationKept
<1>18. CASE IssuerCrash(w)
  <2>1. NoNewMint /\ LedgerOfOthers(w) /\ Losses' = Losses + 1 /\ Become(w, Idle)
    BY <1>1, <1>18, RollbackEffects DEF IssuerCrash, Losses
  <2>2. QED
    BY <1>1, <1>2, <2>1, RationKept
<1>19. QED
  BY <1>3, <1>4, <1>5, <1>6, <1>7, <1>8, <1>9, <1>10, <1>11, <1>12, <1>13, <1>14, <1>15,
     <1>16, <1>17, <1>18

(* Steps that leave every worker and the ledger alone.                     *)
LEMMA RationUntouched ==
    ASSUME IInv, RationInv, NoNewMint,
           UNCHANGED <<task, holder, issuerCrashes, refusedCommits>>,
           draft'.eligibility = draft.eligibility, disk'.eligibility = disk.eligibility
    PROVE  RationInv'
<1>1. \A w \in TrustWorkers : ClaimOf(w)'
  BY DEF RationInv, ClaimOf
<1>2. Losses' = Losses /\ \A u \in Units : Minting(u)' = Minting(u)
  BY DEF Losses, Minting
<1>3. Budget'
  BY <1>2, BudgetKept DEF RationInv
<1>4. QED
  BY <1>1, <1>3 DEF RationInv

LEMMA ProvisionRationed ==
    ASSUME IInv, RationInv, NEW a \in AssertionIds, NEW d \in Digests, ProvisionPickup(d, a)
    PROVE  RationInv'
<1>1. /\ draft'.issuer.minted = draft.issuer.minted
      /\ draft'.eligibility = draft.eligibility /\ disk'.eligibility = disk.eligibility
  <2>1. /\ draft \in [eligibility : SUBSET Units, issuer : IssuerDatabase]
        /\ disk \in [eligibility : SUBSET Units, issuer : IssuerDatabase]
    BY DEF IInv, AssertionTypeOK, Databases
  <2>2. QED
    BY <2>1 DEF ProvisionPickup, IssuerDatabase
<1>2. NoNewMint
  BY <1>1 DEF NoNewMint
<1>3. QED
  BY <1>1, <1>2, RationUntouched DEF ProvisionPickup, faultVars

LEMMA NextRationed == IInv /\ RationInv /\ [AssertionNext]_assertionVars => RationInv'
<1> SUFFICES ASSUME IInv, RationInv, [AssertionNext]_assertionVars PROVE RationInv'
  OBVIOUS
<1>1. CASE UNCHANGED assertionVars \/ \E a \in AssertionIds : AssertionDies(a)
  <2>1. UNCHANGED <<disk, draft, holder, task, issuerCrashes, refusedCommits>>
    BY <1>1 DEF assertionVars, databaseVars, faultVars, AssertionDies
  <2>2. NoNewMint
    BY <2>1 DEF NoNewMint
  <2>3. QED
    BY <2>1, <2>2, RationUntouched
<1>2. CASE AssertionNext
  BY <1>1, <1>2, WorkerRationed, ProvisionRationed DEF AssertionNext
<1>3. QED
  BY <1>1, <1>2

LEMMA InitRationed == AssertionInit => RationInv
<1> SUFFICES ASSUME AssertionInit PROVE RationInv
  OBVIOUS
<1>1. \A w \in TrustWorkers : ClaimOf(w)
  BY DEF AssertionInit, Idle, ClaimOf
<1>2. \A u \in Units : MintedFor(u) = {}
  BY AssertionIssuerAssumption DEF AssertionInit, MintedFor
<1>3. Losses = 0
  BY DEF AssertionInit, Losses
<1>4. Budget
  BY <1>2, <1>3, FS_EmptySet DEF Budget
<1>5. QED
  BY <1>1, <1>4 DEF RationInv

(* AssertionsAreRationed: whichever workers race for a unit, each of its   *)
(* assertions beyond the first took a crash or a refused commit of its own *)
(* (assertion.mint).                                                       *)
THEOREM MintsAreRationed == AssertionSpec => []AssertionsAreRationed
<1>1. AssertionSpec => []RationInv
  BY InitRationed, NextRationed, AlwaysHolds, PTL DEF AssertionSpec
<1>2. IInv /\ RationInv => AssertionsAreRationed
  <2> SUFFICES ASSUME IInv, RationInv, NEW u \in Units
               PROVE  Cardinality(AssertionsFor(u)) <= 1 + issuerCrashes + refusedCommits
    BY DEF AssertionsAreRationed
  <2>1. AssertionsFor(u) \subseteq MintedFor(u)
    BY AssertionIssuerAssumption DEF IInv, DraftsGrow, AssertionsFor, MintedFor
  <2>2. /\ IsFiniteSet(AssertionsFor(u)) /\ Cardinality(AssertionsFor(u)) \in Nat
        /\ Cardinality(MintedFor(u)) \in Nat
        /\ Cardinality(AssertionsFor(u)) <= Cardinality(MintedFor(u))
    BY <2>1, MintedFinite, FS_Subset, FS_CardinalityType
  <2>3. Cardinality(MintedFor(u)) <= 1 + (issuerCrashes + refusedCommits)
    BY DEF RationInv, Budget, Losses
  <2>4. issuerCrashes \in Nat /\ refusedCommits \in Nat
    BY AssertionIssuerAssumption DEF IInv, AssertionTypeOK
  <2>5. QED
    BY <2>2, <2>3, <2>4
<1>3. QED
  BY <1>1, <1>2, AlwaysHolds, PTL
=============================================================================
