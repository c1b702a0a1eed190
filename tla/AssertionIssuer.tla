-------------------------- MODULE AssertionIssuer --------------------------
(***************************************************************************)
(* The identity side of the voting trust boundary (eligibility-service,    *)
(* voting_trust_api.py over voting_trust_sql_storage.py): claiming a       *)
(* participation unit and minting its assertion, accepting a handoff and   *)
(* handing the assertion out through a one-time pickup.                    *)
(*                                                                         *)
(* A worker serves one request at a time over two connections, one to the  *)
(* eligibility database and one to the assertion issuer's.  Each database  *)
(* has one write lock, and no transaction spans the two.                   *)
(***************************************************************************)
EXTENDS Integers, FiniteSets

CONSTANTS
    TrustWorkers,       \* processes, each with its two connections
    Nobody,             \* holds no lock
    Units,              \* participation units of the voting context
    Digests,            \* digests of handoff artifacts
    MaxMints,           \* bound: assertions minted
    MaxIssuerCrashes,   \* bound: workers that die and are started again
    MaxRefusedCommits   \* bound: commits that raise (database busy, disk full)

ASSUME AssertionIssuerAssumption ==
    /\ Nobody \notin TrustWorkers /\ Nobody \notin Units
    /\ MaxMints \in Nat /\ MaxIssuerCrashes \in Nat /\ MaxRefusedCommits \in Nat

VARIABLES
    disk,           \* what is committed in the two databases
    draft,          \* the same, as the holder of each write lock sees it
    holder,         \* [database -> worker holding its write lock, or Nobody]
    task,           \* [worker -> where its request stands]
    acceptances,    \* [digest -> handoffs answered with a success]
    deliveries,     \* [digest -> assertions handed out]
    dead,           \* assertions that expired or were revoked
    mints, issuerCrashes, refusedCommits   \* the counters behind the bounds

databaseVars == <<disk, draft, holder>>
clientVars == <<acceptances, deliveries>>
faultVars == <<issuerCrashes, refusedCommits>>
assertionVars == <<databaseVars, task, clientVars, dead, mints, faultVars>>

-----------------------------------------------------------------------------
(* Data *)

(* An assertion identifier is drawn fresh for every mint: its number.      *)
AssertionIds == 1 .. MaxMints

(* No table relates an assertion to a unit; minted keeps it for the sake   *)
(* of the properties, for each assertion that is stored and queued.        *)
IssuerDatabase ==
    [minted   : [AssertionIds -> Units \cup {Nobody}],
     pickup   : [Digests -> {0} \cup AssertionIds],
     consumed : SUBSET Digests,
     accepted : SUBSET Digests]

Databases == [eligibility : SUBSET Units, issuer : IssuerDatabase]

Stores == {"eligibility", "issuer"}

Idle == [at |-> "idle"]
Tasks ==
    [at : {"idle", "opening"}]
    \cup [at : {"claimed", "saved", "half"}, unit : Units]
    \cup [at : {"accepting", "found", "picked"}, digest : Digests]

AssertionInit ==
    /\ disk = [eligibility |-> {},
               issuer |-> [minted |-> [a \in AssertionIds |-> Nobody],
                           pickup |-> [d \in Digests |-> 0],
                           consumed |-> {}, accepted |-> {}]]
    /\ draft = disk
    /\ holder = [s \in Stores |-> Nobody]
    /\ task = [w \in TrustWorkers |-> Idle]
    /\ acceptances = [d \in Digests |-> 0] /\ deliveries = [d \in Digests |-> 0]
    /\ dead = {}
    /\ mints = 0 /\ issuerCrashes = 0 /\ refusedCommits = 0

-----------------------------------------------------------------------------
(* SQLite through Python's sqlite3 *)

Seen(w, s) == IF holder[s] = w THEN draft[s] ELSE disk[s]

CanWrite(w, s) == holder[s] \in {Nobody, w}

(* An INSERT or UPDATE takes the write lock, which the connection keeps    *)
(* until it commits or rolls back.                                         *)
WriteRow(w, s, image) ==
    /\ CanWrite(w, s)
    /\ holder' = [holder EXCEPT ![s] = w]
    /\ draft' = [draft EXCEPT ![s] = image]
    /\ UNCHANGED disk

(* commit() on the connections of w to the stores in S.                    *)
CommitOn(w, S) ==
    LET mine == {s \in S : holder[s] = w} IN
    /\ disk' = [s \in Stores |-> IF s \in mine THEN draft[s] ELSE disk[s]]
    /\ holder' = [s \in Stores |-> IF s \in mine THEN Nobody ELSE holder[s]]
    /\ UNCHANGED draft

(* rollback(), or the connection's end.                                    *)
RollbackOn(w, S) ==
    LET mine == {s \in S : holder[s] = w} IN
    /\ draft' = [s \in Stores |-> IF s \in mine THEN disk[s] ELSE draft[s]]
    /\ holder' = [s \in Stores |-> IF s \in mine THEN Nobody ELSE holder[s]]
    /\ UNCHANGED disk

Become(w, next) == task' = [task EXCEPT ![w] = next]

-----------------------------------------------------------------------------
(* eligibility.case.open: what it changes here is the commit it brings.    *)

OpenCase(w) ==
    /\ task[w] = Idle
    /\ WriteRow(w, "eligibility", Seen(w, "eligibility"))
    /\ Become(w, [at |-> "opening"])
    /\ UNCHANGED <<clientVars, dead, mints, faultVars>>

CommitCase(w) ==
    /\ task[w].at = "opening"
    /\ CommitOn(w, {"eligibility"})
    /\ Become(w, Idle)
    /\ UNCHANGED <<clientVars, dead, mints, faultVars>>

-----------------------------------------------------------------------------
(* assertion.mint *)

(* Mutant of ClaimUnit: the ledger is looked up, and written by nobody.    *)
ClaimUnitLookedUp(w, u) ==
    /\ task[w] = Idle
    /\ u \notin Seen(w, "eligibility")
    /\ Become(w, [at |-> "claimed", unit |-> u])
    /\ UNCHANGED <<databaseVars, clientVars, dead, mints, faultVars>>

(* The INSERT into the ledger, whose primary key is the exactly-once check.*)
ClaimUnit(w, u) ==
    /\ task[w] = Idle
    /\ u \notin Seen(w, "eligibility")
    /\ WriteRow(w, "eligibility", Seen(w, "eligibility") \cup {u})
    /\ Become(w, [at |-> "claimed", unit |-> u])
    /\ UNCHANGED <<clientVars, dead, mints, faultVars>>

(* Mutant of AlreadyClaimed: the refusal leaves the connection as it is.   *)
AlreadyClaimedNoRollback(w, u) ==
    /\ task[w] = Idle
    /\ u \in Seen(w, "eligibility")
    /\ WriteRow(w, "eligibility", Seen(w, "eligibility"))
    /\ UNCHANGED <<task, clientVars, dead, mints, faultVars>>

(* The INSERT is refused, and the eligibility connection rolled back.      *)
AlreadyClaimed(w, u) ==
    /\ task[w] = Idle
    /\ u \in Seen(w, "eligibility")
    /\ CanWrite(w, "eligibility")
    /\ RollbackOn(w, {"eligibility"})
    /\ UNCHANGED <<task, clientVars, dead, mints, faultVars>>

(* Mutant of MintFails: the claim is not rolled back.                      *)
MintFailsKeepingClaim(w) ==
    /\ task[w].at = "claimed"
    /\ RollbackOn(w, {"issuer"})
    /\ Become(w, Idle)
    /\ UNCHANGED <<clientVars, dead, mints, faultVars>>

(* No key service, a malformed field, a release the queue entry refuses,   *)
(* the issuer's database locked: the rollback guard undoes the claim.      *)
MintFails(w) ==
    /\ task[w].at = "claimed"
    /\ RollbackOn(w, Stores)
    /\ Become(w, Idle)
    /\ UNCHANGED <<clientVars, dead, mints, faultVars>>

(* The assertion and its queue entry.                                      *)
SaveAssertion(w) ==
    LET image == Seen(w, "issuer") IN
    /\ task[w].at = "claimed"
    /\ mints < MaxMints
    /\ mints' = mints + 1
    /\ WriteRow(w, "issuer", [image EXCEPT !.minted[mints + 1] = task[w].unit])
    /\ Become(w, [task[w] EXCEPT !.at = "saved"])
    /\ UNCHANGED <<clientVars, dead, faultVars>>

CommitAssertion(w) ==
    /\ task[w].at = "saved"
    /\ CommitOn(w, {"issuer"})
    /\ Become(w, [task[w] EXCEPT !.at = "half"])
    /\ UNCHANGED <<clientVars, dead, mints, faultVars>>

CommitClaim(w) ==
    /\ task[w].at = "half"
    /\ CommitOn(w, {"eligibility"})
    /\ Become(w, Idle)
    /\ UNCHANGED <<clientVars, dead, mints, faultVars>>

-----------------------------------------------------------------------------
(* handoff.accept *)

(* A digest that was presented before is refused on sight; the loser of a  *)
(* race is refused by the primary key, and rolls back to where it was.     *)
AcceptHandoff(w, d) ==
    LET image == Seen(w, "issuer") IN
    /\ task[w] = Idle
    /\ d \notin image.accepted
    /\ WriteRow(w, "issuer", [image EXCEPT !.accepted = @ \cup {d}])
    /\ Become(w, [at |-> "accepting", digest |-> d])
    /\ UNCHANGED <<clientVars, dead, mints, faultVars>>

CommitHandoff(w) ==
    /\ task[w].at = "accepting"
    /\ CommitOn(w, {"issuer"})
    /\ acceptances' = [acceptances EXCEPT ![task[w].digest] = @ + 1]
    /\ Become(w, Idle)
    /\ UNCHANGED <<deliveries, dead, mints, faultVars>>

-----------------------------------------------------------------------------
(* assertion.pickup.consume *)

(* The pickup as it is read: unconsumed, and not expired.                  *)
FindPickup(w, d) ==
    /\ task[w] = Idle
    /\ Seen(w, "issuer").pickup[d] # 0
    /\ d \notin Seen(w, "issuer").consumed
    /\ Become(w, [at |-> "found", digest |-> d])
    /\ UNCHANGED <<databaseVars, clientVars, dead, mints, faultVars>>

(* Mutant of Unconsumed: the UPDATE has no "consumed_at IS NULL".          *)
UnconsumedUnchecked(w) == Seen(w, "issuer").pickup[task[w].digest] # 0

Unconsumed(w) == task[w].digest \notin Seen(w, "issuer").consumed

ConsumePickup(w) ==
    LET image == Seen(w, "issuer") IN
    /\ task[w].at = "found"
    /\ Unconsumed(w)
    /\ WriteRow(w, "issuer", [image EXCEPT !.consumed = @ \cup {task[w].digest}])
    /\ Become(w, [task[w] EXCEPT !.at = "picked"])
    /\ UNCHANGED <<clientVars, dead, mints, faultVars>>

PickupTaken(w) ==
    /\ task[w].at = "found"
    /\ ~Unconsumed(w)
    /\ CanWrite(w, "issuer")
    /\ RollbackOn(w, {"issuer"})
    /\ Become(w, Idle)
    /\ UNCHANGED <<clientVars, dead, mints, faultVars>>

PickedAssertion(w) == Seen(w, "issuer").pickup[task[w].digest]

(* Mutant of Deliverable: a check of the handoff, after the UPDATE.        *)
DeliverableAccepted(w) ==
    /\ PickedAssertion(w) \notin dead
    /\ task[w].digest \in Seen(w, "issuer").accepted

Deliverable(w) == PickedAssertion(w) \notin dead

DeliverAssertion(w) ==
    /\ task[w].at = "picked"
    /\ Deliverable(w)
    /\ CommitOn(w, {"issuer"})
    /\ deliveries' = [deliveries EXCEPT ![task[w].digest] = @ + 1]
    /\ Become(w, Idle)
    /\ UNCHANGED <<acceptances, dead, mints, faultVars>>

(* assert_live raises: the consumption stays in the open transaction.      *)
AssertionNotLive(w) ==
    /\ task[w].at = "picked"
    /\ ~Deliverable(w)
    /\ Become(w, Idle)
    /\ UNCHANGED <<databaseVars, clientVars, dead, mints, faultVars>>

-----------------------------------------------------------------------------
(* Faults and the surroundings *)

(* The UPDATE or the first INSERT finds the lock taken and raises.         *)
RequestLockedOut(w) ==
    /\ task[w].at = "found"
    /\ ~CanWrite(w, "issuer")
    /\ Become(w, Idle)
    /\ UNCHANGED <<databaseVars, clientVars, dead, mints, faultVars>>

(* commit() raises; the handler has no guard around it.                    *)
CommitRefused(w) ==
    /\ task[w].at \in {"opening", "saved", "half", "accepting"} \/
          (task[w].at = "picked" /\ Deliverable(w))
    /\ refusedCommits < MaxRefusedCommits
    /\ refusedCommits' = refusedCommits + 1
    /\ Become(w, Idle)
    /\ UNCHANGED <<databaseVars, clientVars, dead, mints, issuerCrashes>>

IssuerCrash(w) ==
    /\ issuerCrashes < MaxIssuerCrashes
    /\ issuerCrashes' = issuerCrashes + 1
    /\ RollbackOn(w, Stores)
    /\ Become(w, Idle)
    /\ UNCHANGED <<clientVars, dead, mints, refusedCommits>>

(* The row that binds a handoff to an assertion is written by a process    *)
(* that is not part of the repository, one pickup for each assertion.      *)
ProvisionPickup(d, a) ==
    /\ holder["issuer"] = Nobody
    /\ disk.issuer.minted[a] # Nobody
    /\ disk.issuer.pickup[d] = 0
    /\ \A e \in Digests : disk.issuer.pickup[e] # a
    /\ disk' = [disk EXCEPT !.issuer.pickup[d] = a]
    /\ draft' = [draft EXCEPT !.issuer.pickup[d] = a]
    /\ UNCHANGED <<holder, task, clientVars, dead, mints, faultVars>>

(* Time passes its expiry.                                                 *)
AssertionDies(a) ==
    /\ disk.issuer.minted[a] # Nobody
    /\ dead' = dead \cup {a}
    /\ UNCHANGED <<databaseVars, task, clientVars, mints, faultVars>>

AssertionNext ==
    \/ \E w \in TrustWorkers :
          \/ OpenCase(w) \/ CommitCase(w)
          \/ \E u \in Units : ClaimUnit(w, u) \/ AlreadyClaimed(w, u)
          \/ MintFails(w) \/ SaveAssertion(w) \/ CommitAssertion(w) \/ CommitClaim(w)
          \/ \E d \in Digests : AcceptHandoff(w, d) \/ FindPickup(w, d)
          \/ CommitHandoff(w)
          \/ ConsumePickup(w) \/ PickupTaken(w) \/ DeliverAssertion(w)
          \/ AssertionNotLive(w) \/ RequestLockedOut(w)
          \/ CommitRefused(w) \/ IssuerCrash(w)
    \/ \E a \in AssertionIds : AssertionDies(a) \/ \E d \in Digests : ProvisionPickup(d, a)

AssertionSpec == AssertionInit /\ [][AssertionNext]_assertionVars

-----------------------------------------------------------------------------
(* Properties *)

AssertionsFor(u) == {a \in AssertionIds : disk.issuer.minted[a] = u}

(* Both databases keep their types, and a database whose lock nobody holds *)
(* has no writes pending.                                                  *)
AssertionTypeOK ==
    /\ disk \in Databases /\ draft \in Databases
    /\ holder \in [Stores -> TrustWorkers \cup {Nobody}]
    /\ \A s \in Stores : holder[s] = Nobody => draft[s] = disk[s]
    /\ task \in [TrustWorkers -> Tasks]
    /\ acceptances \in [Digests -> Nat] /\ deliveries \in [Digests -> Nat]
    /\ dead \subseteq AssertionIds
    /\ mints \in 0 .. MaxMints
    /\ issuerCrashes \in 0 .. MaxIssuerCrashes
    /\ refusedCommits \in 0 .. MaxRefusedCommits

(* A unit is marked as used only if its assertion exists, whichever step a *)
(* worker dies at and whoever races it: nobody is locked out by a mint     *)
(* that failed.  Only a commit that raises can break this.                 *)
ClaimedMeansAssertion ==
    refusedCommits = 0 => \A u \in disk.eligibility : AssertionsFor(u) # {}

(* Workers racing for one unit never mint twice: every assertion a unit    *)
(* has beyond the first took a crash or a refused commit of its own.       *)
AssertionsAreRationed ==
    \A u \in Units : Cardinality(AssertionsFor(u)) <= 1 + issuerCrashes + refusedCommits

(* One handoff is accepted once and one pickup delivers once, and by then  *)
(* the database says so: no crash brings either back.                      *)
SingleUse ==
    \A d \in Digests :
        /\ acceptances[d] <= 1 /\ (acceptances[d] = 1 => d \in disk.issuer.accepted)
        /\ deliveries[d] <= 1 /\ (deliveries[d] = 1 => d \in disk.issuer.consumed)

(* A pickup is used up without a delivery only for an assertion that was   *)
(* dead, though the refusal of a dead one leaves its consumption to be     *)
(* committed by whatever that connection does next.                        *)
ConsumedMeansDelivered ==
    refusedCommits = 0 =>
        \A d \in disk.issuer.consumed : deliveries[d] = 1 \/ disk.issuer.pickup[d] \in dead

(* A pickup is served once: no delivery or acceptance is doubled, and none *)
(* is lost but that of a dead assertion.                                   *)
PickupsServeOnce == SingleUse /\ ConsumedMeansDelivered

(* A write lock is left with a worker that serves nothing only by a commit *)
(* that was refused or by the refusal of a dead assertion: no other path   *)
(* shuts the other workers out of a database.                              *)
LocksAreReleased ==
    \A s \in Stores :
        holder[s] # Nobody /\ task[holder[s]] = Idle /\ refusedCommits = 0 =>
            /\ s = "issuer"
            /\ \E d \in draft.issuer.consumed \ disk.issuer.consumed :
                  draft.issuer.pickup[d] \in dead

(* voting_trust_api.py:317, "Claiming first is what makes the identity-side*)
(* half of the split exactly-once rule hold under a retry: a second call   *)
(* loses on the ledger's primary key before a second assertion exists".    *)
OneAssertionPerUnit == \A u \in Units : Cardinality(AssertionsFor(u)) <= 1
=============================================================================
