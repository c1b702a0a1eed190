-------------------------- MODULE VotingCredential --------------------------
(***************************************************************************)
(* The voting credential issuer (credential-service,                       *)
(* voting_credential_application.py behind voting_credential_api.py) over  *)
(* its SQLite database (voting_credential_sql_storage.py).                 *)
(*                                                                         *)
(* Each worker serves one request at a time over a connection of its own.  *)
(* A handler reads, writes and commits; nothing rolls back when a handler  *)
(* raises: the dispatcher turns the exception into an answer and leaves    *)
(* the connection as it is, so a refused request may leave writes, and the *)
(* database's write lock, to that connection's next request.               *)
(***************************************************************************)
EXTENDS Integers, FiniteSets

CONSTANTS
    Workers,        \* processes, each with a connection to the database
    Nonces,         \* assertion nonces
    Keys,           \* idempotency keys
    MaxRequests,    \* bound: requests served
    MaxCrashes,     \* bound: workers that die and are started again
    None            \* "no value"

ASSUME VotingCredentialAssumption ==
    /\ MaxRequests \in Nat /\ MaxCrashes \in Nat
    /\ None \notin Nat /\ None \notin Workers

VARIABLES
    db,         \* the committed database
    pending,    \* the database as the holder of the write lock sees it
    writer,     \* the connection that holds the write lock, or None
    open,       \* the connections inside a transaction
    readers,    \* those that have read in it, and block every commit
    job,        \* [Workers -> the request being served]
    answered,   \* what has been handed out with a success: kind and id
    requests, crashes   \* the counters behind the two bounds

lockVars == <<writer, pending, open, readers>>
boundVars == <<requests, crashes>>
vars == <<db, lockVars, job, answered, boundVars>>

-----------------------------------------------------------------------------
(* Data *)

(* Credential ids and redemption references are drawn fresh for every      *)
(* request; the number of the request stands for what it draws.            *)
Ids == 1 .. MaxRequests

(* What is wrong with a request.  "refused": what the handlers check       *)
(* before they touch the database (origin, channel, window, assertion,     *)
(* dual control); "mismatch": what they check on the credential they read  *)
(* (audience, context, expiry, cutoff); "expired": past the end of the     *)
(* idempotency record; "late": a redemption window that ends before the    *)
(* credential's bucketed issue time.                                       *)
IssueRequest == [op : {"issue"}, nonce : Nonces, key : Keys,
                 flaw : {"none", "refused", "expired", "late"}]
CredentialRequest == [op : {"redeem", "revoke", "status"}, credential : Ids,
                      flaw : {"none", "refused", "mismatch"}]
Requests == IssueRequest \cup CredentialRequest

Job == [pc : {"begun", "looked", "replay", "written"}, req : Requests, id : Ids]

Issued == [status |-> "issued", reference |-> None]
Redeemed(reference) == [status |-> "redeemed", reference |-> reference]

(* Mutant of Revoked: the row keeps the reference it is given.             *)
RevokedKeepingReference(id) == [status |-> "revoked", reference |-> id]

(* The row revoke_unredeemed builds has no redemption reference.           *)
Revoked(id) == [status |-> "revoked", reference |-> None]

VotingCredential ==
    [status : {"issued", "revoked"}, reference : {None}]
    \cup [status : {"redeemed"}, reference : Ids]

Database ==
    [credentials : [Ids -> VotingCredential \cup {None}],
     spent       : SUBSET Nonces,
     idempotency : [Keys -> Ids \cup {None}],
     redemptions : [Ids -> Ids \cup {None}],    \* reference -> credential
     replays     : Nat]

ASSUME NoneAssumption ==
    /\ None \notin Job /\ None \notin VotingCredential /\ None \notin Database
    /\ None \notin {"issued", "redeemed", "revoked"}

Empty ==
    [credentials |-> [c \in Ids |-> None], spent |-> {},
     idempotency |-> [k \in Keys |-> None],
     redemptions |-> [r \in Ids |-> None], replays |-> 0]

Init ==
    /\ db = Empty
    /\ pending = None /\ writer = None
    /\ open = {} /\ readers = {}
    /\ job = [w \in Workers |-> None]
    /\ answered = {}
    /\ requests = 0 /\ crashes = 0

-----------------------------------------------------------------------------
(* SQLite, in rollback-journal mode, through Python's sqlite3              *)

(* A connection sees its own uncommitted writes, and nobody else's.        *)
View(w) == IF writer = w THEN pending ELSE db

(* A SELECT: inside a transaction, the shared lock it takes is kept.       *)
Select(w) ==
    /\ readers' = IF w \in open THEN readers \cup {w} ELSE readers
    /\ UNCHANGED <<db, writer, pending, open>>

(* An INSERT begins a transaction if there is none and takes the write     *)
(* lock, which stays with the connection even if the row is refused.       *)
Write(w, image) ==
    /\ writer \in {None, w}
    /\ writer' = w
    /\ open' = open \cup {w}
    /\ pending' = image
    /\ UNCHANGED <<db, readers>>

(* connection.commit()                                                     *)
EndTransaction(w) ==
    /\ open' = open \ {w}
    /\ readers' = readers \ {w}
    /\ IF writer = w
       THEN db' = pending /\ writer' = None /\ pending' = None
       ELSE UNCHANGED <<db, writer, pending>>

-----------------------------------------------------------------------------
(* What the stores write into an image of the database *)

(* The upsert of SqlVotingCredentialStore.save has no guard on the status. *)
WithCredential(image, c, row) ==
    [image EXCEPT !.credentials = [@ EXCEPT ![c] = row]]

WithNonce(image, nonce) == [image EXCEPT !.spent = @ \cup {nonce}]

WithIssuance(image, req, c) ==
    [WithCredential(WithNonce(image, req.nonce), c, Issued) EXCEPT
        !.idempotency = [@ EXCEPT ![req.key] = c]]

(* Mutant of WithRedemption: the credential is saved, the redemption never.*)
WithRedemptionUnsaved(image, reference, c) ==
    WithCredential(image, c, Redeemed(reference))

WithRedemption(image, reference, c) ==
    [WithCredential(image, c, Redeemed(reference)) EXCEPT
        !.redemptions = [@ EXCEPT ![reference] = c]]

-----------------------------------------------------------------------------
(* Handlers *)

(* A client names only credentials it can have heard of.                   *)
Begin(w, r) ==
    /\ job[w] = None
    /\ requests < MaxRequests
    /\ r \in CredentialRequest => r.credential <= requests
    /\ requests' = requests + 1
    /\ job' = [job EXCEPT ![w] = [pc |-> "begun", req |-> r, id |-> requests + 1]]
    /\ UNCHANGED <<db, lockVars, answered, crashes>>

At(w, pc, op) == job[w] # None /\ job[w].pc = pc /\ job[w].req.op = op

Goto(w, pc) ==
    /\ job' = [job EXCEPT ![w].pc = pc]
    /\ UNCHANGED <<answered, boundVars>>

(* The handler raises: no rollback, and no commit either.                  *)
Raise(w) ==
    /\ job' = [job EXCEPT ![w] = None]
    /\ UNCHANGED <<answered, boundVars>>

RefuseUnread(w) ==
    /\ job[w] # None /\ job[w].pc = "begun"
    /\ job[w].req.flaw = "refused"
    /\ Raise(w)
    /\ UNCHANGED <<db, lockVars>>

LookUpKey(w) ==
    LET hit == View(w).idempotency[job[w].req.key] IN
    /\ At(w, "begun", "issue")
    /\ job[w].req.flaw # "refused"
    /\ Select(w)
    /\ IF hit # None /\ job[w].req.flaw # "expired"
       THEN job' = [job EXCEPT ![w].pc = "written", ![w].id = hit]
       ELSE job' = [job EXCEPT ![w].pc = "looked"]
    /\ UNCHANGED <<answered, boundVars>>

(* Mutant of NonceSpent: only the idempotency record is looked at.         *)
NonceSpentUnderKey(w) == View(w).idempotency[job[w].req.key] # None

NonceSpent(w) == job[w].req.nonce \in View(w).spent

RefuseSpentNonce(w) ==
    /\ At(w, "looked", "issue")
    /\ NonceSpent(w)
    /\ Write(w, View(w))
    /\ Raise(w)

(* The nonce is inserted, then VotingCredential(...) raises ValueError.    *)
IssueTooLate(w) ==
    /\ At(w, "looked", "issue")
    /\ ~NonceSpent(w)
    /\ job[w].req.flaw = "late"
    /\ Write(w, WithNonce(View(w), job[w].req.nonce))
    /\ Raise(w)

Issue(w) ==
    /\ At(w, "looked", "issue")
    /\ ~NonceSpent(w)
    /\ job[w].req.flaw # "late"
    /\ Write(w, WithIssuance(View(w), job[w].req, job[w].id))
    /\ Goto(w, "written")

(* The presented credential, as the handler's SELECT finds it.             *)
Presented(w) == View(w).credentials[job[w].req.credential]

RedeemRead(w) ==
    /\ At(w, "begun", "redeem")
    /\ job[w].req.flaw # "refused"
    /\ Select(w)
    /\ IF Presented(w) = None \/ job[w].req.flaw = "mismatch"
       THEN Raise(w)
       ELSE \/ Presented(w).status = "revoked" /\ Raise(w)
            \/ Presented(w).status = "redeemed" /\ Goto(w, "replay")
            \/ Presented(w).status = "issued" /\ Goto(w, "looked")

(* The replay record is written, then CredentialReplayDetectedError raised.*)
RecordReplay(w) ==
    /\ At(w, "replay", "redeem")
    /\ Write(w, [View(w) EXCEPT !.replays = @ + 1])
    /\ Raise(w)

(* Mutant of RedemptionExists: no unique index on the credential.          *)
RedemptionExistsUnindexed(w) == View(w).redemptions[job[w].id] # None

(* uq_credential_redemption_credential                                     *)
RedemptionExists(w) ==
    \E r \in Ids : View(w).redemptions[r] = job[w].req.credential

(* The credential is saved as it was read plus the redemption, whatever    *)
(* has become of it since; the redemption is inserted after that.          *)
SecondRedemption(w) ==
    /\ At(w, "looked", "redeem")
    /\ RedemptionExists(w)
    /\ Write(w, WithCredential(View(w), job[w].req.credential, Redeemed(job[w].id)))
    /\ Raise(w)

Redeem(w) ==
    /\ At(w, "looked", "redeem")
    /\ ~RedemptionExists(w)
    /\ Write(w, WithRedemption(View(w), job[w].id, job[w].req.credential))
    /\ Goto(w, "written")

RevokeRead(w) ==
    /\ At(w, "begun", "revoke")
    /\ job[w].req.flaw # "refused"
    /\ Select(w)
    /\ IF Presented(w) = None \/ job[w].req.flaw = "mismatch"
       THEN Raise(w)
       ELSE \/ Presented(w).status = "redeemed" /\ Raise(w)
            \/ Presented(w).status # "redeemed" /\ Goto(w, "looked")

Revoke(w) ==
    /\ At(w, "looked", "revoke")
    /\ Write(w, WithCredential(View(w), job[w].req.credential, Revoked(job[w].id)))
    /\ Goto(w, "written")

(* privacy_safe_status reads and never commits.                            *)
Status(w) ==
    /\ At(w, "begun", "status")
    /\ job[w].req.flaw # "refused"
    /\ Select(w)
    /\ Raise(w)

(* Somebody else's write lock outlasts the busy timeout.  A write has      *)
(* begun its transaction by then; a read has not.                          *)
Locked(w) ==
    /\ job[w] # None
    /\ writer \notin {None, w}
    /\ \/ job[w].pc = "begun" /\ job[w].req.flaw # "refused" /\ UNCHANGED open
       \/ job[w].pc \in {"looked", "replay"} /\ open' = open \cup {w}
    /\ Raise(w)
    /\ UNCHANGED <<db, writer, pending, readers>>

CanCommit(w) == writer = w => readers \subseteq {w}

Commit(w) ==
    /\ job[w] # None /\ job[w].pc = "written"
    /\ CanCommit(w)
    /\ EndTransaction(w)
    /\ answered' = IF job[w].req.op \in {"issue", "redeem"}
                   THEN answered \cup {<<job[w].req.op, job[w].id>>} ELSE answered
    /\ job' = [job EXCEPT ![w] = None]
    /\ UNCHANGED boundVars

(* Mutant of CommitLocked: the error is swallowed and the client answered. *)
CommitLockedAnswered(w) ==
    /\ job[w] # None /\ job[w].pc = "written"
    /\ ~CanCommit(w)
    /\ answered' = answered \cup {<<job[w].req.op, job[w].id>>}
    /\ job' = [job EXCEPT ![w] = None]
    /\ UNCHANGED <<db, lockVars, boundVars>>

(* commit() raises while another connection reads: the writes stay pending.*)
CommitLocked(w) ==
    /\ job[w] # None /\ job[w].pc = "written"
    /\ ~CanCommit(w)
    /\ Raise(w)
    /\ UNCHANGED <<db, lockVars>>

(* The process dies, or closes its connection, and is started again.       *)
Crash(w) ==
    /\ crashes < MaxCrashes
    /\ crashes' = crashes + 1
    /\ job' = [job EXCEPT ![w] = None]
    /\ open' = open \ {w}
    /\ readers' = readers \ {w}
    /\ IF writer = w THEN writer' = None /\ pending' = None ELSE UNCHANGED <<writer, pending>>
    /\ UNCHANGED <<db, answered, requests>>

Next ==
    \E w \in Workers :
        \/ \E r \in Requests : Begin(w, r)
        \/ RefuseUnread(w) \/ LookUpKey(w)
        \/ RefuseSpentNonce(w) \/ IssueTooLate(w) \/ Issue(w)
        \/ RedeemRead(w) \/ RecordReplay(w) \/ SecondRedemption(w) \/ Redeem(w)
        \/ RevokeRead(w) \/ Revoke(w) \/ Status(w)
        \/ Locked(w) \/ Commit(w) \/ CommitLocked(w) \/ Crash(w)

Spec == Init /\ [][Next]_vars

-----------------------------------------------------------------------------
(* Properties *)

Credentials(image) == {c \in Ids : image.credentials[c] # None}

(* The database keeps its types; the write lock belongs to a connection    *)
(* inside a transaction, and the pending image to the write lock.          *)
TypeOK ==
    /\ db \in Database
    /\ writer \in Workers \cup {None}
    /\ IF writer = None THEN pending = None ELSE pending \in Database /\ writer \in open
    /\ readers \subseteq open /\ open \subseteq Workers
    /\ job \in [Workers -> Job \cup {None}]
    /\ answered \subseteq {"issue", "redeem"} \X Ids
    /\ requests \in 0 .. MaxRequests /\ crashes \in 0 .. MaxCrashes

(* "No double credential": no more credentials than spent nonces, though   *)
(* the store keeps no link from one to the other, and no two keys that     *)
(* answer with the same credential or with one that does not exist.        *)
NoDoubleCredential ==
    /\ Cardinality(Credentials(db)) <= Cardinality(db.spent)
    /\ \A k \in Keys : db.idempotency[k] # None =>
          /\ db.idempotency[k] \in Credentials(db)
          /\ \A l \in Keys \ {k} : db.idempotency[l] # db.idempotency[k]

(* "One redemption per credential", for as long as capabilities are handed *)
(* out: two capabilities in clients' hands never come from one credential, *)
(* however requests race and whatever a failed commit has left pending.    *)
OneCapabilityPerCredential ==
    \A r, s \in Ids :
        <<"redeem", r>> \in answered /\ <<"redeem", s>> \in answered /\ r # s =>
            db.redemptions[r] # db.redemptions[s]

(* A credential reads "redeemed" only once it has a redemption, and has a  *)
(* redemption only once it stopped being "issued": the two writes of a     *)
(* redemption are never committed apart.                                   *)
RedeemedMeansRedemption ==
    \A c \in Credentials(db) :
        LET redeemed == \E r \in Ids : db.redemptions[r] = c
        IN  /\ db.credentials[c].status = "redeemed" => redeemed
            /\ redeemed => db.credentials[c].status # "issued"

(* What a client has been answered survives every crash, although a        *)
(* cached answer may be read from writes that are not committed yet.       *)
AnsweredMeansDurable ==
    \A a \in answered :
        IF a[1] = "issue" THEN a[2] \in Credentials(db) ELSE db.redemptions[a[2]] # None

Statuses == [c \in Ids |-> IF db.credentials[c] = None THEN None ELSE db.credentials[c].status]

Desk == INSTANCE CredentialDesk WITH
            spent <- db.spent,
            status <- Statuses,
            answer <- db.idempotency,
            capability <- db.redemptions,
            handed <- answered

(* The workers, their locks and whatever refused requests leave pending    *)
(* look to clients, and on the disk, like CredentialDesk: each commit is   *)
(* one step of it, and every other step none.                              *)
KeepsThePromise == Desk!DeskSpec

(* voting_credentials.py:98, "redeemed is absorbing: it maps to the empty  *)
(* set, and no privileged path adds an edge out of it".                    *)
RedeemedIsAbsorbing ==
    [][\A c \in Credentials(db) :
          db.credentials[c].status = "redeemed" => db'.credentials[c].status = "redeemed"]_vars
=============================================================================
