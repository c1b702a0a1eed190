----------------------- MODULE VotingCredentialProofs -----------------------
(***************************************************************************)
(* Theorems about VotingCredential, for any number of workers, requests,   *)
(* nonces, keys and crashes.                                               *)
(***************************************************************************)
EXTENDS VotingCredential, FiniteSetTheorems, TLAPS

-----------------------------------------------------------------------------
(* Type correctness *)

(* An optional row that is present.                                        *)
LEMMA PresentJob ==
    ASSUME TypeOK, NEW w \in Workers, job[w] # None
    PROVE  /\ job[w] \in Job /\ job[w].req \in Requests /\ job[w].id \in Ids
           /\ job[w].pc \in {"begun", "looked", "replay", "written"}
BY DEF TypeOK, Job

LEMMA ViewType ==
    ASSUME TypeOK, NEW w \in Workers
    PROVE  View(w) \in Database
BY VotingCredentialAssumption DEF TypeOK, View

(* The fields of a request, by the operation it asks for.                  *)
LEMMA RequestFields ==
    ASSUME NEW r \in Requests
    PROVE  /\ r.op = "issue" => r.nonce \in Nonces /\ r.key \in Keys
           /\ r.op # "issue" => r.credential \in Ids
           /\ r.op \in {"issue", "redeem", "revoke", "status"}
BY DEF Requests, IssueRequest, CredentialRequest

LEMMA RowTypes ==
    /\ Issued \in VotingCredential
    /\ \A id \in Ids : Redeemed(id) \in VotingCredential /\ Revoked(id) \in VotingCredential
BY DEF Issued, Redeemed, Revoked, VotingCredential

LEMMA WithCredentialType ==
    ASSUME NEW i \in Database, NEW c \in Ids, NEW row \in VotingCredential
    PROVE  /\ WithCredential(i, c, row) \in Database
           /\ WithCredential(i, c, row).credentials = [i.credentials EXCEPT ![c] = row]
           /\ WithCredential(i, c, row).spent = i.spent
           /\ WithCredential(i, c, row).idempotency = i.idempotency
           /\ WithCredential(i, c, row).redemptions = i.redemptions
BY DEF Database, WithCredential

LEMMA WithNonceType ==
    ASSUME NEW i \in Database, NEW nonce \in Nonces
    PROVE  /\ WithNonce(i, nonce) \in Database
           /\ WithNonce(i, nonce).credentials = i.credentials
           /\ WithNonce(i, nonce).idempotency = i.idempotency
           /\ WithNonce(i, nonce).redemptions = i.redemptions
BY DEF Database, WithNonce

LEMMA WithIssuanceType ==
    ASSUME NEW i \in Database, NEW r, r.nonce \in Nonces, r.key \in Keys, NEW c \in Ids
    PROVE  /\ WithIssuance(i, r, c) \in Database
           /\ WithIssuance(i, r, c).credentials = [i.credentials EXCEPT ![c] = Issued]
           /\ WithIssuance(i, r, c).idempotency = [i.idempotency EXCEPT ![r.key] = c]
           /\ WithIssuance(i, r, c).redemptions = i.redemptions
<1> DEFINE j == WithCredential(WithNonce(i, r.nonce), c, Issued)
<1>1. /\ j \in Database
      /\ j.credentials = [i.credentials EXCEPT ![c] = Issued]
      /\ j.idempotency = i.idempotency
      /\ j.redemptions = i.redemptions
  BY WithNonceType, WithCredentialType, RowTypes
<1>2. WithIssuance(i, r, c) = [j EXCEPT !.idempotency = [@ EXCEPT ![r.key] = c]]
  BY DEF WithIssuance
<1> HIDE DEF j
<1>3. QED
  BY <1>1, <1>2 DEF Database

LEMMA WithRedemptionType ==
    ASSUME NEW i \in Database, NEW r \in Ids, NEW c \in Ids
    PROVE  /\ WithRedemption(i, r, c) \in Database
           /\ WithRedemption(i, r, c).credentials = [i.credentials EXCEPT ![c] = Redeemed(r)]
           /\ WithRedemption(i, r, c).idempotency = i.idempotency
           /\ WithRedemption(i, r, c).redemptions = [i.redemptions EXCEPT ![r] = c]
<1> DEFINE j == WithCredential(i, c, Redeemed(r))
<1>1. /\ j \in Database
      /\ j.credentials = [i.credentials EXCEPT ![c] = Redeemed(r)]
      /\ j.idempotency = i.idempotency
      /\ j.redemptions = i.redemptions
  BY WithCredentialType, RowTypes
<1>2. WithRedemption(i, r, c) = [j EXCEPT !.redemptions = [@ EXCEPT ![r] = c]]
  BY DEF WithRedemption
<1> HIDE DEF j
<1>3. QED
  BY <1>1, <1>2 DEF Database

(* The parts of TypeOK that the locks and the requests change.             *)
LockTypes ==
    /\ db \in Database
    /\ writer \in Workers \cup {None}
    /\ IF writer = None THEN pending = None ELSE pending \in Database /\ writer \in open
    /\ readers \subseteq open /\ open \subseteq Workers

JobTypes ==
    /\ job \in [Workers -> Job \cup {None}]
    /\ answered \subseteq {"issue", "redeem"} \X Ids
    /\ requests \in 0 .. MaxRequests /\ crashes \in 0 .. MaxCrashes

LEMMA TypeParts == TypeOK <=> LockTypes /\ JobTypes
BY DEF TypeOK, LockTypes, JobTypes

LEMMA TypePartsPrimed == TypeOK' <=> LockTypes' /\ JobTypes'
BY DEF TypeOK, LockTypes, JobTypes

(* The images a handler may write keep the database's type.                *)
LEMMA WriteType ==
    ASSUME TypeOK, NEW w \in Workers, NEW image \in Database, Write(w, image)
    PROVE  LockTypes'
BY VotingCredentialAssumption DEF TypeOK, LockTypes, Write

LEMMA SelectType ==
    ASSUME TypeOK, NEW w \in Workers, Select(w)
    PROVE  LockTypes'
BY DEF TypeOK, LockTypes, Select

LEMMA EndTransactionType ==
    ASSUME TypeOK, NEW w \in Workers, EndTransaction(w)
    PROVE  LockTypes'
<1>1. CASE writer = w
  BY <1>1, VotingCredentialAssumption DEF TypeOK, LockTypes, EndTransaction
<1>2. CASE writer # w
  BY <1>2, VotingCredentialAssumption DEF TypeOK, LockTypes, EndTransaction
<1>3. QED
  BY <1>1, <1>2

LEMMA UnchangedLockType ==
    ASSUME TypeOK, UNCHANGED <<db, lockVars>>
    PROVE  LockTypes'
BY DEF TypeOK, LockTypes, lockVars

LEMMA RaiseType ==
    ASSUME TypeOK, NEW w \in Workers, Raise(w)
    PROVE  JobTypes'
BY DEF TypeOK, JobTypes, Raise, boundVars

LEMMA GotoType ==
    ASSUME TypeOK, NEW w \in Workers, job[w] # None,
           NEW pc \in {"begun", "looked", "replay", "written"}, Goto(w, pc)
    PROVE  JobTypes'
<1>1. job[w] \in Job
  BY PresentJob
<1>2. [job[w] EXCEPT !.pc = pc] \in Job
  BY <1>1 DEF Job
<1>3. QED
  BY <1>2 DEF TypeOK, JobTypes, Goto, boundVars

LEMMA InitType == Init => TypeOK
<1> SUFFICES ASSUME Init PROVE TypeOK
  OBVIOUS
<1>1. db \in Database
  BY DEF Init, Empty, Database
<1>2. QED
  BY <1>1, VotingCredentialAssumption DEF Init, TypeOK

LEMMA BeginType ==
    ASSUME TypeOK, NEW w \in Workers, NEW r \in Requests, Begin(w, r)
    PROVE  TypeOK'
<1>1. requests + 1 \in Ids /\ requests' \in 0 .. MaxRequests
  BY VotingCredentialAssumption DEF TypeOK, Begin, Ids
<1>2. [pc |-> "begun", req |-> r, id |-> requests + 1] \in Job
  BY <1>1 DEF Job
<1>3. JobTypes'
  BY <1>1, <1>2 DEF TypeOK, JobTypes, Begin
<1>4. LockTypes'
  BY UnchangedLockType DEF Begin
<1>5. QED
  BY <1>3, <1>4, TypePartsPrimed

LEMMA LookUpKeyType ==
    ASSUME TypeOK, NEW w \in Workers, LookUpKey(w)
    PROVE  TypeOK'
<1> DEFINE hit == View(w).idempotency[job[w].req.key]
<1>1. job[w] \in Job /\ View(w) \in Database /\ job[w].req.key \in Keys
  BY PresentJob, ViewType, RequestFields DEF LookUpKey, At
<1>2. hit \in Ids \cup {None}
  BY <1>1 DEF Database
<1>3. JobTypes'
  <2>1. CASE hit # None /\ job[w].req.flaw # "expired"
    <3>1. job' = [job EXCEPT ![w] = [@ EXCEPT !.pc = "written", !.id = hit]]
      BY <2>1 DEF LookUpKey
    <3>2. [job[w] EXCEPT !.pc = "written", !.id = hit] \in Job
      BY <1>1, <1>2, <2>1 DEF Job
    <3>3. QED
      BY <3>1, <3>2 DEF TypeOK, JobTypes, LookUpKey, boundVars
  <2>2. CASE ~(hit # None /\ job[w].req.flaw # "expired")
    <3>1. Goto(w, "looked") /\ job[w] # None
      BY <2>2 DEF LookUpKey, Goto, At
    <3>2. QED
      BY <3>1, GotoType
  <2>3. QED
    BY <2>1, <2>2
<1>4. LockTypes'
  BY SelectType DEF LookUpKey
<1>5. QED
  BY <1>3, <1>4, TypePartsPrimed

(* What a handler writes at the end of its reads.                          *)
LEMMA HandlerWrites ==
    ASSUME TypeOK, NEW w \in Workers,
           \/ RefuseSpentNonce(w) \/ IssueTooLate(w) \/ Issue(w)
           \/ RecordReplay(w) \/ SecondRedemption(w) \/ Redeem(w) \/ Revoke(w)
    PROVE  TypeOK'
<1>0. /\ job[w] # None /\ job[w].id \in Ids /\ job[w].req \in Requests
      /\ View(w) \in Database
  BY PresentJob, ViewType DEF RefuseSpentNonce, IssueTooLate, Issue, RecordReplay,
     SecondRedemption, Redeem, Revoke, At
<1>1. CASE RefuseSpentNonce(w)
  BY <1>0, <1>1, WriteType, RaiseType, TypePartsPrimed DEF RefuseSpentNonce
<1>2. CASE IssueTooLate(w)
  <2>1. job[w].req.nonce \in Nonces
    BY <1>0, <1>2, RequestFields DEF IssueTooLate, At
  <2>2. WithNonce(View(w), job[w].req.nonce) \in Database
    BY <1>0, <2>1, WithNonceType
  <2>3. QED
    BY <1>2, <2>2, WriteType, RaiseType, TypePartsPrimed DEF IssueTooLate
<1>3. CASE Issue(w)
  <2>1. job[w].req.nonce \in Nonces /\ job[w].req.key \in Keys
    BY <1>0, <1>3, RequestFields DEF Issue, At
  <2>2. WithIssuance(View(w), job[w].req, job[w].id) \in Database
    BY <1>0, <2>1, WithIssuanceType
  <2>3. QED
    BY <1>0, <1>3, <2>2, WriteType, GotoType, TypePartsPrimed DEF Issue
<1>4. CASE RecordReplay(w)
  <2>1. [View(w) EXCEPT !.replays = @ + 1] \in Database
    BY <1>0 DEF Database
  <2>2. QED
    BY <1>4, <2>1, WriteType, RaiseType, TypePartsPrimed DEF RecordReplay
<1>5. CASE SecondRedemption(w)
  <2>1. job[w].req.credential \in Ids
    BY <1>0, <1>5, RequestFields DEF SecondRedemption, At
  <2>2. WithCredential(View(w), job[w].req.credential, Redeemed(job[w].id)) \in Database
    BY <1>0, <2>1, WithCredentialType, RowTypes
  <2>3. QED
    BY <1>5, <2>2, WriteType, RaiseType, TypePartsPrimed DEF SecondRedemption
<1>6. CASE Redeem(w)
  <2>1. job[w].req.credential \in Ids
    BY <1>0, <1>6, RequestFields DEF Redeem, At
  <2>2. WithRedemption(View(w), job[w].id, job[w].req.credential) \in Database
    BY <1>0, <2>1, WithRedemptionType
  <2>3. QED
    BY <1>0, <1>6, <2>2, WriteType, GotoType, TypePartsPrimed DEF Redeem
<1>7. CASE Revoke(w)
  <2>1. job[w].req.credential \in Ids
    BY <1>0, <1>7, RequestFields DEF Revoke, At
  <2>2. WithCredential(View(w), job[w].req.credential, Revoked(job[w].id)) \in Database
    BY <1>0, <2>1, WithCredentialType, RowTypes
  <2>3. QED
    BY <1>0, <1>7, <2>2, WriteType, GotoType, TypePartsPrimed DEF Revoke
<1>8. QED
  BY <1>1, <1>2, <1>3, <1>4, <1>5, <1>6, <1>7

(* The steps that read, and those that only end a request.                 *)
LEMMA HandlerReads ==
    ASSUME TypeOK, NEW w \in Workers,
           \/ RefuseUnread(w) \/ RedeemRead(w) \/ RevokeRead(w) \/ Status(w)
           \/ Locked(w) \/ CommitLocked(w)
    PROVE  TypeOK'
<1>1. CASE RefuseUnread(w)
  BY <1>1, RaiseType, UnchangedLockType, TypePartsPrimed DEF RefuseUnread
<1>2. CASE RedeemRead(w)
  <2>1. job[w] # None /\ (Raise(w) \/ Goto(w, "replay") \/ Goto(w, "looked"))
    BY <1>2 DEF RedeemRead, At
  <2>2. JobTypes'
    BY <2>1, RaiseType, GotoType
  <2>3. QED
    BY <1>2, <2>2, SelectType, TypePartsPrimed DEF RedeemRead
<1>3. CASE RevokeRead(w)
  <2>1. job[w] # None /\ (Raise(w) \/ Goto(w, "looked"))
    BY <1>3 DEF RevokeRead, At
  <2>2. JobTypes'
    BY <2>1, RaiseType, GotoType
  <2>3. QED
    BY <1>3, <2>2, SelectType, TypePartsPrimed DEF RevokeRead
<1>4. CASE Status(w)
  BY <1>4, RaiseType, SelectType, TypePartsPrimed DEF Status
<1>5. CASE Locked(w)
  <2>1. LockTypes'
    BY <1>5 DEF Locked, TypeOK, LockTypes
  <2>2. QED
    BY <1>5, <2>1, RaiseType, TypePartsPrimed DEF Locked
<1>6. CASE CommitLocked(w)
  BY <1>6, RaiseType, UnchangedLockType, TypePartsPrimed DEF CommitLocked
<1>7. QED
  BY <1>1, <1>2, <1>3, <1>4, <1>5, <1>6

LEMMA CommitType ==
    ASSUME TypeOK, NEW w \in Workers, Commit(w)
    PROVE  TypeOK'
<1>1. job[w].id \in Ids
  BY PresentJob DEF Commit
<1>2. answered' \subseteq {"issue", "redeem"} \X Ids
  BY <1>1 DEF TypeOK, Commit
<1>3. JobTypes'
  BY <1>2 DEF TypeOK, JobTypes, Commit, boundVars
<1>4. QED
  BY <1>3, EndTransactionType, TypePartsPrimed DEF Commit

LEMMA CrashType ==
    ASSUME TypeOK, NEW w \in Workers, Crash(w)
    PROVE  TypeOK'
<1>1. LockTypes'
  BY VotingCredentialAssumption DEF TypeOK, LockTypes, Crash
<1>2. JobTypes'
  BY VotingCredentialAssumption DEF TypeOK, JobTypes, Crash
<1>3. QED
  BY <1>1, <1>2, TypePartsPrimed

LEMMA NextType == TypeOK /\ [Next]_vars => TypeOK'
<1> SUFFICES ASSUME TypeOK, [Next]_vars PROVE TypeOK'
  OBVIOUS
<1>1. CASE Next
  BY <1>1, BeginType, LookUpKeyType, HandlerWrites, HandlerReads, CommitType, CrashType, Zenon
     DEF Next
<1>2. CASE UNCHANGED vars
  BY <1>2 DEF vars, lockVars, boundVars, TypeOK
<1>3. QED
  BY <1>1, <1>2

(* Every reachable state keeps the types of the database, the locks and    *)
(* the requests, and the write lock belongs to an open transaction.        *)
THEOREM TypeCorrect == Spec => []TypeOK
<1>1. Init => TypeOK
  BY InitType
<1>2. TypeOK /\ [Next]_vars => TypeOK'
  BY NextType
<1>3. QED
  BY <1>1, <1>2, PTL DEF Spec

-----------------------------------------------------------------------------
(* The inductive invariant *)

Redemption(i, c) == \E r \in Ids : i.redemptions[r] = c

(* What holds of every image of the database, committed or pending, when   *)
(* the first n requests have drawn their ids.                              *)
Sound(i, n) ==
    /\ \A c \in Ids : i.credentials[c] # None =>
          /\ c <= n
          /\ i.credentials[c].status = "redeemed" => Redemption(i, c)
          /\ Redemption(i, c) => i.credentials[c].status # "issued"
    /\ \A r \in Ids : i.redemptions[r] # None =>
          /\ r <= n
          /\ i.credentials[i.redemptions[r]] # None
          /\ \A s \in Ids : i.redemptions[s] = i.redemptions[r] => s = r
    /\ \A k \in Keys : i.idempotency[k] # None => i.credentials[i.idempotency[k]] # None

(* Image j has what image i has, and nothing new but under the ids in S.   *)
Grows(i, j, S) ==
    /\ \A c \in Ids : i.credentials[c] # None => j.credentials[c] # None
    /\ \A r \in Ids : i.redemptions[r] # None => j.redemptions[r] = i.redemptions[r]
    /\ \A c \in Ids \ S : i.credentials[c] = None => j.credentials[c] = None
    /\ \A r \in Ids \ S : i.redemptions[r] = None => j.redemptions[r] = None

Images ==
    /\ Sound(db, requests)
    /\ writer # None => Sound(pending, requests) /\ Grows(db, pending, Ids)

(* An id that nothing has been stored under.                               *)
Unused(i, id) == i.credentials[id] = None /\ i.redemptions[id] = None

(* A request that may still store something under the id it drew.          *)
Drawn(w) == job[w] # None /\ job[w].pc \in {"begun", "looked"}

FreshIds ==
    \A w \in Workers : Drawn(w) =>
        /\ Unused(db, job[w].id)
        /\ writer # None => Unused(pending, job[w].id)
        /\ \A v \in Workers \ {w} : Drawn(v) => job[v].id # job[w].id

(* What a request relies on between its read, its write and its commit.    *)
JobOK(w) ==
    /\ job[w].id <= requests
    /\ job[w].pc = "looked" /\ job[w].req.op \in {"redeem", "revoke"} =>
          View(w).credentials[job[w].req.credential] # None
    /\ job[w].pc = "written" /\ job[w].req.op = "issue" =>
          View(w).credentials[job[w].id] # None
    /\ job[w].pc = "written" /\ job[w].req.op = "redeem" =>
          View(w).redemptions[job[w].id] # None

JobsOK == \A w \in Workers : job[w] # None => JobOK(w)

IInv == TypeOK /\ Images /\ FreshIds /\ JobsOK /\ AnsweredMeansDurable

(* What the writes do to an image.                                         *)
LEMMA RowsPresent ==
    /\ Issued # None /\ Issued.status = "issued"
    /\ \A id \in Ids : /\ Redeemed(id) # None /\ Redeemed(id).status = "redeemed"
                       /\ Revoked(id) # None /\ Revoked(id).status = "revoked"
<1>1. Issued # None /\ \A id \in Ids : Redeemed(id) # None /\ Revoked(id) # None
  BY RowTypes, NoneAssumption
<1>2. QED
  BY <1>1 DEF Issued, Redeemed, Revoked

(* Two images that agree on everything the invariant speaks of.            *)
LEMMA SameImage ==
    ASSUME NEW i, NEW j, NEW n, Sound(i, n),
           j.credentials = i.credentials, j.redemptions = i.redemptions,
           j.idempotency = i.idempotency
    PROVE  Sound(j, n) /\ Grows(i, j, {})
BY DEF Sound, Grows, Redemption

LEMMA IssuanceImage ==
    ASSUME NEW i \in Database, NEW n \in Nat, Sound(i, n),
           NEW r, r.nonce \in Nonces, r.key \in Keys,
           NEW c \in Ids, c <= n, Unused(i, c)
    PROVE  /\ Sound(WithIssuance(i, r, c), n)
           /\ Grows(i, WithIssuance(i, r, c), {c})
           /\ WithIssuance(i, r, c).credentials[c] # None
<1> DEFINE j == WithIssuance(i, r, c)
<1>1. /\ j.credentials = [i.credentials EXCEPT ![c] = Issued]
      /\ j.idempotency = [i.idempotency EXCEPT ![r.key] = c]
      /\ j.redemptions = i.redemptions
  BY WithIssuanceType
<1>2. /\ i.credentials \in [Ids -> VotingCredential \cup {None}]
      /\ i.idempotency \in [Keys -> Ids \cup {None}]
      /\ i.redemptions \in [Ids -> Ids \cup {None}]
  BY DEF Database
<1> HIDE DEF j
<1>3. j.credentials[c] = Issued /\ \A d \in Ids \ {c} : j.credentials[d] = i.credentials[d]
  BY <1>1, <1>2
<1>4. \A d \in Ids : Redemption(j, d) <=> Redemption(i, d)
  BY <1>1 DEF Redemption
<1>5. ~Redemption(i, c)
  BY VotingCredentialAssumption DEF Sound, Redemption, Unused, Ids
<1>6. \A d \in Ids : j.credentials[d] # None =>
          /\ d <= n
          /\ j.credentials[d].status = "redeemed" => Redemption(j, d)
          /\ Redemption(j, d) => j.credentials[d].status # "issued"
  BY <1>3, <1>4, <1>5, RowsPresent DEF Sound
<1>7. \A d \in Ids : i.credentials[d] # None => j.credentials[d] # None
  BY <1>3, RowsPresent
<1>8. \A s \in Ids : j.redemptions[s] # None =>
          /\ s <= n
          /\ j.credentials[j.redemptions[s]] # None
          /\ \A t \in Ids : j.redemptions[t] = j.redemptions[s] => t = s
  BY <1>1, <1>2, <1>7 DEF Sound
<1>9. \A k \in Keys : j.idempotency[k] # None => j.credentials[j.idempotency[k]] # None
  <2> SUFFICES ASSUME NEW k \in Keys, j.idempotency[k] # None
               PROVE  j.credentials[j.idempotency[k]] # None
    OBVIOUS
  <2>1. CASE k = r.key
    BY <2>1, <1>1, <1>2, <1>3, RowsPresent
  <2>2. CASE k # r.key
    BY <2>2, <1>1, <1>2, <1>7 DEF Sound
  <2>3. QED
    BY <2>1, <2>2
<1>10. Sound(j, n)
  BY <1>6, <1>8, <1>9 DEF Sound
<1>11. Grows(i, j, {c})
  BY <1>1, <1>3, <1>7 DEF Grows
<1>12. QED
  BY <1>3, <1>10, <1>11, RowsPresent DEF j

LEMMA RedemptionImage ==
    ASSUME NEW i \in Database, NEW n \in Nat, Sound(i, n),
           NEW r \in Ids, r <= n, Unused(i, r),
           NEW c \in Ids, i.credentials[c] # None, ~Redemption(i, c)
    PROVE  /\ Sound(WithRedemption(i, r, c), n)
           /\ Grows(i, WithRedemption(i, r, c), {r})
           /\ WithRedemption(i, r, c).redemptions[r] # None
<1> DEFINE j == WithRedemption(i, r, c)
<1>1. /\ j.credentials = [i.credentials EXCEPT ![c] = Redeemed(r)]
      /\ j.idempotency = i.idempotency
      /\ j.redemptions = [i.redemptions EXCEPT ![r] = c]
  BY WithRedemptionType
<1>2. /\ i.credentials \in [Ids -> VotingCredential \cup {None}]
      /\ i.idempotency \in [Keys -> Ids \cup {None}]
      /\ i.redemptions \in [Ids -> Ids \cup {None}]
  BY DEF Database
<1> HIDE DEF j
<1>3. /\ j.credentials[c] = Redeemed(r)
      /\ \A d \in Ids \ {c} : j.credentials[d] = i.credentials[d]
      /\ j.redemptions[r] = c
      /\ \A s \in Ids \ {r} : j.redemptions[s] = i.redemptions[s]
      /\ c # None
  BY <1>1, <1>2, VotingCredentialAssumption DEF Ids
<1>4. Redemption(j, c) /\ \A d \in Ids \ {c} : Redemption(j, d) <=> Redemption(i, d)
  BY <1>3, VotingCredentialAssumption DEF Redemption, Unused, Ids
<1>5. \A d \in Ids : j.credentials[d] # None =>
          /\ d <= n
          /\ j.credentials[d].status = "redeemed" => Redemption(j, d)
          /\ Redemption(j, d) => j.credentials[d].status # "issued"
  BY <1>3, <1>4, RowsPresent DEF Sound
<1>6. \A d \in Ids : i.credentials[d] # None <=> j.credentials[d] # None
  BY <1>3, RowsPresent
<1>7. \A s \in Ids : j.redemptions[s] # None =>
          /\ s <= n
          /\ j.credentials[j.redemptions[s]] # None
          /\ \A t \in Ids : j.redemptions[t] = j.redemptions[s] => t = s
  <2> SUFFICES ASSUME NEW s \in Ids, j.redemptions[s] # None
               PROVE  /\ s <= n
                      /\ j.credentials[j.redemptions[s]] # None
                      /\ \A t \in Ids : j.redemptions[t] = j.redemptions[s] => t = s
    OBVIOUS
  <2>1. CASE s = r
    BY <2>1, <1>3, <1>6 DEF Redemption
  <2>2. CASE s # r
    <3>1. j.redemptions[s] = i.redemptions[s] /\ i.redemptions[s] \in Ids
      BY <2>2, <1>2, <1>3
    <3>2. i.redemptions[s] # c
      BY <3>1 DEF Redemption
    <3>3. QED
      BY <2>2, <3>1, <3>2, <1>3, <1>6 DEF Sound
  <2>3. QED
    BY <2>1, <2>2
<1>8. \A k \in Keys : j.idempotency[k] # None => j.credentials[j.idempotency[k]] # None
  BY <1>1, <1>2, <1>6 DEF Sound
<1>9. Sound(j, n)
  BY <1>5, <1>7, <1>8 DEF Sound
<1>10. Grows(i, j, {r})
  BY <1>3, <1>6 DEF Grows, Unused
<1>11. QED
  BY <1>3, <1>9, <1>10 DEF j

(* A credential that exists is saved over, as redeemed or as revoked.      *)
LEMMA OverwriteImage ==
    ASSUME NEW i \in Database, NEW n \in Nat, Sound(i, n),
           NEW c \in Ids, i.credentials[c] # None, NEW id \in Ids,
           NEW row, row = Revoked(id) \/ (row = Redeemed(id) /\ Redemption(i, c))
    PROVE  /\ Sound(WithCredential(i, c, row), n)
           /\ Grows(i, WithCredential(i, c, row), {})
<1> DEFINE j == WithCredential(i, c, row)
<1>1. /\ j.credentials = [i.credentials EXCEPT ![c] = row]
      /\ j.idempotency = i.idempotency
      /\ j.redemptions = i.redemptions
  BY WithCredentialType, RowTypes
<1>2. /\ i.credentials \in [Ids -> VotingCredential \cup {None}]
      /\ i.idempotency \in [Keys -> Ids \cup {None}]
      /\ i.redemptions \in [Ids -> Ids \cup {None}]
  BY DEF Database
<1> HIDE DEF j
<1>3. j.credentials[c] = row /\ \A d \in Ids \ {c} : j.credentials[d] = i.credentials[d]
  BY <1>1, <1>2
<1>4. \A d \in Ids : Redemption(j, d) <=> Redemption(i, d)
  BY <1>1 DEF Redemption
<1>5. /\ row # None
      /\ row.status = "redeemed" => Redemption(i, c)
      /\ row.status # "issued"
  BY RowsPresent
<1>6. \A d \in Ids : j.credentials[d] # None =>
          /\ d <= n
          /\ j.credentials[d].status = "redeemed" => Redemption(j, d)
          /\ Redemption(j, d) => j.credentials[d].status # "issued"
  BY <1>3, <1>4, <1>5 DEF Sound
<1>7. \A d \in Ids : i.credentials[d] # None <=> j.credentials[d] # None
  BY <1>3, <1>5
<1>8. Sound(j, n)
  BY <1>1, <1>2, <1>6, <1>7 DEF Sound
<1>9. Grows(i, j, {})
  BY <1>1, <1>7 DEF Grows
<1>10. QED
  BY <1>8, <1>9 DEF j

(* Sound does not mind requests that have drawn more ids.                  *)
LEMMA SoundLater ==
    ASSUME NEW i, NEW n \in Nat, NEW m \in Nat, n <= m, Sound(i, n)
    PROVE  Sound(i, m)
BY DEF Sound, Ids

LEMMA SoundView ==
    ASSUME IInv, NEW w \in Workers
    PROVE  Sound(View(w), requests) /\ Grows(db, View(w), Ids)
BY VotingCredentialAssumption DEF IInv, Images, View, Grows

(* An id that is fresh is unused wherever its request looks.               *)
LEMMA FreshView ==
    ASSUME IInv, NEW w \in Workers, Drawn(w), NEW v \in Workers
    PROVE  Unused(View(v), job[w].id)
BY VotingCredentialAssumption DEF IInv, FreshIds, View

(* What a write of worker w needs to keep the invariant.                   *)
GoodWrite(w, image) ==
    /\ Write(w, image)
    /\ Sound(image, requests)
    /\ \/ Drawn(w) /\ Grows(View(w), image, {job[w].id})
       \/ Grows(View(w), image, {})
    /\ job[w] # None /\ (Raise(w) \/ Goto(w, "written"))
    /\ Goto(w, "written") =>
          /\ job[w].req.op = "issue" => image.credentials[job[w].id] # None
          /\ job[w].req.op = "redeem" => image.redemptions[job[w].id] # None

(* After a step of w that ends or completes its request, w draws nothing,  *)
(* and the other requests are what they were.                              *)
LEMMA OtherJobs ==
    ASSUME TypeOK, NEW w \in Workers,
           job[w] # None /\ (Raise(w) \/ Goto(w, "written"))
    PROVE  /\ \A v \in Workers \ {w} : job'[v] = job[v]
           /\ ~Drawn(w)'
           /\ requests' = requests /\ answered' = answered
           /\ job'[w] # None =>
                 /\ Goto(w, "written") /\ job'[w].pc = "written"
                 /\ job'[w].req = job[w].req /\ job'[w].id = job[w].id
                 /\ job[w] # None
<1>1. CASE Raise(w)
  BY <1>1 DEF TypeOK, Raise, boundVars, Drawn
<1>2. CASE Goto(w, "written") /\ job[w] # None
  <2>1. job[w] \in Job
    BY <1>2, PresentJob
  <2>2. job' = [job EXCEPT ![w] = [@ EXCEPT !.pc = "written"]]
    BY <1>2 DEF Goto
  <2>3. /\ job'[w].pc = "written" /\ job'[w].req = job[w].req /\ job'[w].id = job[w].id
    BY <2>1, <2>2 DEF TypeOK, Job
  <2>4. QED
    BY <1>2, <2>2, <2>3 DEF TypeOK, Goto, boundVars, Drawn
<1>3. QED
  BY <1>1, <1>2

LEMMA WriteKeeps ==
    ASSUME IInv, NEW w \in Workers, NEW image, GoodWrite(w, image), TypeOK'
    PROVE  IInv'
<1>0. /\ TypeOK /\ Images /\ FreshIds /\ JobsOK /\ AnsweredMeansDurable
      /\ Sound(db, requests) /\ Grows(db, View(w), Ids)
  BY SoundView DEF IInv, Images
<1>1. /\ db' = db /\ writer' = w /\ pending' = image /\ w # None
      /\ \A v \in Workers \ {w} : View(v) = db /\ View(v)' = db
      /\ View(w)' = image
  BY <1>0, VotingCredentialAssumption DEF GoodWrite, Write, View
<1>2. /\ \A v \in Workers \ {w} : job'[v] = job[v]
      /\ ~Drawn(w)'
      /\ requests' = requests /\ answered' = answered
      /\ job'[w] # None =>
            /\ Goto(w, "written") /\ job'[w].pc = "written"
            /\ job'[w].req = job[w].req /\ job'[w].id = job[w].id
            /\ job[w] # None
  BY <1>0, OtherJobs DEF GoodWrite
<1>3. Images'
  <2>1. Grows(db, image, Ids)
    BY <1>0 DEF GoodWrite, Grows
  <2>2. Sound(db, requests)'
    BY <1>0, <1>1, <1>2 DEF Sound, Redemption
  <2>3. Sound(pending, requests)'
    <3>1. Sound(image, requests)
      BY DEF GoodWrite
    <3>2. QED
      BY <1>1, <1>2, <3>1 DEF Sound, Redemption
  <2>4. Grows(db, pending, Ids)'
    BY <1>1, <2>1 DEF Grows
  <2>5. QED
    BY <2>2, <2>3, <2>4 DEF Images
<1>4. FreshIds'
  <2> SUFFICES ASSUME NEW v \in Workers, Drawn(v)'
               PROVE  /\ Unused(db, job[v].id)'
                      /\ Unused(pending, job[v].id)'
                      /\ \A u \in Workers \ {v} : Drawn(u)' => job'[u].id # job'[v].id
    BY DEF FreshIds
  <2>1. v # w /\ job'[v] = job[v] /\ Drawn(v) /\ job[v].id \in Ids
    BY <1>0, <1>2, PresentJob DEF Drawn
  <2>2. Unused(db, job[v].id) /\ Unused(View(w), job[v].id)
    BY <1>0, <2>1, FreshView DEF FreshIds
  <2>3. Drawn(w) => job[w].id # job[v].id
    BY <1>0, <2>1 DEF FreshIds
  <2>4. Unused(image, job[v].id)
    BY <2>1, <2>2, <2>3 DEF GoodWrite, Grows, Unused
  <2>5. \A u \in Workers \ {v} : Drawn(u)' => job'[u].id # job'[v].id
    BY <1>0, <1>2, <2>1 DEF FreshIds, Drawn
  <2>6. QED
    BY <1>1, <2>1, <2>2, <2>4, <2>5 DEF Unused
<1>5. JobsOK'
  <2> SUFFICES ASSUME NEW v \in Workers, job'[v] # None PROVE JobOK(v)'
    BY DEF JobsOK
  <2>1. CASE v # w
    BY <2>1, <1>0, <1>1, <1>2 DEF JobsOK, JobOK
  <2>2. CASE v = w
    BY <2>2, <1>0, <1>1, <1>2 DEF JobsOK, JobOK, GoodWrite
  <2>3. QED
    BY <2>1, <2>2
<1>6. AnsweredMeansDurable'
  BY <1>0, <1>1, <1>2 DEF AnsweredMeansDurable, Credentials
<1>7. QED
  BY <1>3, <1>4, <1>5, <1>6 DEF IInv

(* A step that leaves the images alone, while w's request is dropped or    *)
(* moved to where `ok` says it may be.                                     *)
LEMMA ReadKeeps ==
    ASSUME IInv, NEW w \in Workers, TypeOK',
           UNCHANGED <<db, writer, pending, answered, requests>>,
           NEW new, job' = [job EXCEPT ![w] = new],
           new # None => JobOK(w)',
           Drawn(w)' => Drawn(w) /\ job'[w].id = job[w].id
    PROVE  IInv'
<1>0. TypeOK /\ Images /\ FreshIds /\ JobsOK /\ AnsweredMeansDurable
  BY DEF IInv
<1>1. /\ \A v \in Workers \ {w} : job'[v] = job[v]
      /\ job'[w] = new
      /\ \A v \in Workers : View(v)' = View(v)
  BY <1>0 DEF TypeOK, View
<1>2. Images'
  BY <1>0 DEF Images, Sound, Grows, Redemption
<1>3. FreshIds'
  <2> SUFFICES ASSUME NEW v \in Workers, Drawn(v)'
               PROVE  /\ Unused(db, job[v].id)'
                      /\ (writer # None)' => Unused(pending, job[v].id)'
                      /\ \A u \in Workers \ {v} : Drawn(u)' => job'[u].id # job'[v].id
    BY DEF FreshIds
  <2>1. \A u \in Workers : Drawn(u)' => Drawn(u) /\ job'[u].id = job[u].id
    BY <1>1 DEF Drawn
  <2>2. QED
    BY <1>0, <2>1 DEF FreshIds, Unused
<1>4. JobsOK'
  <2> SUFFICES ASSUME NEW v \in Workers, job'[v] # None PROVE JobOK(v)'
    BY DEF JobsOK
  <2>1. CASE v # w
    BY <2>1, <1>0, <1>1 DEF JobsOK, JobOK
  <2>2. CASE v = w
    BY <2>2, <1>1
  <2>3. QED
    BY <2>1, <2>2
<1>5. AnsweredMeansDurable'
  BY <1>0 DEF AnsweredMeansDurable, Credentials
<1>6. QED
  BY <1>2, <1>3, <1>4, <1>5 DEF IInv

LEMMA DropKeeps ==
    ASSUME IInv, NEW w \in Workers, TypeOK', UNCHANGED <<db, writer, pending>>, Raise(w)
    PROVE  IInv'
<1>1. Drawn(w)' => Drawn(w) /\ job'[w].id = job[w].id
  BY DEF IInv, TypeOK, Raise, Drawn
<1>2. QED
  BY <1>1, ReadKeeps DEF Raise, boundVars

LEMMA GotoKeeps ==
    ASSUME IInv, NEW w \in Workers, TypeOK', UNCHANGED <<db, writer, pending>>,
           NEW pc \in {"looked", "replay"}, Goto(w, pc), job[w] # None, job[w].pc = "begun",
           View(w).credentials[job[w].req.credential] # None
    PROVE  IInv'
<1> DEFINE new == [job[w] EXCEPT !.pc = pc]
<1>1. job[w] \in Job /\ TypeOK /\ JobsOK
  BY PresentJob DEF IInv
<1>2. job' = [job EXCEPT ![w] = new]
  BY DEF Goto
<1>3. job'[w] = new /\ new.pc = pc /\ new.req = job[w].req /\ new.id = job[w].id
  BY <1>1, <1>2 DEF TypeOK, Job
<1>4. JobOK(w)'
  BY <1>1, <1>3 DEF JobsOK, JobOK, Goto, boundVars, View
<1>5. Drawn(w)' => Drawn(w) /\ job'[w].id = job[w].id
  BY <1>3 DEF Drawn
<1> HIDE DEF new
<1>6. QED
  BY <1>2, <1>4, <1>5, ReadKeeps DEF Goto, boundVars

LEMMA LookUpKeyKeeps ==
    ASSUME IInv, NEW w \in Workers, LookUpKey(w), TypeOK'
    PROVE  IInv'
<1> DEFINE hit == View(w).idempotency[job[w].req.key]
           taken == hit # None /\ job[w].req.flaw # "expired"
           new == IF taken THEN [job[w] EXCEPT !.pc = "written", !.id = hit]
                           ELSE [job[w] EXCEPT !.pc = "looked"]
<1>1. /\ job[w] \in Job /\ View(w) \in Database /\ job[w].req.key \in Keys
      /\ TypeOK /\ JobsOK /\ job[w] # None /\ job[w].pc = "begun" /\ job[w].req.op = "issue"
      /\ Sound(View(w), requests) /\ requests \in Nat
  BY PresentJob, ViewType, RequestFields, SoundView
     DEF IInv, LookUpKey, At, TypeOK
<1>2. hit # None => /\ hit \in Ids
                    /\ View(w).credentials[hit] # None
                    /\ hit <= requests
  BY <1>1 DEF Sound, Database
<1>3. job' = [job EXCEPT ![w] = new]
  BY DEF LookUpKey
<1>4. /\ job'[w] = new /\ new.req = job[w].req
      /\ taken => new.pc = "written" /\ new.id = hit
      /\ ~taken => new.pc = "looked" /\ new.id = job[w].id
  BY <1>1, <1>3 DEF TypeOK, Job
<1>5. View(w)' = View(w) /\ requests' = requests /\ answered' = answered
      /\ UNCHANGED <<db, writer, pending>>
  BY DEF LookUpKey, Select, boundVars, View
<1>6. JobOK(w)'
  <2>1. CASE taken
    BY <2>1, <1>1, <1>2, <1>4, <1>5 DEF JobOK
  <2>2. CASE ~taken
    BY <2>2, <1>1, <1>4, <1>5 DEF JobOK, JobsOK
  <2>3. QED
    BY <2>1, <2>2
<1>7. Drawn(w)' => Drawn(w) /\ job'[w].id = job[w].id
  BY <1>1, <1>4 DEF Drawn
<1> HIDE DEF new
<1>8. QED
  BY <1>3, <1>5, <1>6, <1>7, ReadKeeps

LEMMA BeginKeeps ==
    ASSUME IInv, NEW w \in Workers, NEW r \in Requests, Begin(w, r), TypeOK'
    PROVE  IInv'
<1> DEFINE n == requests
<1>0. /\ TypeOK /\ Images /\ FreshIds /\ JobsOK /\ AnsweredMeansDurable
      /\ n \in Nat /\ n + 1 \in Ids
  BY VotingCredentialAssumption DEF IInv, TypeOK, Begin, Ids
<1>1. /\ UNCHANGED <<db, writer, pending, answered>> /\ requests' = n + 1
      /\ job'[w] = [pc |-> "begun", req |-> r, id |-> n + 1]
      /\ \A v \in Workers \ {w} : job'[v] = job[v]
      /\ \A v \in Workers : View(v)' = View(v)
  BY <1>0 DEF TypeOK, Begin, lockVars, View
<1>2. Images'
  <2>1. Sound(db, n + 1) /\ (writer # None => Sound(pending, n + 1))
    BY <1>0, SoundLater DEF Images
  <2>2. QED
    BY <1>0, <1>1, <2>1 DEF Images, Sound, Grows, Redemption
<1>3. Unused(db, n + 1) /\ (writer # None => Unused(pending, n + 1))
  BY <1>0 DEF Images, Sound, Unused
<1>4. \A v \in Workers \ {w} : job[v] # None => job[v].id <= n /\ job[v].id \in Ids
  BY <1>0, PresentJob DEF JobsOK, JobOK
<1>5. FreshIds'
  <2> SUFFICES ASSUME NEW v \in Workers, Drawn(v)'
               PROVE  /\ Unused(db, job[v].id)'
                      /\ (writer # None)' => Unused(pending, job[v].id)'
                      /\ \A u \in Workers \ {v} : Drawn(u)' => job'[u].id # job'[v].id
    BY DEF FreshIds
  <2>1. \A u \in Workers \ {w} : Drawn(u)' =>
            Drawn(u) /\ job'[u].id = job[u].id /\ job[u].id <= n /\ job[u].id \in Ids
    BY <1>1, <1>4 DEF Drawn
  <2>2. job'[w].id = n + 1
    BY <1>1
  <2>3. CASE v = w
    BY <2>1, <2>2, <2>3, <1>0, <1>1, <1>3 DEF Unused, Ids
  <2>4. CASE v # w
    BY <2>1, <2>2, <2>4, <1>0, <1>1 DEF FreshIds, Unused, Ids
  <2>5. QED
    BY <2>3, <2>4
<1>6. JobsOK'
  <2> SUFFICES ASSUME NEW v \in Workers, job'[v] # None PROVE JobOK(v)'
    BY DEF JobsOK
  <2>1. CASE v # w
    <3>1. job[v] # None /\ JobOK(v) /\ job[v].id \in Nat
      BY <2>1, <1>0, <1>1, <1>4 DEF JobsOK, Ids
    <3>2. QED
      BY <2>1, <3>1, <1>0, <1>1 DEF JobOK
  <2>2. CASE v = w
    BY <2>2, <1>0, <1>1 DEF JobOK
  <2>3. QED
    BY <2>1, <2>2
<1>7. AnsweredMeansDurable'
  BY <1>0, <1>1 DEF AnsweredMeansDurable, Credentials
<1>8. QED
  BY <1>2, <1>5, <1>6, <1>7 DEF IInv

(* Every write a handler makes is a good one.                              *)
LEMMA HandlerWritesAreGood ==
    ASSUME IInv, NEW w \in Workers,
           \/ RefuseSpentNonce(w) \/ IssueTooLate(w) \/ Issue(w)
           \/ RecordReplay(w) \/ SecondRedemption(w) \/ Redeem(w) \/ Revoke(w)
    PROVE  \E image : GoodWrite(w, image)
<1> DEFINE i == View(w)
           r == job[w].req
           id == job[w].id
<1>0. /\ job[w] # None /\ id \in Ids /\ r \in Requests /\ i \in Database
      /\ id <= requests /\ requests \in Nat /\ Sound(i, requests)
      /\ Drawn(w) => Unused(i, id)
      /\ TypeOK /\ JobOK(w)
  <2>1. TypeOK /\ JobsOK /\ requests \in Nat
    BY DEF IInv, TypeOK
  <2>2. job[w] # None
    BY DEF RefuseSpentNonce, IssueTooLate, Issue, RecordReplay, SecondRedemption, Redeem,
       Revoke, At
  <2>3. JobOK(w) /\ id <= requests
    BY <2>1, <2>2 DEF JobsOK, JobOK
  <2>4. QED
    BY <2>1, <2>2, <2>3, PresentJob, ViewType, SoundView, FreshView
<1>1. ~(Raise(w) /\ Goto(w, "written"))
  <2> SUFFICES ASSUME Raise(w), Goto(w, "written") PROVE FALSE
    OBVIOUS
  <2>1. job'[w] = None /\ job'[w] = [job[w] EXCEPT !.pc = "written"]
    BY <1>0 DEF Raise, Goto, TypeOK
  <2>2. [job[w] EXCEPT !.pc = "written"] \in Job
    BY <1>0, PresentJob DEF Job
  <2>3. QED
    BY <2>1, <2>2, NoneAssumption
<1>2. CASE RefuseSpentNonce(w)
  <2>1. Sound(i, requests) /\ Grows(i, i, {})
    BY <1>0, SameImage
  <2>2. GoodWrite(w, i)
    BY <1>0, <1>1, <1>2, <2>1 DEF GoodWrite, RefuseSpentNonce
  <2>3. QED
    BY <2>2
<1>3. CASE IssueTooLate(w)
  <2>1. r.nonce \in Nonces
    BY <1>0, <1>3, RequestFields DEF IssueTooLate, At
  <2>2. Sound(WithNonce(i, r.nonce), requests) /\ Grows(i, WithNonce(i, r.nonce), {})
    BY <1>0, <2>1, SameImage, WithNonceType
  <2>3. GoodWrite(w, WithNonce(i, r.nonce))
    BY <1>0, <1>1, <1>3, <2>2 DEF GoodWrite, IssueTooLate
  <2>4. QED
    BY <2>3
<1>4. CASE Issue(w)
  <2>1. r.nonce \in Nonces /\ r.key \in Keys /\ r.op = "issue" /\ Drawn(w)
    BY <1>0, <1>4, RequestFields DEF Issue, At, Drawn
  <2>2. /\ Sound(WithIssuance(i, r, id), requests)
        /\ Grows(i, WithIssuance(i, r, id), {id})
        /\ WithIssuance(i, r, id).credentials[id] # None
    BY <1>0, <2>1, IssuanceImage
  <2>3. GoodWrite(w, WithIssuance(i, r, id))
    BY <1>0, <1>1, <1>4, <2>1, <2>2 DEF GoodWrite, Issue
  <2>4. QED
    BY <2>3
<1>5. CASE RecordReplay(w)
  <2> DEFINE j == [i EXCEPT !.replays = @ + 1]
  <2>1. /\ j.credentials = i.credentials /\ j.redemptions = i.redemptions
        /\ j.idempotency = i.idempotency
    BY <1>0 DEF Database
  <2> HIDE DEF j
  <2>2. Sound(j, requests) /\ Grows(i, j, {})
    BY <1>0, <2>1, SameImage
  <2>3. Write(w, j) /\ Raise(w)
    BY <1>5 DEF RecordReplay, j
  <2>4. GoodWrite(w, j)
    BY <1>0, <1>1, <2>2, <2>3 DEF GoodWrite
  <2>5. QED
    BY <2>4
<1>6. CASE SecondRedemption(w)
  <2> DEFINE j == WithCredential(i, r.credential, Redeemed(id))
  <2>1. r.credential \in Ids /\ i.credentials[r.credential] # None
    BY <1>0, <1>6, RequestFields DEF SecondRedemption, At, JobOK
  <2>2. Redemption(i, r.credential)
    BY <1>6 DEF SecondRedemption, RedemptionExists, Redemption
  <2>3. Sound(j, requests) /\ Grows(i, j, {})
    BY <1>0, <2>1, <2>2, OverwriteImage
  <2>4. Write(w, j) /\ Raise(w)
    BY <1>6 DEF SecondRedemption
  <2> HIDE DEF j
  <2>5. GoodWrite(w, j)
    BY <1>0, <1>1, <2>3, <2>4 DEF GoodWrite
  <2>6. QED
    BY <2>5
<1>7. CASE Redeem(w)
  <2> DEFINE j == WithRedemption(i, id, r.credential)
  <2>1. /\ r.credential \in Ids /\ i.credentials[r.credential] # None
        /\ r.op = "redeem" /\ Drawn(w)
    BY <1>0, <1>7, RequestFields DEF Redeem, At, JobOK, Drawn
  <2>2. ~Redemption(i, r.credential)
    BY <1>7 DEF Redeem, RedemptionExists, Redemption
  <2>3. Sound(j, requests) /\ Grows(i, j, {id}) /\ j.redemptions[id] # None
    BY <1>0, <2>1, <2>2, RedemptionImage
  <2>4. Write(w, j) /\ Goto(w, "written")
    BY <1>7 DEF Redeem
  <2> HIDE DEF j
  <2>5. GoodWrite(w, j)
    BY <1>0, <1>1, <2>1, <2>3, <2>4 DEF GoodWrite
  <2>6. QED
    BY <2>5
<1>8. CASE Revoke(w)
  <2> DEFINE j == WithCredential(i, r.credential, Revoked(id))
  <2>1. r.credential \in Ids /\ i.credentials[r.credential] # None /\ r.op = "revoke"
    BY <1>0, <1>8, RequestFields DEF Revoke, At, JobOK
  <2>2. Sound(j, requests) /\ Grows(i, j, {})
    BY <1>0, <2>1, OverwriteImage
  <2>3. Write(w, j) /\ Goto(w, "written")
    BY <1>8 DEF Revoke
  <2> HIDE DEF j
  <2>4. GoodWrite(w, j)
    BY <1>0, <1>1, <2>1, <2>2, <2>3 DEF GoodWrite
  <2>5. QED
    BY <2>4
<1>9. QED
  BY <1>2, <1>3, <1>4, <1>5, <1>6, <1>7, <1>8

LEMMA HandlerWritesKeep ==
    ASSUME IInv, NEW w \in Workers,
           \/ RefuseSpentNonce(w) \/ IssueTooLate(w) \/ Issue(w)
           \/ RecordReplay(w) \/ SecondRedemption(w) \/ Redeem(w) \/ Revoke(w)
    PROVE  IInv'
<1>1. TypeOK'
  BY HandlerWrites DEF IInv
<1>2. PICK image : GoodWrite(w, image)
  BY HandlerWritesAreGood
<1>3. QED
  BY <1>1, <1>2, WriteKeeps

LEMMA HandlerReadsKeep ==
    ASSUME IInv, NEW w \in Workers,
           \/ RefuseUnread(w) \/ RedeemRead(w) \/ RevokeRead(w) \/ Status(w)
           \/ Locked(w) \/ CommitLocked(w)
    PROVE  IInv'
<1>1. TypeOK'
  BY HandlerReads DEF IInv
<1>2. UNCHANGED <<db, writer, pending>>
  BY DEF RefuseUnread, RedeemRead, RevokeRead, Status, Locked, CommitLocked, Select, lockVars
<1>3. CASE Raise(w)
  BY <1>1, <1>2, <1>3, DropKeeps
<1>4. CASE ~Raise(w)
  <2>1. /\ job[w] # None /\ job[w].pc = "begun" /\ Presented(w) # None
        /\ \E pc \in {"looked", "replay"} : Goto(w, pc)
    BY <1>4 DEF RefuseUnread, RedeemRead, RevokeRead, Status, Locked, CommitLocked, At
  <2>2. QED
    BY <1>1, <1>2, <2>1, GotoKeeps DEF Presented
<1>5. QED
  BY <1>3, <1>4

LEMMA CommitKeeps ==
    ASSUME IInv, NEW w \in Workers, Commit(w), TypeOK'
    PROVE  IInv'
<1>0. /\ TypeOK /\ Images /\ FreshIds /\ JobsOK /\ AnsweredMeansDurable
      /\ Sound(View(w), requests) /\ Grows(db, View(w), Ids)
      /\ job[w] # None /\ job[w].pc = "written" /\ JobOK(w)
  BY SoundView DEF IInv, Commit, JobsOK
<1>1. /\ db' = View(w) /\ requests' = requests
      /\ (writer' = writer /\ pending' = pending) \/ (writer' = None /\ pending' = None)
      /\ writer = w => writer' = None
  BY DEF Commit, EndTransaction, View, boundVars
<1>2. /\ job'[w] = None /\ ~Drawn(w)'
      /\ \A v \in Workers \ {w} : job'[v] = job[v]
  BY <1>0 DEF TypeOK, Commit, Drawn
<1>3. Images'
  <2>1. CASE writer = w
    BY <2>1, <1>0, <1>1 DEF Images, Sound, Grows, Redemption
  <2>2. CASE writer # w
    BY <2>2, <1>0, <1>1 DEF Images, Sound, Grows, Redemption, View
  <2>3. QED
    BY <2>1, <2>2
<1>4. FreshIds'
  <2> SUFFICES ASSUME NEW v \in Workers, Drawn(v)'
               PROVE  /\ Unused(db, job[v].id)'
                      /\ (writer # None)' => Unused(pending, job[v].id)'
                      /\ \A u \in Workers \ {v} : Drawn(u)' => job'[u].id # job'[v].id
    BY DEF FreshIds
  <2>1. \A u \in Workers : Drawn(u)' => Drawn(u) /\ job'[u] = job[u]
    BY <1>2 DEF Drawn
  <2>2. Unused(View(w), job[v].id)
    BY <2>1, FreshView
  <2>3. QED
    BY <1>0, <1>1, <2>1, <2>2 DEF FreshIds, Unused
<1>5. JobsOK'
  <2> SUFFICES ASSUME NEW v \in Workers, job'[v] # None PROVE JobOK(v)'
    BY DEF JobsOK
  <2>1. v # w /\ job'[v] = job[v] /\ job[v] # None /\ JobOK(v)
    BY <1>0, <1>2 DEF JobsOK
  <2>2. job[v].id \in Ids /\ job[v].req \in Requests
    BY <1>0, <2>1, PresentJob
  <2>3. /\ \A c \in Ids : View(v).credentials[c] # None => View(v)'.credentials[c] # None
        /\ \A r \in Ids : View(v).redemptions[r] # None => View(v)'.redemptions[r] # None
    <3>1. CASE writer = v
      BY <3>1, <2>1 DEF View, Commit, EndTransaction
    <3>2. CASE writer # v
      BY <3>2, <2>1, <1>0, <1>1, VotingCredentialAssumption DEF View, Grows
    <3>3. QED
      BY <3>1, <3>2
  <2>4. job[v].req.op \in {"redeem", "revoke"} => job[v].req.credential \in Ids
    BY <2>2, RequestFields
  <2>5. QED
    BY <1>1, <2>1, <2>2, <2>3, <2>4 DEF JobOK
<1>6. AnsweredMeansDurable'
  <2> SUFFICES ASSUME NEW a \in answered'
               PROVE  IF a[1] = "issue" THEN a[2] \in Credentials(db)'
                                        ELSE db'.redemptions[a[2]] # None
    BY DEF AnsweredMeansDurable, Credentials
  <2>1. CASE a \in answered
    <3>1. a[2] \in Ids
      BY <2>1, <1>0 DEF TypeOK
    <3>2. QED
      BY <2>1, <3>1, <1>0, <1>1 DEF AnsweredMeansDurable, Credentials, Grows
  <2>2. CASE a \notin answered
    <3>1. a = <<job[w].req.op, job[w].id>> /\ job[w].req.op \in {"issue", "redeem"}
      BY <2>2 DEF Commit
    <3>2. job[w].id \in Ids
      BY <1>0, PresentJob
    <3>3. QED
      BY <3>1, <3>2, <1>0, <1>1 DEF JobOK, Credentials
  <2>3. QED
    BY <2>1, <2>2
<1>7. QED
  BY <1>3, <1>4, <1>5, <1>6 DEF IInv

(* A crash loses the writes that are pending, and nothing else.            *)
LEMMA CrashKeeps ==
    ASSUME IInv, NEW w \in Workers, Crash(w), TypeOK'
    PROVE  IInv'
<1>0. TypeOK /\ Images /\ FreshIds /\ JobsOK /\ AnsweredMeansDurable
  BY DEF IInv
<1>1. /\ UNCHANGED <<db, answered, requests>>
      /\ (writer' = writer /\ pending' = pending) \/ (writer' = None /\ pending' = None)
      /\ job'[w] = None /\ \A v \in Workers \ {w} : job'[v] = job[v]
      /\ \A v \in Workers \ {w} : View(v)' = View(v)
  BY <1>0, VotingCredentialAssumption DEF TypeOK, Crash, View
<1>2. Images'
  BY <1>0, <1>1 DEF Images, Sound, Grows, Redemption
<1>3. FreshIds'
  BY <1>0, <1>1 DEF FreshIds, Unused, Drawn
<1>4. JobsOK'
  BY <1>0, <1>1 DEF JobsOK, JobOK
<1>5. AnsweredMeansDurable'
  BY <1>0, <1>1 DEF AnsweredMeansDurable, Credentials
<1>6. QED
  BY <1>2, <1>3, <1>4, <1>5 DEF IInv

LEMMA InitInv == Init => IInv
<1> SUFFICES ASSUME Init PROVE IInv
  OBVIOUS
<1>1. Images /\ Sound(db, requests)
  BY DEF Init, Empty, Images, Sound
<1>2. FreshIds /\ JobsOK /\ AnsweredMeansDurable
  BY DEF Init, FreshIds, Drawn, JobsOK, AnsweredMeansDurable
<1>3. QED
  BY <1>1, <1>2, InitType DEF IInv

LEMMA NextInv == IInv /\ [Next]_vars => IInv'
<1> SUFFICES ASSUME IInv, [Next]_vars PROVE IInv'
  OBVIOUS
<1>0. TypeOK'
  BY NextType DEF IInv
<1>1. CASE Next
  BY <1>0, <1>1, BeginKeeps, LookUpKeyKeeps, HandlerWritesKeep, HandlerReadsKeep,
     CommitKeeps, CrashKeeps, Zenon DEF Next
<1>2. CASE UNCHANGED vars
  BY <1>0, <1>2 DEF vars, lockVars, boundVars, IInv, Images, Sound, Grows, Redemption,
     FreshIds, Unused, Drawn, JobsOK, JobOK, View, AnsweredMeansDurable, Credentials
<1>3. QED
  BY <1>1, <1>2

LEMMA Invariant == Spec => []IInv
BY InitInv, NextInv, PTL DEF Spec

-----------------------------------------------------------------------------
(* What the issuer promises *)

(* A credential or a capability that was handed out is in the committed    *)
(* database from then on, whatever crashes and whoever holds the lock.     *)
THEOREM AnswersAreDurable == Spec => []AnsweredMeansDurable
<1>1. IInv => AnsweredMeansDurable
  BY DEF IInv
<1>2. QED
  BY <1>1, Invariant, PTL

(* No two capabilities that clients hold come from one credential.         *)
THEOREM OneRedemption == Spec => []OneCapabilityPerCredential
<1>1. IInv => OneCapabilityPerCredential
  <2> SUFFICES ASSUME IInv, NEW r \in Ids, NEW s \in Ids,
                      <<"redeem", r>> \in answered, <<"redeem", s>> \in answered, r # s
               PROVE  db.redemptions[r] # db.redemptions[s]
    BY DEF OneCapabilityPerCredential
  <2>1. db.redemptions[r] # None /\ db.redemptions[s] # None
    BY DEF IInv, AnsweredMeansDurable
  <2>2. QED
    BY <2>1 DEF IInv, Images, Sound
<1>2. QED
  BY <1>1, Invariant, PTL

(* The two writes of a redemption are never committed apart.               *)
THEOREM RedemptionIsAtomic == Spec => []RedeemedMeansRedemption
<1>1. IInv => RedeemedMeansRedemption
  BY DEF IInv, Images, Sound, Redemption, RedeemedMeansRedemption, Credentials
<1>2. QED
  BY <1>1, Invariant, PTL

-----------------------------------------------------------------------------
(* No double credential *)

(* What NoDoubleCredential asks, of every image of the database, with the  *)
(* finiteness that its count needs.                                        *)
Rationed(i) ==
    /\ IsFiniteSet(i.spent)
    /\ Cardinality(Credentials(i)) <= Cardinality(i.spent)
    /\ \A k, l \in Keys : k # l /\ i.idempotency[k] # None =>
          i.idempotency[l] # i.idempotency[k]

AllRationed == Rationed(db) /\ (writer # None => Rationed(pending))

LEMMA CredentialsFinite ==
    ASSUME NEW i
    PROVE  IsFiniteSet(Credentials(i)) /\ Cardinality(Credentials(i)) \in Nat
<1>1. IsFiniteSet(1 .. MaxRequests)
  BY VotingCredentialAssumption, FS_Interval
<1>2. Credentials(i) \subseteq 1 .. MaxRequests
  BY DEF Ids, Credentials
<1>3. QED
  BY <1>1, <1>2, FS_Subset, FS_CardinalityType

(* Images that have the same credentials, spent nonces and answers.        *)
LEMMA SameRation ==
    ASSUME NEW i, NEW j, Rationed(i), Credentials(j) = Credentials(i), j.spent = i.spent,
           j.idempotency = i.idempotency
    PROVE  Rationed(j)
BY DEF Rationed

LEMMA RationedView ==
    ASSUME AllRationed, NEW w \in Workers
    PROVE  Rationed(View(w))
BY VotingCredentialAssumption DEF AllRationed, View

(* Saving over a credential that exists adds none.                         *)
LEMMA OverwriteRation ==
    ASSUME NEW i \in Database, Rationed(i), NEW c \in Ids, i.credentials[c] # None,
           NEW row \in VotingCredential, NEW j,
           j.credentials = [i.credentials EXCEPT ![c] = row],
           j.spent = i.spent, j.idempotency = i.idempotency
    PROVE  Rationed(j)
<1>1. i.credentials \in [Ids -> VotingCredential \cup {None}] /\ row # None
  BY NoneAssumption DEF Database
<1>2. Credentials(j) = Credentials(i)
  BY <1>1 DEF Credentials
<1>3. QED
  BY <1>2, SameRation

(* A nonce that is spent for nothing leaves room.                          *)
LEMMA NonceRation ==
    ASSUME NEW i \in Database, Rationed(i), NEW nonce \in Nonces
    PROVE  Rationed(WithNonce(i, nonce))
<1> DEFINE j == WithNonce(i, nonce)
<1>1. /\ j.credentials = i.credentials /\ j.idempotency = i.idempotency
      /\ j.spent = i.spent \cup {nonce}
  BY WithNonceType DEF Database, WithNonce
<1> HIDE DEF j
<1>2. Credentials(j) = Credentials(i)
  BY <1>1 DEF Credentials
<1>3. /\ IsFiniteSet(j.spent) /\ Cardinality(i.spent) \in Nat /\ Cardinality(j.spent) \in Nat
      /\ Cardinality(i.spent) <= Cardinality(j.spent)
  <2>1. IsFiniteSet(j.spent) /\ i.spent \in SUBSET j.spent
    BY <1>1, FS_AddElement DEF Rationed
  <2>2. QED
    BY <2>1, FS_Subset, FS_CardinalityType
<1>4. Cardinality(Credentials(i)) \in Nat
  BY CredentialsFinite
<1>5. QED
  BY <1>1, <1>2, <1>3, <1>4 DEF Rationed, j

(* An issuance stores one credential for the nonce it spends, and answers  *)
(* its key with an id that no key was answered with.                       *)
LEMMA IssuanceRation ==
    ASSUME NEW i \in Database, Rationed(i), NEW n, Sound(i, n),
           NEW r, r.nonce \in Nonces \ i.spent, r.key \in Keys,
           NEW c \in Ids, i.credentials[c] = None
    PROVE  Rationed(WithIssuance(i, r, c))
<1> DEFINE j == WithIssuance(i, r, c)
<1>1. /\ j.credentials = [i.credentials EXCEPT ![c] = Issued]
      /\ j.idempotency = [i.idempotency EXCEPT ![r.key] = c]
  BY WithIssuanceType
<1>2. j.spent = i.spent \cup {r.nonce}
  <2> DEFINE m == WithNonce(i, r.nonce)
             o == WithCredential(m, c, Issued)
  <2>1. m.spent = i.spent \cup {r.nonce} /\ m \in Database
    BY WithNonceType DEF WithNonce, Database
  <2>2. o.spent = m.spent /\ o \in Database
    BY <2>1, WithCredentialType, RowTypes
  <2>3. j = [o EXCEPT !.idempotency = [@ EXCEPT ![r.key] = c]]
    BY DEF WithIssuance
  <2> HIDE DEF o, m, j
  <2>4. QED
    BY <2>1, <2>2, <2>3 DEF Database
<1>3. /\ i.credentials \in [Ids -> VotingCredential \cup {None}]
      /\ i.idempotency \in [Keys -> Ids \cup {None}]
  BY DEF Database
<1> HIDE DEF j
<1>4. /\ Credentials(j) = Credentials(i) \cup {c} /\ c \notin Credentials(i)
  BY <1>1, <1>3, RowsPresent DEF Credentials
<1>5. Cardinality(Credentials(j)) = Cardinality(Credentials(i)) + 1
  BY <1>4, CredentialsFinite, FS_AddElement
<1>6. /\ IsFiniteSet(j.spent) /\ Cardinality(j.spent) = Cardinality(i.spent) + 1
      /\ Cardinality(i.spent) \in Nat
  <2>1. r.nonce \notin i.spent /\ IsFiniteSet(i.spent)
    BY DEF Rationed
  <2>2. QED
    BY <1>2, <2>1, FS_AddElement, FS_CardinalityType
<1>7. \A k \in Keys : i.idempotency[k] # c
  BY VotingCredentialAssumption DEF Sound, Ids
<1>8. \A k, l \in Keys : k # l /\ j.idempotency[k] # None => j.idempotency[l] # j.idempotency[k]
  BY <1>1, <1>3, <1>7 DEF Rationed
<1>9. Cardinality(Credentials(i)) \in Nat
  BY CredentialsFinite
<1>10. QED
  BY <1>5, <1>6, <1>8, <1>9 DEF Rationed, j

(* A redemption adds no credential and spends no nonce.                    *)
LEMMA RedemptionRation ==
    ASSUME NEW i \in Database, Rationed(i),
           NEW r \in Ids, NEW c \in Ids, i.credentials[c] # None
    PROVE  Rationed(WithRedemption(i, r, c))
<1> DEFINE j == WithRedemption(i, r, c)
           o == WithCredential(i, c, Redeemed(r))
<1>1. Redeemed(r) \in VotingCredential
  BY RowTypes
<1>2. /\ j \in Database
      /\ j.credentials = [i.credentials EXCEPT ![c] = Redeemed(r)]
      /\ j.idempotency = i.idempotency
      /\ j.redemptions = [i.redemptions EXCEPT ![r] = c]
  BY WithRedemptionType
<1>3. o \in Database /\ o.spent = i.spent
  BY <1>1, WithCredentialType
<1>4. j = [o EXCEPT !.redemptions = [@ EXCEPT ![r] = c]]
  BY DEF WithRedemption
<1> HIDE DEF o, j
<1>5. j.spent = i.spent
  BY <1>3, <1>4 DEF Database
<1>6. Rationed(j)
  BY <1>1, <1>2, <1>5, OverwriteRation
<1>7. QED
  BY <1>6 DEF j

(* Every image a handler writes is rationed.                               *)
LEMMA WritesAreRationed ==
    ASSUME IInv, AllRationed, NEW w \in Workers,
           \/ RefuseSpentNonce(w) \/ IssueTooLate(w) \/ Issue(w)
           \/ RecordReplay(w) \/ SecondRedemption(w) \/ Redeem(w) \/ Revoke(w)
    PROVE  db' = db /\ Rationed(pending')
<1> DEFINE i == View(w)
           r == job[w].req
           id == job[w].id
<1>0. /\ job[w] # None /\ id \in Ids /\ r \in Requests /\ i \in Database
      /\ Sound(i, requests) /\ Rationed(i) /\ JobOK(w)
      /\ Drawn(w) => Unused(i, id)
  <2>1. TypeOK /\ JobsOK
    BY DEF IInv
  <2>2. job[w] # None
    BY DEF RefuseSpentNonce, IssueTooLate, Issue, RecordReplay, SecondRedemption, Redeem,
       Revoke, At
  <2>3. QED
    BY <2>1, <2>2, PresentJob, ViewType, SoundView, FreshView, RationedView DEF JobsOK
<1>1. CASE RefuseSpentNonce(w)
  BY <1>0, <1>1 DEF RefuseSpentNonce, Write
<1>2. CASE IssueTooLate(w)
  <2>1. r.nonce \in Nonces
    BY <1>0, <1>2, RequestFields DEF IssueTooLate, At
  <2>2. Rationed(WithNonce(i, r.nonce))
    BY <1>0, <2>1, NonceRation
  <2>3. QED
    BY <1>2, <2>2 DEF IssueTooLate, Write
<1>3. CASE Issue(w)
  <2>1. r.nonce \in Nonces \ i.spent /\ r.key \in Keys /\ i.credentials[id] = None
    BY <1>0, <1>3, RequestFields DEF Issue, At, Drawn, Unused, NonceSpent
  <2>2. Rationed(WithIssuance(i, r, id))
    BY <1>0, <2>1, IssuanceRation
  <2>3. QED
    BY <1>3, <2>2 DEF Issue, Write
<1>4. CASE RecordReplay(w)
  <2> DEFINE j == [i EXCEPT !.replays = @ + 1]
  <2>1. j.credentials = i.credentials /\ j.spent = i.spent /\ j.idempotency = i.idempotency
    BY <1>0 DEF Database
  <2>2. pending' = j /\ db' = db
    BY <1>4 DEF RecordReplay, Write
  <2> HIDE DEF j
  <2>3. Rationed(j)
    BY <1>0, <2>1, SameRation DEF Credentials
  <2>4. QED
    BY <2>2, <2>3
<1>5. CASE SecondRedemption(w)
  <2> DEFINE j == WithCredential(i, r.credential, Redeemed(id))
  <2>1. r.credential \in Ids /\ i.credentials[r.credential] # None
    BY <1>0, <1>5, RequestFields DEF SecondRedemption, At, JobOK
  <2>2. /\ j.credentials = [i.credentials EXCEPT ![r.credential] = Redeemed(id)]
        /\ j.spent = i.spent /\ j.idempotency = i.idempotency
        /\ Redeemed(id) \in VotingCredential
    BY <1>0, <2>1, WithCredentialType, RowTypes
  <2>3. pending' = j /\ db' = db
    BY <1>5 DEF SecondRedemption, Write
  <2> HIDE DEF j
  <2>4. QED
    BY <1>0, <2>1, <2>2, <2>3, OverwriteRation
<1>6. CASE Redeem(w)
  <2>1. r.credential \in Ids /\ i.credentials[r.credential] # None
    BY <1>0, <1>6, RequestFields DEF Redeem, At, JobOK
  <2>2. Rationed(WithRedemption(i, id, r.credential))
    BY <1>0, <2>1, RedemptionRation
  <2>3. QED
    BY <1>6, <2>2 DEF Redeem, Write
<1>7. CASE Revoke(w)
  <2> DEFINE j == WithCredential(i, r.credential, Revoked(id))
  <2>1. r.credential \in Ids /\ i.credentials[r.credential] # None
    BY <1>0, <1>7, RequestFields DEF Revoke, At, JobOK
  <2>2. /\ j.credentials = [i.credentials EXCEPT ![r.credential] = Revoked(id)]
        /\ j.spent = i.spent /\ j.idempotency = i.idempotency
        /\ Revoked(id) \in VotingCredential
    BY <1>0, <2>1, WithCredentialType, RowTypes
  <2>3. pending' = j /\ db' = db
    BY <1>7 DEF Revoke, Write
  <2> HIDE DEF j
  <2>4. QED
    BY <1>0, <2>1, <2>2, <2>3, OverwriteRation
<1>8. QED
  BY <1>1, <1>2, <1>3, <1>4, <1>5, <1>6, <1>7

LEMMA NextRationed ==
    ASSUME IInv, AllRationed, [Next]_vars
    PROVE  AllRationed'
<1> USE DEF AllRationed
<1>1. CASE UNCHANGED <<db, writer, pending>>
  BY <1>1 DEF Rationed, Credentials
<1>2. ASSUME NEW w \in Workers, Commit(w) PROVE AllRationed'
  <2>1. Rationed(View(w))
    BY RationedView
  <2>2. db' = View(w) /\ (writer' # None => writer' = writer /\ pending' = pending)
    BY <1>2 DEF Commit, EndTransaction, View
  <2>3. QED
    BY <2>1, <2>2 DEF Rationed, Credentials
<1>3. ASSUME NEW w \in Workers, Crash(w) PROVE AllRationed'
  BY <1>3 DEF Crash, Rationed, Credentials
<1>4. ASSUME NEW w \in Workers,
             \/ RefuseSpentNonce(w) \/ IssueTooLate(w) \/ Issue(w)
             \/ RecordReplay(w) \/ SecondRedemption(w) \/ Redeem(w) \/ Revoke(w)
      PROVE  AllRationed'
  <2>1. db' = db /\ Rationed(pending')
    BY <1>4, WritesAreRationed
  <2>2. QED
    BY <2>1 DEF Rationed, Credentials
<1>5. ASSUME NEW w \in Workers,
             \/ \E r \in Requests : Begin(w, r)
             \/ RefuseUnread(w) \/ LookUpKey(w) \/ RedeemRead(w) \/ RevokeRead(w)
             \/ Status(w) \/ Locked(w) \/ CommitLocked(w)
      PROVE  AllRationed'
  <2>1. UNCHANGED <<db, writer, pending>>
    BY <1>5 DEF Begin, RefuseUnread, LookUpKey, RedeemRead, RevokeRead, Status, Locked,
       CommitLocked, Select, lockVars
  <2>2. QED
    BY <2>1, <1>1
<1>6. CASE UNCHANGED vars
  BY <1>1, <1>6 DEF vars, lockVars
<1>7. QED
  BY <1>2, <1>3, <1>4, <1>5, <1>6 DEF Next

LEMMA InitRationed == Init => AllRationed
<1> SUFFICES ASSUME Init PROVE AllRationed
  OBVIOUS
<1>1. /\ db.spent = {} /\ Credentials(db) = {} /\ writer = None
      /\ \A k \in Keys : db.idempotency[k] = None
  BY DEF Init, Empty, Credentials
<1>2. QED
  BY <1>1, FS_EmptySet DEF AllRationed, Rationed

(* NoDoubleCredential: the database never holds more credentials than      *)
(* assertion nonces were spent, and no two keys are answered with one.     *)
THEOREM CredentialsAreRationed == Spec => []NoDoubleCredential
<1>1. Spec => []AllRationed
  BY InitRationed, NextRationed, Invariant, PTL DEF Spec
<1>2. IInv /\ AllRationed => NoDoubleCredential
  <2> SUFFICES ASSUME IInv, AllRationed PROVE NoDoubleCredential
    OBVIOUS
  <2>1. /\ Sound(db, requests) /\ Rationed(db)
        /\ db.idempotency \in [Keys -> Ids \cup {None}]
    BY DEF IInv, Images, AllRationed, TypeOK, Database
  <2>2. QED
    BY <2>1 DEF Sound, Rationed, NoDoubleCredential, Credentials
<1>3. QED
  BY <1>1, <1>2, Invariant, PTL

-----------------------------------------------------------------------------
(* The promise *)

(* Image j is image i after a batch of requests: each credential of the    *)
(* batch has a nonce of its own that the batch spent, keys are answered    *)
(* only with credentials of the batch, and what was used up stays so.      *)
Accountable(i, j) ==
    /\ i.spent \subseteq j.spent /\ Credentials(i) \subseteq Credentials(j)
    /\ \E paid \in [Credentials(j) \ Credentials(i) -> j.spent \ i.spent] : Desk!OneToOne(paid)
    /\ \A k \in Keys : j.idempotency[k] # i.idempotency[k] =>
          j.idempotency[k] \in Credentials(j) \ Credentials(i)
    /\ \A c \in Credentials(i) : i.credentials[c].status # "issued" =>
          j.credentials[c].status # "issued"

(* The writes that are pending are a batch over the committed database.    *)
Accounts == writer # None => \E i, j : i = db /\ j = pending /\ Accountable(i, j)

(* A redemption that waits for its commit is in nobody's database yet.     *)
Unredeemed ==
    \A w \in Workers : At(w, "written", "redeem") => db.redemptions[job[w].id] = None

LEMMA NothingAccountable ==
    ASSUME NEW i
    PROVE  Accountable(i, i)
<1> DEFINE paid == [x \in {} |-> x]
<1>1. paid \in [Credentials(i) \ Credentials(i) -> i.spent \ i.spent] /\ Desk!OneToOne(paid)
  BY DEF Desk!OneToOne
<1> HIDE DEF paid
<1>2. QED
  BY <1>1 DEF Accountable

LEMMA AccountableView ==
    ASSUME Accounts, NEW w \in Workers
    PROVE  Accountable(db, View(w))
BY NothingAccountable, VotingCredentialAssumption DEF Accounts, View

(* A write that adds no credential and answers no key.                     *)
LEMMA SpendAccountable ==
    ASSUME NEW i, NEW j, NEW k, Accountable(i, j),
           Credentials(k) = Credentials(j), k.idempotency = j.idempotency,
           j.spent \subseteq k.spent,
           \A c \in Credentials(j) :
              j.credentials[c].status # "issued" => k.credentials[c].status # "issued"
    PROVE  Accountable(i, k)
<1>1. PICK paid \in [Credentials(j) \ Credentials(i) -> j.spent \ i.spent] : Desk!OneToOne(paid)
  BY DEF Accountable
<1>2. paid \in [Credentials(k) \ Credentials(i) -> k.spent \ i.spent]
  BY <1>1
<1>3. i.spent \subseteq k.spent /\ Credentials(i) \subseteq Credentials(k)
  BY DEF Accountable
<1>4. QED
  BY <1>1, <1>2, <1>3 DEF Accountable

(* Saving over a credential that exists, with one that is used up.         *)
LEMMA OverwriteAccountable ==
    ASSUME NEW i, NEW j \in Database, NEW k, Accountable(i, j),
           NEW c \in Ids, j.credentials[c] # None,
           NEW row, row # None, row.status # "issued",
           k.credentials = [j.credentials EXCEPT ![c] = row],
           k.spent = j.spent, k.idempotency = j.idempotency
    PROVE  Accountable(i, k)
<1>1. j.credentials \in [Ids -> VotingCredential \cup {None}]
  BY DEF Database
<1>2. k.credentials[c] = row /\ \A d \in Ids \ {c} : k.credentials[d] = j.credentials[d]
  BY <1>1
<1>3. Credentials(k) = Credentials(j)
  BY <1>2 DEF Credentials
<1>4. \A d \in Credentials(j) :
          j.credentials[d].status # "issued" => k.credentials[d].status # "issued"
  BY <1>2 DEF Credentials
<1>5. QED
  BY <1>3, <1>4, SpendAccountable

LEMMA IssuanceSpends ==
    ASSUME NEW i \in Database, NEW r, r.nonce \in Nonces, r.key \in Keys, NEW c \in Ids
    PROVE  WithIssuance(i, r, c).spent = i.spent \cup {r.nonce}
<1> DEFINE m == WithNonce(i, r.nonce)
           o == WithCredential(m, c, Issued)
<1>1. m.spent = i.spent \cup {r.nonce} /\ m \in Database
  BY WithNonceType DEF WithNonce, Database
<1>2. o.spent = m.spent /\ o \in Database
  BY <1>1, WithCredentialType, RowTypes
<1>3. WithIssuance(i, r, c) = [o EXCEPT !.idempotency = [@ EXCEPT ![r.key] = c]]
  BY DEF WithIssuance
<1> HIDE DEF o, m
<1>4. QED
  BY <1>1, <1>2, <1>3 DEF Database

LEMMA RedemptionSpends ==
    ASSUME NEW i \in Database, NEW r \in Ids, NEW c \in Ids
    PROVE  WithRedemption(i, r, c).spent = i.spent
<1> DEFINE o == WithCredential(i, c, Redeemed(r))
<1>1. o \in Database /\ o.spent = i.spent
  BY WithCredentialType, RowTypes
<1>2. WithRedemption(i, r, c) = [o EXCEPT !.redemptions = [@ EXCEPT ![r] = c]]
  BY DEF WithRedemption
<1> HIDE DEF o
<1>3. QED
  BY <1>1, <1>2 DEF Database

LEMMA ReadersLeaveImages ==
    ASSUME NEW w \in Workers,
           \/ \E r \in Requests : Begin(w, r)
           \/ RefuseUnread(w) \/ LookUpKey(w) \/ RedeemRead(w) \/ RevokeRead(w)
           \/ Status(w) \/ Locked(w) \/ CommitLocked(w)
    PROVE  UNCHANGED <<db, writer, pending>>
BY DEF Begin, RefuseUnread, LookUpKey, RedeemRead, RevokeRead, Status, Locked,
   CommitLocked, Select, lockVars

LEMMA IssuanceAccountable ==
    ASSUME NEW i, NEW j \in Database, Accountable(i, j),
           NEW r, r.nonce \in Nonces \ j.spent, r.key \in Keys,
           NEW c \in Ids, j.credentials[c] = None
    PROVE  Accountable(i, WithIssuance(j, r, c))
<1> DEFINE k == WithIssuance(j, r, c)
<1>1. /\ k.credentials = [j.credentials EXCEPT ![c] = Issued]
      /\ k.idempotency = [j.idempotency EXCEPT ![r.key] = c]
  BY WithIssuanceType
<1>2. k.spent = j.spent \cup {r.nonce}
  BY IssuanceSpends
<1>3. /\ j.credentials \in [Ids -> VotingCredential \cup {None}]
      /\ j.idempotency \in [Keys -> Ids \cup {None}]
  BY DEF Database
<1> HIDE DEF k
<1>4. /\ Credentials(k) = Credentials(j) \cup {c} /\ c \notin Credentials(j)
      /\ \A d \in Credentials(j) : k.credentials[d] = j.credentials[d]
  BY <1>1, <1>3, RowsPresent DEF Credentials
<1>5. \A l \in Keys : k.idempotency[l] = IF l = r.key THEN c ELSE j.idempotency[l]
  BY <1>1, <1>3
<1>6. PICK paid \in [Credentials(j) \ Credentials(i) -> j.spent \ i.spent] : Desk!OneToOne(paid)
  BY DEF Accountable
<1> DEFINE all == [d \in Credentials(k) \ Credentials(i) |-> IF d = c THEN r.nonce ELSE paid[d]]
<1>7. i.spent \subseteq j.spent /\ Credentials(i) \subseteq Credentials(j)
  BY DEF Accountable
<1>8. all \in [Credentials(k) \ Credentials(i) -> k.spent \ i.spent]
  BY <1>2, <1>4, <1>6, <1>7
<1>9. Desk!OneToOne(all)
  BY <1>2, <1>4, <1>6 DEF Desk!OneToOne
<1> HIDE DEF all
<1>10. \E p \in [Credentials(k) \ Credentials(i) -> k.spent \ i.spent] : Desk!OneToOne(p)
  BY <1>8, <1>9
<1>11. \A l \in Keys : k.idempotency[l] # i.idempotency[l] =>
           k.idempotency[l] \in Credentials(k) \ Credentials(i)
  BY <1>4, <1>5, <1>7 DEF Accountable
<1>12. \A d \in Credentials(i) : i.credentials[d].status # "issued" =>
           k.credentials[d].status # "issued"
  BY <1>4, <1>7 DEF Accountable
<1>13. Accountable(i, k)
  BY <1>2, <1>4, <1>7, <1>10, <1>11, <1>12 DEF Accountable
<1>14. QED
  BY <1>13 DEF k

LEMMA RedemptionAccountable ==
    ASSUME NEW i, NEW j \in Database, Accountable(i, j),
           NEW r \in Ids, NEW c \in Ids, j.credentials[c] # None
    PROVE  Accountable(i, WithRedemption(j, r, c))
<1> DEFINE k == WithRedemption(j, r, c)
<1>1. /\ k \in Database
      /\ k.credentials = [j.credentials EXCEPT ![c] = Redeemed(r)]
      /\ k.idempotency = j.idempotency
      /\ k.redemptions = [j.redemptions EXCEPT ![r] = c]
  BY WithRedemptionType
<1>2. k.spent = j.spent
  BY RedemptionSpends
<1>3. Redeemed(r) # None /\ Redeemed(r).status # "issued"
  BY RowsPresent
<1> HIDE DEF k
<1>4. Accountable(i, k)
  BY <1>1, <1>2, <1>3, OverwriteAccountable
<1>5. QED
  BY <1>4 DEF k

LEMMA SavedAccountable ==
    ASSUME NEW i, NEW j \in Database, Accountable(i, j),
           NEW c \in Ids, j.credentials[c] # None, NEW id \in Ids,
           NEW row, row = Redeemed(id) \/ row = Revoked(id)
    PROVE  Accountable(i, WithCredential(j, c, row))
<1> DEFINE k == WithCredential(j, c, row)
<1>1. row \in VotingCredential /\ row # None /\ row.status # "issued"
  BY RowTypes, RowsPresent
<1>2. /\ k.credentials = [j.credentials EXCEPT ![c] = row]
      /\ k.spent = j.spent /\ k.idempotency = j.idempotency
  BY <1>1, WithCredentialType
<1> HIDE DEF k
<1>3. Accountable(i, k)
  BY <1>1, <1>2, OverwriteAccountable
<1>4. QED
  BY <1>3 DEF k

LEMMA NonceAccountable ==
    ASSUME NEW i, NEW j \in Database, Accountable(i, j),
           NEW nonce \in Nonces
    PROVE  Accountable(i, WithNonce(j, nonce))
<1> DEFINE k == WithNonce(j, nonce)
<1>1. /\ k.credentials = j.credentials /\ k.idempotency = j.idempotency
      /\ k.spent = j.spent \cup {nonce}
  BY WithNonceType DEF Database, WithNonce
<1> HIDE DEF k
<1>2. Accountable(i, k)
  BY <1>1, SpendAccountable DEF Credentials
<1>3. QED
  BY <1>2 DEF k

LEMMA ReplayAccountable ==
    ASSUME NEW i, NEW j \in Database, Accountable(i, j)
    PROVE  Accountable(i, [j EXCEPT !.replays = @ + 1])
<1> DEFINE k == [j EXCEPT !.replays = @ + 1]
<1>1. k.credentials = j.credentials /\ k.idempotency = j.idempotency /\ k.spent = j.spent
  BY DEF Database
<1> HIDE DEF k
<1>2. Accountable(i, k)
  BY <1>1, SpendAccountable DEF Credentials
<1>3. QED
  BY <1>2 DEF k

(* Every image a handler writes is one more request in the batch.          *)
LEMMA WritesAreAccountable ==
    ASSUME IInv, Accounts, NEW w \in Workers,
           \/ RefuseSpentNonce(w) \/ IssueTooLate(w) \/ Issue(w)
           \/ RecordReplay(w) \/ SecondRedemption(w) \/ Redeem(w) \/ Revoke(w)
    PROVE  db' = db /\ \E k : pending' = k /\ Accountable(db, k)
<1> DEFINE i == View(w)
           r == job[w].req
           id == job[w].id
<1>0. /\ job[w] # None /\ id \in Ids /\ r \in Requests /\ i \in Database
      /\ JobOK(w)
      /\ Drawn(w) => Unused(i, id)
      /\ Accountable(db, i)
  <2>1. TypeOK /\ JobsOK
    BY DEF IInv
  <2>2. job[w] # None
    BY DEF RefuseSpentNonce, IssueTooLate, Issue, RecordReplay, SecondRedemption, Redeem,
       Revoke, At
  <2>3. QED
    BY <2>1, <2>2, PresentJob, ViewType, FreshView, AccountableView DEF JobsOK
<1>1. CASE RefuseSpentNonce(w)
  BY <1>0, <1>1 DEF RefuseSpentNonce, Write
<1>2. CASE IssueTooLate(w)
  <2>1. r.nonce \in Nonces
    BY <1>0, <1>2, RequestFields DEF IssueTooLate, At
  <2>2. Accountable(db, WithNonce(i, r.nonce))
    BY <1>0, <2>1, NonceAccountable
  <2>3. QED
    BY <1>2, <2>2 DEF IssueTooLate, Write
<1>3. CASE Issue(w)
  <2>1. r.nonce \in Nonces \ i.spent /\ r.key \in Keys /\ i.credentials[id] = None
    BY <1>0, <1>3, RequestFields DEF Issue, At, Drawn, Unused, NonceSpent
  <2>2. Accountable(db, WithIssuance(i, r, id))
    BY <1>0, <2>1, IssuanceAccountable
  <2>3. QED
    BY <1>3, <2>2 DEF Issue, Write
<1>4. CASE RecordReplay(w)
  <2>1. Accountable(db, [i EXCEPT !.replays = @ + 1])
    BY <1>0, ReplayAccountable
  <2>2. QED
    BY <1>4, <2>1 DEF RecordReplay, Write
<1>5. CASE SecondRedemption(w)
  <2>1. r.credential \in Ids /\ i.credentials[r.credential] # None
    BY <1>0, <1>5, RequestFields DEF SecondRedemption, At, JobOK
  <2>2. Accountable(db, WithCredential(i, r.credential, Redeemed(id)))
    BY <1>0, <2>1, SavedAccountable
  <2>3. QED
    BY <1>5, <2>2 DEF SecondRedemption, Write
<1>6. CASE Redeem(w)
  <2>1. r.credential \in Ids /\ i.credentials[r.credential] # None
    BY <1>0, <1>6, RequestFields DEF Redeem, At, JobOK
  <2>2. Accountable(db, WithRedemption(i, id, r.credential))
    BY <1>0, <2>1, RedemptionAccountable
  <2>3. QED
    BY <1>6, <2>2 DEF Redeem, Write
<1>7. CASE Revoke(w)
  <2>1. r.credential \in Ids /\ i.credentials[r.credential] # None
    BY <1>0, <1>7, RequestFields DEF Revoke, At, JobOK
  <2>2. Accountable(db, WithCredential(i, r.credential, Revoked(id)))
    BY <1>0, <2>1, SavedAccountable
  <2>3. QED
    BY <1>7, <2>2 DEF Revoke, Write
<1>8. QED
  BY <1>1, <1>2, <1>3, <1>4, <1>5, <1>6, <1>7

LEMMA NextAccounts ==
    ASSUME IInv, Accounts, [Next]_vars
    PROVE  Accounts'
<1> USE DEF Accounts
<1>1. CASE UNCHANGED <<db, writer, pending>>
  BY <1>1
<1>2. ASSUME NEW w \in Workers, Commit(w) PROVE Accounts'
  <2>1. CASE writer = w
    BY <1>2, <2>1 DEF Commit, EndTransaction
  <2>2. CASE writer # w
    BY <1>2, <2>2 DEF Commit, EndTransaction
  <2>3. QED
    BY <2>1, <2>2
<1>3. ASSUME NEW w \in Workers, Crash(w) PROVE Accounts'
  BY <1>3 DEF Crash
<1>4. ASSUME NEW w \in Workers,
             \/ RefuseSpentNonce(w) \/ IssueTooLate(w) \/ Issue(w)
             \/ RecordReplay(w) \/ SecondRedemption(w) \/ Redeem(w) \/ Revoke(w)
      PROVE  Accounts'
  <2>1. db' = db /\ \E k : pending' = k /\ Accountable(db, k)
    BY <1>4, WritesAreAccountable
  <2>2. QED
    BY <2>1
<1>5. ASSUME NEW w \in Workers,
             \/ \E r \in Requests : Begin(w, r)
             \/ RefuseUnread(w) \/ LookUpKey(w) \/ RedeemRead(w) \/ RevokeRead(w)
             \/ Status(w) \/ Locked(w) \/ CommitLocked(w)
      PROVE  Accounts'
  <2>1. UNCHANGED <<db, writer, pending>>
    BY <1>5, ReadersLeaveImages
  <2>2. QED
    BY <2>1, <1>1
<1>6. CASE UNCHANGED vars
  BY <1>1, <1>6 DEF vars, lockVars
<1>7. QED
  BY <1>2, <1>3, <1>4, <1>5, <1>6 DEF Next

(* A redemption is written under an id that no image has, and only its     *)
(* own connection can commit it.                                           *)
LEMMA NextUnredeemed ==
    ASSUME IInv, Unredeemed, [Next]_vars
    PROVE  Unredeemed'
<1> SUFFICES ASSUME NEW v \in Workers, At(v, "written", "redeem")'
             PROVE  db'.redemptions[job'[v].id] = None
  BY DEF Unredeemed, At
<1>0. TypeOK /\ JobsOK /\ FreshIds
  BY DEF IInv
<1>1. ASSUME NEW w \in Workers, Redeem(w), v = w PROVE db'.redemptions[job'[v].id] = None
  <2>1. Drawn(w) /\ job[w] \in Job
    BY <1>0, <1>1, PresentJob DEF Redeem, At, Drawn
  <2>2. db' = db /\ job'[w] = [job[w] EXCEPT !.pc = "written"]
    BY <1>0, <1>1 DEF Redeem, Write, Goto, TypeOK
  <2>3. job'[w].id = job[w].id
    BY <2>1, <2>2 DEF Job
  <2>4. QED
    BY <1>0, <1>1, <2>1, <2>2, <2>3 DEF FreshIds, Unused
<1>2. CASE job'[v] = job[v] /\ db' = db
  BY <1>2 DEF Unredeemed, At
<1>3. ASSUME NEW w \in Workers, Commit(w) PROVE db'.redemptions[job'[v].id] = None
  <2>1. v # w /\ job'[v] = job[v] /\ At(v, "written", "redeem")
    BY <1>0, <1>3 DEF Commit, TypeOK, At
  <2>2. db.redemptions[job[v].id] = None /\ View(v).redemptions[job[v].id] # None
    BY <1>0, <2>1 DEF Unredeemed, JobsOK, JobOK, At
  <2>3. writer = v
    BY <2>2 DEF View
  <2>4. db' = db
    BY <1>3, <2>1, <2>3 DEF Commit, EndTransaction
  <2>5. QED
    BY <2>1, <2>2, <2>4
<1>4. ASSUME NEW w \in Workers, ~Commit(w), ~(Redeem(w) /\ v = w),
             \/ \E r \in Requests : Begin(w, r)
             \/ RefuseUnread(w) \/ LookUpKey(w)
             \/ RefuseSpentNonce(w) \/ IssueTooLate(w) \/ Issue(w)
             \/ RedeemRead(w) \/ RecordReplay(w) \/ SecondRedemption(w) \/ Redeem(w)
             \/ RevokeRead(w) \/ Revoke(w) \/ Status(w)
             \/ Locked(w) \/ CommitLocked(w) \/ Crash(w)
      PROVE  job'[v] = job[v] /\ db' = db
  <2>1. db' = db
    BY <1>4 DEF Begin, RefuseUnread, LookUpKey, RefuseSpentNonce, IssueTooLate, Issue,
       RedeemRead, RecordReplay, SecondRedemption, Redeem, RevokeRead, Revoke, Status,
       Locked, CommitLocked, Crash, Select, Write
  <2>2. CASE v # w
    <3>1. /\ job \in [Workers -> Job \cup {None}]
          /\ \E x : job' = [job EXCEPT ![w] = x]
      <4>1. CASE \E r \in Requests : Begin(w, r)
        BY <1>0, <4>1 DEF Begin, TypeOK
      <4>2. CASE LookUpKey(w)
        <5>1. PICK hit : \/ job' = [job EXCEPT ![w].pc = "written", ![w].id = hit]
                         \/ job' = [job EXCEPT ![w].pc = "looked"]
          BY <4>2 DEF LookUpKey
        <5>2. \/ job' = [job EXCEPT ![w] = [job[w] EXCEPT !.pc = "written", !.id = hit]]
              \/ job' = [job EXCEPT ![w] = [job[w] EXCEPT !.pc = "looked"]]
          BY <1>0, <5>1 DEF TypeOK
        <5>3. QED
          BY <1>0, <5>2 DEF TypeOK
      <4>3. CASE Crash(w)
        BY <1>0, <4>3 DEF Crash, TypeOK
      <4>4. CASE Raise(w)
        BY <1>0, <4>4 DEF Raise, TypeOK
      <4>5. CASE \E pc \in {"looked", "replay", "written"} : Goto(w, pc)
        <5>1. PICK pc : job' = [job EXCEPT ![w].pc = pc]
          BY <4>5 DEF Goto
        <5>2. job' = [job EXCEPT ![w] = [job[w] EXCEPT !.pc = pc]]
          BY <5>1
        <5>3. QED
          BY <1>0, <5>2 DEF TypeOK
      <4>6. QED
        BY <1>4, <4>1, <4>2, <4>3, <4>4, <4>5 DEF RefuseUnread, RefuseSpentNonce,
           IssueTooLate, Issue, RedeemRead, RecordReplay, SecondRedemption, Redeem,
           RevokeRead, Revoke, Status, Locked, CommitLocked
    <3>2. QED
      BY <2>1, <2>2, <3>1
  <2>3. CASE v = w
    <3>1. /\ job'[w] # None /\ job'[w].pc = "written" /\ job'[w].req.op = "redeem"
      BY <2>3 DEF At
    <3>2. ~Raise(w) /\ ~Crash(w)
      BY <1>0, <3>1 DEF Raise, Crash, TypeOK
    <3>3. ~\E r \in Requests : Begin(w, r)
      BY <1>0, <3>1 DEF Begin, TypeOK
    <3>4. ~LookUpKey(w)
      <4> SUFFICES ASSUME LookUpKey(w) PROVE FALSE
        OBVIOUS
      <4>1. job[w] \in Job /\ job[w].req.op = "issue"
        BY <1>0, PresentJob DEF LookUpKey, At
      <4>2. job'[w].req = job[w].req
        <5>1. PICK hit : \/ job' = [job EXCEPT ![w].pc = "written", ![w].id = hit]
                         \/ job' = [job EXCEPT ![w].pc = "looked"]
          BY DEF LookUpKey
        <5>2. \/ job' = [job EXCEPT ![w] = [job[w] EXCEPT !.pc = "written", !.id = hit]]
              \/ job' = [job EXCEPT ![w] = [job[w] EXCEPT !.pc = "looked"]]
          BY <1>0, <5>1 DEF TypeOK
        <5>3. \/ job'[w] = [job[w] EXCEPT !.pc = "written", !.id = hit]
              \/ job'[w] = [job[w] EXCEPT !.pc = "looked"]
          BY <1>0, <5>2 DEF TypeOK
        <5>4. QED
          BY <4>1, <5>3 DEF Job
      <4>3. QED
        BY <3>1, <4>1, <4>2
    <3>5. ASSUME NEW pc \in {"looked", "replay"}, Goto(w, pc), job[w] # None PROVE FALSE
      <4>1. job[w] \in Job
        BY <1>0, <3>5, PresentJob
      <4>2. job'[w] = [job[w] EXCEPT !.pc = pc]
        BY <1>0, <3>5 DEF Goto, TypeOK
      <4>3. job'[w].pc = pc
        BY <4>1, <4>2 DEF Job
      <4>4. QED
        BY <3>1, <4>3
    <3>6. ASSUME Goto(w, "written"), job[w] # None, job[w].req.op # "redeem" PROVE FALSE
      <4>1. job[w] \in Job
        BY <1>0, <3>6, PresentJob
      <4>2. job'[w] = [job[w] EXCEPT !.pc = "written"]
        BY <1>0, <3>6 DEF Goto, TypeOK
      <4>3. job'[w].req = job[w].req
        BY <4>1, <4>2 DEF Job
      <4>4. QED
        BY <3>1, <3>6, <4>3
    <3>7. QED
      BY <1>4, <2>3, <3>2, <3>3, <3>4, <3>5, <3>6 DEF RefuseUnread, RefuseSpentNonce,
         IssueTooLate, Issue, RedeemRead, RecordReplay, SecondRedemption, Redeem, RevokeRead,
         Revoke, Status, Locked, CommitLocked, At
  <2>4. QED
    BY <2>1, <2>2, <2>3
<1>5. CASE UNCHANGED vars
  BY <1>2, <1>5 DEF vars
<1>6. QED
  BY <1>1, <1>2, <1>3, <1>4, <1>5 DEF Next

(* The mapping of the credentials' rows to the statuses of the desk.       *)
LEMMA StatusFacts ==
    TypeOK => /\ Statuses \in [Ids -> {"issued", "redeemed", "revoked", None}]
              /\ \A c \in Ids : Statuses[c] # None <=> c \in Credentials(db)
              /\ \A c \in Credentials(db) : Statuses[c] = db.credentials[c].status
<1> SUFFICES ASSUME TypeOK
             PROVE  /\ Statuses \in [Ids -> {"issued", "redeemed", "revoked", None}]
                    /\ \A c \in Ids : Statuses[c] # None <=> c \in Credentials(db)
                    /\ \A c \in Credentials(db) : Statuses[c] = db.credentials[c].status
  OBVIOUS
<1>1. \A c \in Ids : db.credentials[c] # None =>
          db.credentials[c].status \in {"issued", "redeemed", "revoked"}
  BY DEF TypeOK, Database, VotingCredential
<1>2. QED
  BY <1>1, NoneAssumption DEF Statuses, Credentials

LEMMA StatusFactsPrimed ==
    TypeOK' => /\ Statuses' \in [Ids -> {"issued", "redeemed", "revoked", None}]
               /\ \A c \in Ids : Statuses'[c] # None <=> c \in Credentials(db')
               /\ \A c \in Credentials(db') : Statuses'[c] = db'.credentials[c].status
<1> SUFFICES ASSUME TypeOK'
             PROVE  /\ Statuses' \in [Ids -> {"issued", "redeemed", "revoked", None}]
                    /\ \A c \in Ids : Statuses'[c] # None <=> c \in Credentials(db')
                    /\ \A c \in Credentials(db') : Statuses'[c] = db'.credentials[c].status
  OBVIOUS
<1>1. \A c \in Ids : db'.credentials[c] # None =>
          db'.credentials[c].status \in {"issued", "redeemed", "revoked"}
  BY DEF TypeOK, Database, VotingCredential
<1>2. Statuses' = [c \in Ids |-> IF db'.credentials[c] = None THEN None
                                                            ELSE db'.credentials[c].status]
  BY DEF Statuses
<1>3. QED
  BY <1>1, <1>2, NoneAssumption DEF Credentials

LEMMA DeskKnown ==
    ASSUME TypeOK
    PROVE  Desk!Known = Credentials(db)
BY StatusFacts DEF Desk!Known, Credentials

(* A batch pays for its credentials.                                       *)
LEMMA BatchCharges ==
    ASSUME TypeOK, TypeOK', Accountable(db, db')
    PROVE  Desk!Charge(Credentials(db') \ Credentials(db))
<1>1. db.spent \subseteq db'.spent /\ db'.spent \subseteq Nonces
  BY DEF Accountable, TypeOK, Database
<1>2. db'.spent \ db.spent \in SUBSET (Nonces \ db.spent)
  BY <1>1
<1>3. db'.spent = db.spent \cup (db'.spent \ db.spent)
  BY <1>1
<1>4. \E paid \in [Credentials(db') \ Credentials(db) -> db'.spent \ db.spent] : Desk!OneToOne(paid)
  BY DEF Accountable
<1>5. QED
  BY <1>2, <1>3, <1>4 DEF Desk!Charge

(* ... answers keys with them, no two alike ...                            *)
LEMMA BatchAnswers ==
    ASSUME TypeOK, TypeOK', Accountable(db, db'), Rationed(db')
    PROVE  Desk!Answer(Credentials(db') \ Credentials(db))
<1>1. PICK i : i = db.idempotency
  OBVIOUS
<1>2. PICK j : j = db'.idempotency
  OBVIOUS
<1> DEFINE asked == {k \in Keys : j[k] # i[k]}
           reply == [k \in asked |-> j[k]]
           new == Credentials(db') \ Credentials(db)
<1>3. i \in [Keys -> Ids \cup {None}] /\ j \in [Keys -> Ids \cup {None}]
  BY <1>1, <1>2 DEF TypeOK, Database
<1>4. \A k \in asked : j[k] \in new
  BY <1>1, <1>2 DEF Accountable
<1>5. None \notin new
  BY VotingCredentialAssumption DEF Credentials, Ids
<1>6. reply \in [asked -> new]
  BY <1>4
<1>7. \A k, l \in Keys : k # l /\ j[k] # None => j[l] # j[k]
  BY <1>2 DEF Rationed
<1>8. Desk!OneToOne(reply)
  BY <1>4, <1>5, <1>7 DEF Desk!OneToOne
<1>9. j = Desk!Over(reply, i)
  BY <1>3 DEF Desk!Over
<1>10. asked \in SUBSET Keys
  OBVIOUS
<1> HIDE DEF reply, asked, new
<1>11. Desk!Answer(new)
  BY <1>1, <1>2, <1>6, <1>8, <1>9, <1>10 DEF Desk!Answer
<1>12. QED
  BY <1>11 DEF new

(* ... gives capabilities for credentials that had none ...                *)
LEMMA BatchRedeems ==
    ASSUME TypeOK, TypeOK', Sound(db, requests), Sound(db', requests'), Grows(db, db', Ids)
    PROVE  Desk!Redeem(Credentials(db') \ Credentials(db))
<1>1. PICK i : i = db.redemptions
  OBVIOUS
<1>2. PICK j : j = db'.redemptions
  OBVIOUS
<1> DEFINE given == {r \in Ids : i[r] = None /\ j[r] # None}
           for == [r \in given |-> j[r]]
           new == Credentials(db') \ Credentials(db)
           free == {c \in Credentials(db) \cup new : ~\E r \in Ids : i[r] = c}
<1>3. i \in [Ids -> Ids \cup {None}] /\ j \in [Ids -> Ids \cup {None}]
  BY <1>1, <1>2 DEF TypeOK, Database
<1>4. \A r \in Ids : i[r] # None => j[r] = i[r]
  BY <1>1, <1>2 DEF Grows
<1>5. \A r \in Ids : j[r] # None => /\ db'.credentials[j[r]] # None
                                    /\ \A s \in Ids : j[s] = j[r] => s = r
  BY <1>2 DEF Sound
<1>6. \A r \in given : j[r] \in free
  <2> SUFFICES ASSUME NEW r \in given PROVE j[r] \in free
    OBVIOUS
  <2>1. j[r] \in Ids /\ j[r] \in Credentials(db')
    BY <1>3, <1>5 DEF Credentials
  <2>2. \A s \in Ids : i[s] # j[r]
    BY <1>3, <1>4, <1>5, <2>1, VotingCredentialAssumption DEF Ids
  <2>3. QED
    BY <2>1, <2>2
<1>7. for \in [given -> free]
  BY <1>6
<1>8. Desk!OneToOne(for)
  BY <1>5 DEF Desk!OneToOne
<1>9. j = Desk!Over(for, i)
  BY <1>3, <1>4 DEF Desk!Over
<1>10. given \in SUBSET {r \in Ids : i[r] = None}
  OBVIOUS
<1>11. free = {c \in Desk!Known \cup new : ~Desk!Used(c)}
  BY <1>1, DeskKnown DEF Desk!Used
<1> HIDE DEF for, given, new, free
<1>12. Desk!Redeem(new)
  BY <1>1, <1>2, <1>7, <1>8, <1>9, <1>10, <1>11 DEF Desk!Redeem
<1>13. QED
  BY <1>12 DEF new

(* ... and marks them.                                                     *)
LEMMA BatchMarks ==
    ASSUME TypeOK, TypeOK', Accountable(db, db'), Sound(db', requests')
    PROVE  Desk!Mark(Credentials(db') \ Credentials(db))
<1> DEFINE new == Credentials(db') \ Credentials(db)
<1>1. /\ Statuses' \in [Ids -> {"issued", "redeemed", "revoked", None}]
      /\ \A c \in Ids : Statuses'[c] # None <=> c \in Credentials(db')
      /\ \A c \in Credentials(db') : Statuses'[c] = db'.credentials[c].status
  BY StatusFactsPrimed
<1>2. /\ \A c \in Ids : Statuses[c] # None <=> c \in Credentials(db)
      /\ \A c \in Credentials(db) : Statuses[c] = db.credentials[c].status
  BY StatusFacts
<1>3. Credentials(db) \subseteq Credentials(db')
  BY DEF Accountable
<1> SUFFICES ASSUME NEW c \in Ids
             PROVE  /\ Statuses'[c] # None <=> c \in Desk!Known \cup new
                    /\ c \in Desk!Known /\ Statuses[c] # "issued" => Statuses'[c] # "issued"
                    /\ Statuses'[c] = "issued" => ~(\E r \in Ids : db'.redemptions[r] = c)
                    /\ Statuses'[c] = "redeemed" => \E r \in Ids : db'.redemptions[r] = c
  BY <1>1 DEF Desk!Mark, Desk!Used
<1>4. Desk!Known = Credentials(db)
  BY DeskKnown
<1>5. Statuses'[c] # None <=> c \in Desk!Known \cup new
  BY <1>1, <1>3, <1>4
<1>6. c \in Desk!Known /\ Statuses[c] # "issued" => Statuses'[c] # "issued"
  BY <1>1, <1>2, <1>3, <1>4 DEF Accountable
<1>7. Statuses'[c] \in {"issued", "redeemed"} =>
          c \in Credentials(db') /\ Statuses'[c] = db'.credentials[c].status
  BY <1>1, NoneAssumption
<1>8. Statuses'[c] = "issued" => ~(\E r \in Ids : db'.redemptions[r] = c)
  BY <1>7 DEF Sound, Redemption, Credentials
<1>9. Statuses'[c] = "redeemed" => \E r \in Ids : db'.redemptions[r] = c
  BY <1>7 DEF Sound, Redemption, Credentials
<1>10. QED
  BY <1>5, <1>6, <1>8, <1>9

(* A commit is one step of the desk.                                       *)
LEMMA CommitSettles ==
    ASSUME IInv, AllRationed, Accounts, Unredeemed, NEW w \in Workers, Commit(w), IInv', AllRationed'
    PROVE  Desk!Settle
<1>1. db' = View(w)
  BY DEF Commit, EndTransaction, View
<1>2. Accountable(db, db')
  BY <1>1, AccountableView
<1>3. /\ TypeOK /\ TypeOK' /\ Sound(db, requests) /\ Sound(db', requests')
      /\ Grows(db, db', Ids)
  <2>1. Grows(db, View(w), Ids) /\ Sound(View(w), requests) /\ Sound(db, requests)
    BY SoundView DEF IInv, Images
  <2>2. requests' = requests
    BY DEF Commit, boundVars
  <2>3. QED
    BY <1>1, <2>1, <2>2 DEF IInv
<1>4. Rationed(db')
  BY <1>1, RationedView
<1> DEFINE new == Credentials(db') \ Credentials(db)
<1>5. Desk!Charge(new) /\ Desk!Answer(new) /\ Desk!Redeem(new) /\ Desk!Mark(new)
  BY <1>2, <1>3, <1>4, BatchCharges, BatchAnswers, BatchRedeems, BatchMarks
<1>6. new \in SUBSET (Ids \ Desk!Known)
  BY <1>3, DeskKnown DEF Credentials
<1>7. Desk!HandOut
  <2>1. job[w] # None /\ JobOK(w) /\ job[w].id \in Ids /\ job[w].pc = "written"
    BY <1>3, PresentJob DEF IInv, JobsOK, Commit
  <2>2. CASE job[w].req.op = "issue"
    <3>1. db'.credentials[job[w].id] # None
      BY <1>1, <2>1, <2>2 DEF JobOK
    <3>2. Statuses'[job[w].id] # None
      BY <1>3, <2>1, <3>1, StatusFactsPrimed DEF Credentials
    <3>3. answered' = answered \cup {<<"issue", job[w].id>>}
      BY <2>2 DEF Commit
    <3>4. QED
      BY <2>1, <3>2, <3>3 DEF Desk!HandOut
  <2>3. CASE job[w].req.op = "redeem"
    <3>1. db'.redemptions[job[w].id] # None /\ db.redemptions[job[w].id] = None
      BY <1>1, <2>1, <2>3 DEF JobOK, Unredeemed, At
    <3>2. answered' = answered \cup {<<"redeem", job[w].id>>}
      BY <2>3 DEF Commit
    <3>3. QED
      BY <2>1, <3>1, <3>2 DEF Desk!HandOut
  <2>4. CASE job[w].req.op \notin {"issue", "redeem"}
    BY <2>4 DEF Commit, Desk!HandOut
  <2>5. QED
    BY <2>2, <2>3, <2>4
<1> HIDE DEF new
<1>8. QED
  BY <1>5, <1>6, <1>7 DEF Desk!Settle

(* Every other step leaves the disk and the clients alone.                 *)
LEMMA OthersStutter ==
    ASSUME [Next]_vars, \A w \in Workers : ~Commit(w)
    PROVE  UNCHANGED <<db, answered>>
<1>1. CASE UNCHANGED vars
  BY <1>1 DEF vars
<1>2. ASSUME NEW w \in Workers,
             \/ \E r \in Requests : Begin(w, r)
             \/ RefuseUnread(w) \/ LookUpKey(w) \/ RedeemRead(w) \/ RevokeRead(w)
             \/ Status(w) \/ Locked(w) \/ CommitLocked(w) \/ Crash(w)
      PROVE  UNCHANGED <<db, answered>>
  BY <1>2 DEF Begin, RefuseUnread, LookUpKey, RedeemRead, RevokeRead, Status, Locked,
     CommitLocked, Crash, Select, Raise, Goto
<1>3. ASSUME NEW w \in Workers,
             \/ RefuseSpentNonce(w) \/ IssueTooLate(w) \/ Issue(w)
             \/ RecordReplay(w) \/ SecondRedemption(w) \/ Redeem(w) \/ Revoke(w)
      PROVE  UNCHANGED <<db, answered>>
  BY <1>3 DEF RefuseSpentNonce, IssueTooLate, Issue, RecordReplay, SecondRedemption, Redeem,
     Revoke, Write, Raise, Goto
<1>4. QED
  BY <1>1, <1>2, <1>3 DEF Next

LEMMA StepSettles ==
    ASSUME IInv, AllRationed, Accounts, Unredeemed, [Next]_vars, IInv', AllRationed'
    PROVE  [Desk!Settle]_Desk!deskVars
<1>1. CASE \E w \in Workers : Commit(w)
  BY <1>1, CommitSettles
<1>2. CASE \A w \in Workers : ~Commit(w)
  <2>1. UNCHANGED <<db, answered>>
    BY <1>2, OthersStutter
  <2>2. UNCHANGED Desk!deskVars
    BY <2>1 DEF Desk!deskVars, Statuses
  <2>3. QED
    BY <2>2
<1>3. QED
  BY <1>1, <1>2

LEMMA InitDesk == Init => Accounts /\ Unredeemed /\ Desk!DeskInit
<1> SUFFICES ASSUME Init PROVE Accounts /\ Unredeemed /\ Desk!DeskInit
  OBVIOUS
<1>1. Accounts /\ Unredeemed
  BY DEF Init, Accounts, Unredeemed, At
<1>2. /\ db.spent = {} /\ db.idempotency = [k \in Keys |-> None]
      /\ db.redemptions = [r \in Ids |-> None] /\ db.credentials = [c \in Ids |-> None]
      /\ answered = {}
  BY DEF Init, Empty
<1>3. Statuses = [c \in Ids |-> None]
  BY <1>2 DEF Statuses
<1>4. QED
  BY <1>1, <1>2, <1>3 DEF Desk!DeskInit

(* KeepsThePromise: the issuer, with its workers, its locks, its crashes   *)
(* and the writes that refused requests leave pending, implements the desk *)
(* that settles a batch of requests in one step.                           *)
THEOREM ImplementsTheDesk == Spec => KeepsThePromise
<1>1. IInv /\ Accounts /\ Unredeemed /\ [Next]_vars => Accounts' /\ Unredeemed'
  BY NextAccounts, NextUnredeemed
<1>2. IInv /\ IInv' /\ AllRationed /\ AllRationed' /\ Accounts /\ Unredeemed /\ [Next]_vars
        => [Desk!Settle]_Desk!deskVars
  BY StepSettles
<1>3. Spec => []AllRationed
  BY InitRationed, NextRationed, Invariant, PTL DEF Spec
<1>4. Spec => [](Accounts /\ Unredeemed)
  BY <1>1, InitDesk, Invariant, PTL DEF Spec
<1>5. QED
  BY <1>2, <1>3, <1>4, InitDesk, Invariant, PTL DEF Spec, KeepsThePromise, Desk!DeskSpec
=============================================================================
