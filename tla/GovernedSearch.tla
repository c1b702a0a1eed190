--------------------------- MODULE GovernedSearch ---------------------------
(***************************************************************************)
(* Authorization-aware search of the privileged access service             *)
(* (application.py, submit_search_query to evidence_index_removal, over    *)
(* search.py): an index of pointers, a policy of what it admits, the       *)
(* source's own authorization behind a port, a cache of decisions and an   *)
(* audit trail that knows a row by its id and compares its content.        *)
(***************************************************************************)
EXTENDS Integers, FiniteSets

CONSTANTS
    Records,        \* record references
    Readers,        \* requesters
    NoReader,       \* nobody asked
    Queries,        \* event ids of search commands
    PolicyVersions, \* the texts an index policy may be labelled with
    MaxInstants     \* bound: instants the clock shows

ASSUME GovernedSearchAssumption == NoReader \notin Readers /\ MaxInstants \in Nat \ {0}

VARIABLES
    indexed,    \* records in the index
    openable,   \* [Readers -> records the source lets it open now]
    wasOpen,    \* [Readers -> records it could open at some time]
    policy,     \* the index policy: its version and what it admits
    admittedBy, \* [version -> records a policy of that version ever admitted]
    cache,      \* [reader and version -> the decision cached, or Miss]
    firstRow,   \* [Queries -> instant its first audit row carries, or 0]
    audited,    \* queries with a stored query audit
    finished,   \* queries with a command record
    answer,     \* what the last step handed to a reader, if it did
    delivered,  \* [Queries -> times its results were handed out]
    instant     \* the clock

sourceVars == <<indexed, openable, wasOpen, policy, admittedBy>>
queryVars == <<cache, firstRow, audited, finished, answer, delivered>>
searchVars == <<sourceVars, queryVars, instant>>

Miss == {"miss"}
NoAnswer == [reader |-> NoReader, results |-> {}]
Keys == Readers \X PolicyVersions

SearchInit ==
    /\ indexed = Records
    /\ openable \in [Readers -> SUBSET Records] /\ wasOpen = openable
    /\ policy \in [version : PolicyVersions, admits : SUBSET Records]
    /\ admittedBy = [v \in PolicyVersions |-> IF v = policy.version THEN policy.admits ELSE {}]
    /\ cache = [key \in Keys |-> Miss]
    /\ firstRow = [q \in Queries |-> 0] /\ audited = {}
    /\ finished = {} /\ answer = NoAnswer
    /\ delivered = [q \in Queries |-> 0]
    /\ instant = 1

-----------------------------------------------------------------------------
(* submit_search_query *)

(* Mutant of CacheKey: an entry outlives the policy version.               *)
CacheKeyUnversioned(r) == <<r, CHOOSE v \in PolicyVersions : TRUE>>

(* The fingerprint.  Mode, purpose, organization and query are the same    *)
(* for all here, and authorization_version is 1 in every call.             *)
CacheKey(r) == <<r, policy.version>>

(* execute_query: what the index offers, the policy admits and the source  *)
(* lets the requester open.                                                *)
Decided(r) == indexed \cap policy.admits \cap openable[r]

Decision(r) == IF cache[CacheKey(r)] = Miss THEN Decided(r) ELSE cache[CacheKey(r)]

(* The decision is cached and the query audit stored before any row.       *)
Evaluate(q, r) ==
    /\ q \notin finished
    /\ cache' = [cache EXCEPT ![CacheKey(r)] = Decision(r)]
    /\ audited' = audited \cup {q}
    /\ UNCHANGED <<sourceVars, instant>>

(* append_audit_event takes a row that is there already for the same one   *)
(* only if its instant is the same too.                                    *)
RowMatches(q) == firstRow[q] \in {0, instant}

AnswerQuery(q, r) ==
    /\ Evaluate(q, r)
    /\ RowMatches(q)
    /\ firstRow' = [firstRow EXCEPT ![q] = instant]
    /\ finished' = finished \cup {q}
    /\ answer' = [reader |-> r, results |-> Decision(r)]
    /\ delivered' = [delivered EXCEPT ![q] = @ + 1]

(* A store or the sink raises after the first row.                         *)
StopAfterRow(q, r) ==
    /\ Evaluate(q, r)
    /\ RowMatches(q)
    /\ firstRow' = [firstRow EXCEPT ![q] = instant]
    /\ answer' = NoAnswer
    /\ UNCHANGED <<finished, delivered>>

(* AuditEventConflictError: this query can never finish any more.          *)
RowConflicts(q, r) ==
    /\ Evaluate(q, r)
    /\ ~RowMatches(q)
    /\ answer' = NoAnswer
    /\ UNCHANGED <<firstRow, finished, delivered>>

(* assert_query_admissible refuses, and the refusal is audited.            *)
DenyQuery(q) ==
    /\ q \notin finished
    /\ RowMatches(q)
    /\ firstRow' = [firstRow EXCEPT ![q] = instant]
    /\ answer' = NoAnswer
    /\ UNCHANGED <<sourceVars, cache, audited, finished, delivered, instant>>

(* Mutant of ReplayQuery: the cached decision is handed out again.         *)
ReplayQueryInFull(q, r) ==
    /\ q \in finished
    /\ answer' = [reader |-> r, results |-> Decision(r)]
    /\ delivered' = [delivered EXCEPT ![q] = @ + 1]
    /\ UNCHANGED <<sourceVars, cache, firstRow, audited, finished, instant>>

(* The replay is rebuilt from the query audit, which holds no results.     *)
ReplayQuery(q, r) ==
    /\ q \in finished
    /\ answer' = [reader |-> r, results |-> {}]
    /\ UNCHANGED <<sourceVars, cache, firstRow, audited, finished, delivered, instant>>

-----------------------------------------------------------------------------
(* The index, its policy, and the source *)

Unanswered == answer' = NoAnswer /\ UNCHANGED <<cache, firstRow, audited, finished, delivered>>

(* change_index_policy: nothing compares the new policy's version with the *)
(* one it replaces.                                                        *)
ChangePolicy(v, admits) ==
    /\ policy' = [version |-> v, admits |-> admits]
    /\ admittedBy' = [admittedBy EXCEPT ![v] = @ \cup admits]
    /\ Unanswered
    /\ UNCHANGED <<indexed, openable, wasOpen, instant>>

(* evidence_index_removal.                                                 *)
RemoveFromIndex(record) ==
    /\ indexed' = indexed \ {record}
    /\ Unanswered
    /\ UNCHANGED <<openable, wasOpen, policy, admittedBy, instant>>

(* The source grants or withdraws, or a record stops being retrievable.    *)
SourceDecides(r, records) ==
    /\ openable' = [openable EXCEPT ![r] = records]
    /\ wasOpen' = [wasOpen EXCEPT ![r] = @ \cup records]
    /\ Unanswered
    /\ UNCHANGED <<indexed, policy, admittedBy, instant>>

SearchTick ==
    /\ instant < MaxInstants
    /\ instant' = instant + 1
    /\ Unanswered
    /\ UNCHANGED sourceVars

SearchNext ==
    \/ SearchTick
    \/ \E q \in Queries :
          \/ DenyQuery(q)
          \/ \E r \in Readers :
                AnswerQuery(q, r) \/ StopAfterRow(q, r) \/ RowConflicts(q, r) \/ ReplayQuery(q, r)
    \/ \E record \in Records : RemoveFromIndex(record)
    \/ \E records \in SUBSET Records :
          \/ \E v \in PolicyVersions : ChangePolicy(v, records)
          \/ \E r \in Readers : SourceDecides(r, records)

SearchSpec == SearchInit /\ [][SearchNext]_searchVars

-----------------------------------------------------------------------------
(* Properties *)

SearchTypeOK ==
    /\ indexed \subseteq Records
    /\ openable \in [Readers -> SUBSET Records] /\ wasOpen \in [Readers -> SUBSET Records]
    /\ policy \in [version : PolicyVersions, admits : SUBSET Records]
    /\ admittedBy \in [PolicyVersions -> SUBSET Records]
    /\ cache \in [Keys -> (SUBSET Records) \cup {Miss}]
    /\ firstRow \in [Queries -> 0 .. MaxInstants]
    /\ audited \subseteq Queries
    /\ delivered \in [Queries -> Nat]
    /\ finished \subseteq Queries
    /\ answer \in [reader : Readers \cup {NoReader}, results : SUBSET Records]
    /\ instant \in 1 .. MaxInstants

(* A cached decision never crosses from one requester to another, nor from *)
(* one policy version to another: what a reader is shown, the source let   *)
(* this reader open at some time, and a policy of the version in force     *)
(* admitted it (P12-SRCH-009).                                             *)
AnswersStayInContext ==
    answer # NoAnswer =>
        answer.results \subseteq wasOpen[answer.reader] \cap admittedBy[policy.version]

(* Results leave at most once for each query, and not before its audit is  *)
(* stored, its rows are appended and its record written, however often the *)
(* caller retries and wherever a run stops.                                *)
DeliveriesAreAudited ==
    \A q \in Queries :
        /\ delivered[q] <= 1
        /\ delivered[q] = 1 => q \in finished /\ firstRow[q] # 0 /\ q \in audited

(* What leaves a search is due to its reader and is accounted for, once.   *)
AnswersAreDueAndAudited == AnswersStayInContext /\ DeliveriesAreAudited
=============================================================================
