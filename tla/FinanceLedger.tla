--------------------------- MODULE FinanceLedger ---------------------------
(***************************************************************************)
(* The accounting register of the finance service (application.py, create_ *)
(* finance_account to correct_journal_entry, over ledger.py and the stores *)
(* of storage.py): chart of accounts, posting periods with their dual-     *)
(* controlled reopening, and journal entries that are posted, reversed and *)
(* corrected but never edited.  One scope; a refused command changes       *)
(* nothing unless its action says so, and a replay never does.             *)
(***************************************************************************)
EXTENDS Integers

CONSTANTS
    Accounts,     \* account ids
    Periods,      \* accounting period ids
    Intervals,    \* stretches of the calendar; two overlap when they are equal
    JournalIds,   \* journal entry ids
    Authorities,  \* resolved finance authorities
    ActorOf,      \* [Authorities -> who holds it], their actor_reference
    NoLink,       \* no entry is linked
    MaxCommands,  \* bound: commands carried out, each under its own event_id
    MaxNumber     \* bound: posting numbers handed out per period

ASSUME LedgerAssumption ==
    /\ NoLink \notin JournalIds
    /\ MaxCommands \in Nat /\ MaxNumber \in Nat

VARIABLES
    accounts,   \* [Accounts -> FinanceAccount.status, or "none"]
    periods,    \* [Periods -> AccountingPeriod, or NoPeriod]
    reopeningRecords,  \* the PeriodReopeningRecords handed to callers
    journal,    \* [JournalIds -> JournalEntry, or NoEntry]
    numbers,    \* InMemoryJournalEntryStore._sequences
    commands    \* commands recorded in the idempotency store

ledgerVars == <<accounts, periods, reopeningRecords, journal, numbers, commands>>

NoPeriod == [status |-> "none"]
NoEntry == [status |-> "none"]

(* A balanced posting: one unit from the account credited to the debited.  *)
Lines == {l \in [debit : Accounts, credit : Accounts] : l.debit # l.credit}
Opposite(l) == [debit |-> l.credit, credit |-> l.debit]

(* What a closed period's state_digest depends on besides its identity.    *)
Digest(p) == [interval |-> periods[p].interval, reopenings |-> periods[p].reopenings]

LedgerInit ==
    /\ accounts = [a \in Accounts |-> "none"]
    /\ periods = [p \in Periods |-> NoPeriod]
    /\ reopeningRecords = {}
    /\ journal = [e \in JournalIds |-> NoEntry]
    /\ numbers = [p \in Periods |-> 0]
    /\ commands = 0

(* _guard lets a command through under an event_id not recorded yet, and   *)
(* _finish records it.                                                     *)
Carry == commands < MaxCommands /\ commands' = commands + 1

-----------------------------------------------------------------------------
(* Chart of accounts *)

CreateAccount(a) ==
    /\ Carry
    /\ accounts' = [accounts EXCEPT ![a] = "draft"]
    /\ UNCHANGED <<periods, reopeningRecords, journal, numbers>>

AccountTransitions ==
    {<<"draft", "active">>, <<"active", "restricted">>, <<"restricted", "active">>,
     <<"active", "closed">>, <<"restricted", "closed">>}

ChangeAccountStatus(a, target) ==
    /\ Carry
    /\ <<accounts[a], target>> \in AccountTransitions
    /\ accounts' = [accounts EXCEPT ![a] = target]
    /\ UNCHANGED <<periods, reopeningRecords, journal, numbers>>

-----------------------------------------------------------------------------
(* Accounting periods *)

(* Only an overlap is refused: a period under a known id is replaced.      *)
OpenPeriod(p, interval) ==
    /\ Carry
    /\ \A q \in Periods : periods[q] # NoPeriod => periods[q].interval # interval
    /\ periods' = [periods EXCEPT ![p] =
                     [status |-> "open", interval |-> interval, reopenings |-> 0]]
    /\ UNCHANGED <<accounts, reopeningRecords, journal, numbers>>

(* Mutant of PostableStatuses: the lock lets an ordinary posting through.  *)
PostableWhenClosed == {"open", "reopened", "closed"}

PostableStatuses == {"open", "reopened"}

ClosePeriod(p) ==
    /\ Carry
    /\ periods[p].status \in {"open", "reopened"}
    /\ periods' = [periods EXCEPT ![p].status = "closed"]
    /\ UNCHANGED <<accounts, reopeningRecords, journal, numbers>>

(* assert_reopening_dual_control *)
DualControl(requester, approver) ==
    requester # approver /\ ActorOf[requester] # ActorOf[approver]

(* request_period_reopening: the record is returned, never stored.         *)
RequestReopening(p, requester, approver) ==
    /\ Carry
    /\ periods[p].status = "closed"
    /\ DualControl(requester, approver)
    /\ reopeningRecords' = reopeningRecords \cup
          {[period |-> p, requester |-> requester, approver |-> approver,
            digest |-> Digest(p)]}
    /\ UNCHANGED <<accounts, periods, journal, numbers>>

(* reopen_accounting_period by the authority acting.                       *)
ReopenPeriod(record, actor) ==
    LET p == record.period
    IN  /\ Carry
        /\ periods[p].status = "closed"
        /\ record.approver = actor
        /\ record.digest = Digest(p)
        /\ DualControl(record.requester, record.approver)
        /\ periods' = [periods EXCEPT ![p].status = "reopened",
                                      ![p].reopenings = @ + 1]
        /\ UNCHANGED <<accounts, reopeningRecords, journal, numbers>>

-----------------------------------------------------------------------------
(* The journal *)

(* InMemoryJournalEntryStore.save refuses to replace these by another.     *)
Immutable(e) == journal[e].status \in {"posted", "reversed"}

Draft(p, lines, reverses, corrects) ==
    [status |-> "draft", period |-> p, lines |-> lines, number |-> 0,
     reverses |-> reverses, corrects |-> corrects]

DraftEntry(e, p, lines) ==
    /\ Carry
    /\ periods[p] # NoPeriod
    /\ ~Immutable(e)
    /\ journal' = [journal EXCEPT ![e] = Draft(p, lines, NoLink, NoLink)]
    /\ UNCHANGED <<accounts, periods, reopeningRecords, numbers>>

(* post_journal_entry *)
Numbered(e) ==
    /\ journal[e] # NoEntry
    /\ periods[journal[e].period].status \in PostableStatuses
    /\ numbers[journal[e].period] < MaxNumber
    /\ numbers' = [numbers EXCEPT ![journal[e].period] = @ + 1]

PostEntry(e) ==
    /\ Carry
    /\ Numbered(e)
    /\ journal[e].status = "draft"
    /\ journal' = [journal EXCEPT ![e].status = "posted",
                                  ![e].number = numbers'[journal[e].period]]
    /\ UNCHANGED <<accounts, periods, reopeningRecords>>

(* ledger.post refuses what is no draft, after the number was allocated.   *)
PostAgainRefused(e) ==
    /\ commands < MaxCommands
    /\ Numbered(e)
    /\ Immutable(e)
    /\ UNCHANGED <<accounts, periods, reopeningRecords, journal, commands>>

(* Mutant of IsTarget: what was reversed can be reversed again.            *)
IsTargetTwice(e) == journal[e].status \in {"posted", "reversed"}

(* assert_correction_target *)
IsTarget(e) == journal[e].status = "posted"

Reversal(e) == Draft(journal[e].period, Opposite(journal[e].lines), e, NoLink)

(* reverse_journal_entry saves the original as reversed, then the reversal *)
(* under the id the caller gave.                                           *)
ReverseEntry(e, r) ==
    /\ Carry
    /\ e # r /\ IsTarget(e) /\ ~Immutable(r)
    /\ journal' = [journal EXCEPT ![e].status = "reversed", ![r] = Reversal(e)]
    /\ UNCHANGED <<accounts, periods, reopeningRecords, numbers>>

(* ... whose second save is refused where the id is taken.                 *)
ReverseHalf(e, r) ==
    /\ commands < MaxCommands
    /\ e # r /\ IsTarget(e) /\ Immutable(r)
    /\ journal' = [journal EXCEPT ![e].status = "reversed"]
    /\ UNCHANGED <<accounts, periods, reopeningRecords, numbers, commands>>

CorrectEntry(e, r, p, lines) ==
    /\ Carry
    /\ e # r /\ IsTarget(e) /\ ~Immutable(r)
    /\ p = journal[e].period \/ periods[p] # NoPeriod
    /\ journal' = [journal EXCEPT ![r] = Draft(p, lines, NoLink, e)]
    /\ UNCHANGED <<accounts, periods, reopeningRecords, numbers>>

LedgerNext ==
    \/ \E a \in Accounts : CreateAccount(a)
                           \/ \E target \in {"active", "restricted", "closed"} :
                                 ChangeAccountStatus(a, target)
    \/ \E p \in Periods : ClosePeriod(p) \/ \E i \in Intervals : OpenPeriod(p, i)
    \/ \E p \in Periods, x, y \in Authorities : RequestReopening(p, x, y)
    \/ \E record \in reopeningRecords, actor \in Authorities : ReopenPeriod(record, actor)
    \/ \E e \in JournalIds, p \in Periods, lines \in Lines : DraftEntry(e, p, lines)
    \/ \E e \in JournalIds : PostEntry(e) \/ PostAgainRefused(e)
    \/ \E e, r \in JournalIds :
          \/ ReverseEntry(e, r) \/ ReverseHalf(e, r)
          \/ \E p \in Periods, lines \in Lines : CorrectEntry(e, r, p, lines)

LedgerSpec == LedgerInit /\ [][LedgerNext]_ledgerVars

-----------------------------------------------------------------------------
(* Properties *)

PeriodRecord ==
    [status : {"open", "closed", "reopened"}, interval : Intervals, reopenings : Nat]

JournalEntry ==
    [status : {"draft", "posted", "reversed"}, period : Periods, lines : Lines,
     number : 0 .. MaxNumber, reverses : JournalIds \cup {NoLink},
     corrects : JournalIds \cup {NoLink}]

(* Types of accounts, periods and journal; a draft carries no number.      *)
LedgerTypeOK ==
    /\ accounts \in [Accounts -> {"none", "draft", "active", "restricted", "closed"}]
    /\ \A p \in Periods : periods[p] # NoPeriod => periods[p] \in PeriodRecord
    /\ \A e \in JournalIds : journal[e] # NoEntry =>
          journal[e] \in JournalEntry /\ (journal[e].number = 0 <=> ~Immutable(e))
    /\ numbers \in [Periods -> 0 .. MaxNumber] /\ commands \in 0 .. MaxCommands

Reversals == {r \in JournalIds : journal[r] # NoEntry /\ journal[r].reverses # NoLink}

(* No two entries reverse the same one.                                     *)
ReversedAtMostOnce ==
    \A r, s \in Reversals : journal[r].reverses = journal[s].reverses => r = s

(* A reversal, whichever drafts stood under its id and whatever was posted *)
(* since, is the opposite of an original that is marked reversed, in the   *)
(* period that one was posted in.                                          *)
ReversalsAreOpposite ==
    \A r \in Reversals :
        LET e == journal[r].reverses
        IN  /\ journal[e].status = "reversed"
            /\ journal[r].lines = Opposite(journal[e].lines)
            /\ journal[r].period = journal[e].period

Effective(p) == {e \in JournalIds : Immutable(e) /\ journal[e].period = p}

(* What has been posted keeps its content and its number for ever, and the *)
(* set of postings of a period that stays closed stays what it was: no     *)
(* draft made before it closed, no reversal and no correction gets in; and *)
(* nothing is ever reversed twice, or by anything but its opposite.        *)
BooksStand ==
    /\ [](ReversedAtMostOnce /\ ReversalsAreOpposite)
    /\ [][/\ \A e \in JournalIds : Immutable(e) =>
                journal'[e] \in {journal[e], [journal[e] EXCEPT !.status = "reversed"]}
          /\ \A p \in Periods : periods[p].status = "closed" /\ periods'[p].status = "closed" =>
                Effective(p)' = Effective(p)]_ledgerVars
=============================================================================
