------------------------- MODULE AuthorityDirectory -------------------------
(***************************************************************************)
(* The control plane's directory of authority grants (AuthorityDirectory   *)
(* in regional_operations.py): which actor may do what, under a version    *)
(* that every change raises, so that whoever relied on a grant can tell    *)
(* that it has not been touched since.  One scope, in which actor,         *)
(* capability and class name one grant.                                    *)
(***************************************************************************)
EXTENDS Naturals
LOCAL INSTANCE FiniteSetsExt

CONSTANTS
    AuthorityGrants,    \* records [actor, does, class]
    MaxChanges          \* bound on the changes of all grants together

VARIABLE authority      \* [AuthorityGrants -> [version, usable]]

DirectoryInit == authority = [g \in AuthorityGrants |-> [version |-> 1, usable |-> TRUE]]

(* usable_at, for the grant that require finds.                             *)
Holds(g, capability) == g.does = capability /\ authority[g].usable

(* Mutant of Untouched: a suspension that was lifted in between goes        *)
(* unnoticed.                                                               *)
UntouchedOrLifted(g, version) == authority[g].usable

(* require with an expected_version.                                        *)
Untouched(g, version) == authority[g].usable /\ authority[g].version = version

(* How often grants have been changed so far.                               *)
Changes == MapThenSumSet(LAMBDA g : authority[g].version - 1, AuthorityGrants)

(* update: suspended, revoked, expired, or any of these lifted again.       *)
AuthorityChanges(g) ==
    /\ Changes < MaxChanges
    /\ \E usable \in BOOLEAN :
          authority' = [authority EXCEPT ![g] = [version |-> @.version + 1, usable |-> usable]]

(* The type of the directory.                                               *)
DirectoryTypeOK ==
    authority \in [AuthorityGrants -> [version : Nat \ {0}, usable : BOOLEAN]]
=============================================================================
