------------------------------ MODULE Accounts ------------------------------
(* The tables users and urls at the grain of SQL statements, and who changes *)
(* accounts: signups, which check an email and then insert, and the deletion *)
(* of a user, two statements in one transaction (internal/service            *)
(* auth_service.go, admin_service.go). Links are written by LinkWriters.     *)
EXTENDS Naturals, Sequences, FiniteSets

CONSTANTS
    Users,     \* the UUIDs of users, each drawn once
    Emails,
    Signups,   \* requests to sign up
    Links,     \* the UUIDs of links, each drawn once
    None

ASSUME NoneAssumption == None \notin Users \cup Emails \cup Links

VARIABLES
    account,    \* account[u]: the email of user u once inserted
    accounts,   \* the users in the table
    row,        \* row[l]: link l once inserted, without an owner before
    stored,     \* the links in the table
    signup,     \* signup[s]: a request to sign up
    deletion    \* the transaction of AdminService.DeleteUser

accountVars == <<account, accounts, signup, deletion>>

AccountsInit ==
    /\ account = [u \in Users |-> None]
    /\ accounts = {}
    /\ row = [l \in Links |-> [owner |-> None]]
    /\ stored = {}
    /\ signup = [s \in Signups |-> [pc |-> "idle", email |-> None, user |-> None]]
    /\ deletion = [pc |-> "idle", user |-> None, links |-> {}]

Unused(l) == row[l].owner = None

EmailTaken(e) == \E u \in accounts : account[u] = e

LinksOf(u) == {l \in stored : row[l].owner = u}

-----------------------------------------------------------------------------
(* Signup. *)

Answer(s, status) == signup' = [signup EXCEPT ![s].pc = status]

\* FindByEmail; an address in use is refused, a failed query answered 500.
CheckEmail(s, e) ==
    /\ signup[s].pc = "idle"
    /\ signup' = [signup EXCEPT ![s].email = e,
                                ![s].pc = IF EmailTaken(e) THEN "400" ELSE "insert"]
    /\ UNCHANGED <<account, accounts, row, stored, deletion>>

CheckFails(s) ==
    /\ signup[s].pc = "idle"
    /\ Answer(s, "500")
    /\ UNCHANGED <<account, accounts, row, stored, deletion>>

AddAccount(u, e) ==
    /\ account[u] = None
    /\ account' = [account EXCEPT ![u] = e]
    /\ accounts' = accounts \cup {u}

\* Bug: the index idx_users_email is not unique.
InsertAccountUnindexed(s) ==
    /\ signup[s].pc = "insert"
    /\ \E u \in Users :
          /\ AddAccount(u, signup[s].email)
          /\ signup' = [signup EXCEPT ![s].pc = "201", ![s].user = u]
    /\ UNCHANGED <<row, stored, deletion>>

\* The insert after the hash, under the unique index idx_users_email.
InsertAccount(s) ==
    /\ signup[s].pc = "insert"
    /\ ~EmailTaken(signup[s].email)
    /\ \E u \in Users :
          /\ AddAccount(u, signup[s].email)
          /\ signup' = [signup EXCEPT ![s].pc = "201", ![s].user = u]
    /\ UNCHANGED <<row, stored, deletion>>

\* The insert fails, on the index or otherwise: every error is answered 500.
\* An insert whose answer is lost may have been carried out.
InsertAccountFails(s) ==
    /\ signup[s].pc = "insert"
    /\ Answer(s, "500")
    /\ \/ UNCHANGED <<account, accounts>>
       \/ /\ ~EmailTaken(signup[s].email)
          /\ \E u \in Users : AddAccount(u, signup[s].email)
    /\ UNCHANGED <<row, stored, deletion>>

-----------------------------------------------------------------------------
(* DeleteUser. *)

\* The locks of the transaction: an insert that needs the row of the user to
\* be there waits once that row is deleted.
Locked(u) == deletion.pc = "commit" /\ deletion.user = u

\* The id of a user that somebody has seen, deleted since or not.
BeginDelete(u) ==
    /\ deletion.pc \in {"idle", "200", "500"}
    /\ account[u] # None
    /\ deletion' = [pc |-> "links", user |-> u, links |-> {}]
    /\ UNCHANGED <<account, accounts, row, stored, signup>>

\* Bug: the links are deleted outside of the transaction.
DeleteLinksDetached ==
    /\ deletion.pc = "links"
    /\ deletion' = [deletion EXCEPT !.pc = "user"]
    /\ stored' = stored \ LinksOf(deletion.user)
    /\ UNCHANGED <<account, accounts, row, signup>>

\* DELETE FROM urls WHERE user_id = ?, visible to nobody before the commit.
DeleteLinks ==
    /\ deletion.pc = "links"
    /\ deletion' = [deletion EXCEPT !.pc = "user", !.links = LinksOf(deletion.user)]
    /\ UNCHANGED <<account, accounts, row, stored, signup>>

\* Bug: the foreign key does not cascade to links inserted meanwhile.
DeleteAccountAlone ==
    /\ deletion.pc = "user"
    /\ deletion' = [deletion EXCEPT !.pc = "commit"]
    /\ UNCHANGED <<account, accounts, row, stored, signup>>

\* DELETE FROM users WHERE id = ?, which takes the links inserted since along.
DeleteAccount ==
    /\ deletion.pc = "user"
    /\ deletion' = [deletion EXCEPT !.pc = "commit", !.links = LinksOf(deletion.user)]
    /\ UNCHANGED <<account, accounts, row, stored, signup>>

TakeEffect ==
    /\ accounts' = accounts \ {deletion.user}
    /\ stored' = stored \ deletion.links

CommitDelete ==
    /\ deletion.pc = "commit"
    /\ TakeEffect
    /\ deletion' = [deletion EXCEPT !.pc = "200"]
    /\ UNCHANGED <<account, row, signup>>

\* Bug: the error is dropped, as AdminHandler.DeleteLink drops its own.
DeleteFailsSilently ==
    /\ deletion.pc \in {"links", "user", "commit"}
    /\ deletion' = [deletion EXCEPT !.pc = "200"]
    /\ \/ UNCHANGED <<accounts, stored>>
       \/ deletion.pc = "commit" /\ TakeEffect
    /\ UNCHANGED <<account, row, signup>>

\* A statement or the commit fails and all is rolled back; the answer to a
\* commit may also be lost.
DeleteFails ==
    /\ deletion.pc \in {"links", "user", "commit"}
    /\ deletion' = [deletion EXCEPT !.pc = "500"]
    /\ \/ UNCHANGED <<accounts, stored>>
       \/ deletion.pc = "commit" /\ TakeEffect
    /\ UNCHANGED <<account, row, signup>>

AccountStep ==
    \/ \E s \in Signups :
          \/ \E e \in Emails : CheckEmail(s, e)
          \/ CheckFails(s) \/ InsertAccount(s) \/ InsertAccountFails(s)
    \/ \E u \in Users : BeginDelete(u)
    \/ DeleteLinks \/ DeleteAccount \/ CommitDelete \/ DeleteFails

-----------------------------------------------------------------------------
(* Properties. *)

AccountsTypeOK ==
    /\ account \in [Users -> Emails \cup {None}]
    /\ accounts \subseteq {u \in Users : account[u] # None}
    /\ stored \subseteq {l \in Links : ~Unused(l)}
    /\ signup \in [Signups -> [pc : {"idle", "insert", "201", "400", "500"},
                               email : Emails \cup {None},
                               user : Users \cup {None}]]
    /\ deletion.pc \in {"idle", "links", "user", "commit", "200", "500"}
    /\ deletion.user \in Users \cup {None}
    /\ deletion.links \subseteq Links

\* Signups that race past the check of their email end up with one account:
\* a signup answered 201 has an account of its own under its email, for as
\* long as nobody deletes it (auth_service.go:52, :70).
SignupsAreTrue ==
    /\ \A u, v \in accounts : u # v => account[u] # account[v]
    /\ \A s \in Signups : signup[s].pc = "201" =>
          /\ signup[s].user \in Users
          /\ account[signup[s].user] = signup[s].email
          /\ \A t \in Signups \ {s} : signup[t].user # signup[s].user

\* A user goes with all of its links or keeps them all, at whatever statement
\* the deletion fails and whoever inserts links meanwhile, and is gone once
\* the deletion is answered 200 (admin_service.go:124).
DeletionIsWhole ==
    [][/\ \A u \in Users :
             (LinksOf(u) \ stored' # {} \/ u \in accounts \ accounts')
                 => /\ u \notin accounts'
                    /\ \A l \in stored' : row'[l].owner # u
       /\ deletion'.pc = "200" => deletion'.user \notin accounts'
      ]_<<accounts, stored, row, deletion>>

=============================================================================
