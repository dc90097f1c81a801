----------------------------- MODULE LinkStore -----------------------------
(***************************************************************************)
(* The MySQL tables users and urls as the repositories and the services    *)
(* of this program change them.                                            *)
(*                                                                         *)
(* A row of urls is identified by its UUID and never updated, apart from   *)
(* its click counter (module ClickTracker).  So the module keeps, under    *)
(* each id, the row that was inserted and the time at which it was         *)
(* deleted; the table itself is the set of ids that satisfy Stored.        *)
(***************************************************************************)
EXTENDS Naturals

CONSTANTS
  Codes,        \* short codes the generator can draw
  Ids,          \* UUIDs of rows of urls
  Users,        \* UUIDs of the registered users
  Expiries,     \* expires_at values the clients ask for (Never: none)
  Never,        \* no expiry, not deleted
  None,         \* no row under this id
  MaxTime       \* bound: the clock stops here

Time == Nat
Link == [code : Codes, owner : Users, expires : Time \cup {Never},
         created : Time]

ASSUME StoreAssumption == /\ Never \notin Nat
                          /\ None \notin Ids
                          /\ None \notin Link
                          /\ Expiries \subseteq Nat \cup {Never}
                          /\ MaxTime \in Nat

VARIABLES
  now,          \* the wall clock, shared by the processes and the stores
  accounts,     \* rows of users
  link,         \* link[id]: the row of urls inserted with this id, or None
  deletedAt     \* deletedAt[id]: when that row was deleted, or Never

storeVars == <<now, accounts, link, deletedAt>>

StoreTypeOK ==
  /\ now \in Time
  /\ accounts \subseteq Users
  /\ link \in [Ids -> Link \cup {None}]
  /\ deletedAt \in [Ids -> Time \cup {Never}]

StoreInit ==
  /\ now = 0
  /\ accounts = Users
  /\ link = [i \in Ids |-> None]
  /\ deletedAt = [i \in Ids |-> Never]

Stored(i) == link[i] # None /\ deletedAt[i] = Never

(* The row FindByShortCode(c) returns is a member; no member: ErrNotFound. *)
RowsOf(c) == {i \in Ids : Stored(i) /\ link[i].code = c}

(* The expiry check of GetByShortCode, made at time t: strictly after.     *)
ExpiredAt(i, t) == link[i].expires # Never /\ t > link[i].expires

----------------------------------------------------------------------------
(* An insert into a table without the foreign key.                         *)
CreateUnreferenced(i, c, u, e) ==
  /\ link[i] = None
  /\ RowsOf(c) = {}
  /\ link' = [link EXCEPT ![i] = [code |-> c, owner |-> u, expires |-> e,
                                  created |-> now]]
  /\ UNCHANGED <<now, accounts, deletedAt>>

(* URLRepository.Create on a fresh UUID.  The unique index on short_code   *)
(* and the foreign key to users refuse the row otherwise; a refusal        *)
(* changes nothing.                                                        *)
Create(i, c, u, e) ==
  /\ link[i] = None
  /\ RowsOf(c) = {}
  /\ u \in accounts
  /\ link' = [link EXCEPT ![i] = [code |-> c, owner |-> u, expires |-> e,
                                  created |-> now]]
  /\ UNCHANGED <<now, accounts, deletedAt>>

(* ShortenURL: at most five draws of a code; a draw that collides leaves   *)
(* the store alone, the first one that does not inserts the row.  The      *)
(* expiry is the client's: nothing refuses one that has already passed.    *)
ShortenURL(u, e) == \E i \in Ids, c \in Codes : Create(i, c, u, e)

(* AdminService.DeleteLink -> URLRepository.Delete: the row goes, and      *)
(* nothing else is touched; an id that is not stored is not an error.      *)
DeleteLink(i) ==
  /\ Stored(i)
  /\ deletedAt' = [deletedAt EXCEPT ![i] = now]
  /\ UNCHANGED <<now, accounts, link>>

(* AdminService.DeleteUser: the links and the user, in one transaction.    *)
DeleteUser(u) ==
  /\ u \in accounts
  /\ accounts' = accounts \ {u}
  /\ deletedAt' = [i \in Ids |-> IF Stored(i) /\ link[i].owner = u
                                 THEN now ELSE deletedAt[i]]
  /\ UNCHANGED <<now, link>>

Tick ==
  /\ now < MaxTime
  /\ now' = now + 1
  /\ UNCHANGED <<accounts, link, deletedAt>>

----------------------------------------------------------------------------
(* The handlers: what a client may ask for.  A token names its user, also  *)
(* after the user is gone; ids are whatever the path says.                 *)
Shorten    == \E u \in Users, e \in Expiries : ShortenURL(u, e)
RemoveLink == \E i \in Ids : DeleteLink(i)
RemoveUser == \E u \in Users : DeleteUser(u)

StoreNext == Shorten \/ RemoveLink \/ RemoveUser \/ Tick

StoreSpec == StoreInit /\ [][StoreNext]_storeVars

----------------------------------------------------------------------------
(* A stored link belongs to a registered user.  A token outlives its user, *)
(* so the deletion of a user races with requests that still create links   *)
(* in that user's name; it must leave none behind.                         *)
NoOrphanLinks == \A i \in Ids : Stored(i) => link[i].owner \in accounts
============================================================================
