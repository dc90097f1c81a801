------------------------- MODULE LinkWriters_proofs -------------------------
(* Proofs about LinkWriters and the Accounts under it, for any number of      *)
(* users, signups, links and writers: signups that race end up true, a user   *)
(* goes with all of its links or keeps them all, a request to shorten stores  *)
(* at most one link, under a canonical URL, an import reports what it did,    *)
(* and all of it implements LinkStore.                                        *)
EXTENDS LinkWriters, FiniteSetTheorems, FunctionTheorems,
        SequenceTheorems, TLAPS

(* A table that holds only rows written.                                      *)
TableInv ==
    /\ account \in [Users -> Emails \cup {None}]
    /\ accounts \subseteq {u \in Users : account[u] # None}
    /\ DOMAIN row = Links
    /\ stored \subseteq {l \in Links : ~Unused(l)}

(* A signup knows no user before it has one, and has an email to insert.      *)
SignupInv ==
    /\ signup \in [Signups -> [pc : {"idle", "insert", "201", "400", "500"},
                               email : Emails \cup {None},
                               user : Users \cup {None}]]
    /\ \A s \in Signups :
        /\ signup[s].pc \in {"insert", "201"} => signup[s].email \in Emails
        /\ signup[s].pc # "201" => signup[s].user = None

(* A deletion about to commit holds the lock on its user, so that it takes    *)
(* all links of the user along; and a user deleted is not inserted again.     *)
DeletionInv ==
    /\ deletion \in [pc : {"idle", "links", "user", "commit", "200", "500"},
                     user : Users \cup {None}, links : SUBSET Links]
    /\ deletion.pc # "idle" => deletion.user \in Users /\ account[deletion.user] # None
    /\ deletion.pc = "commit" => deletion.links = LinksOf(deletion.user)
    /\ deletion.pc = "200" => deletion.user \notin accounts

Inv == TableInv /\ SignupInv /\ DeletionInv /\ SignupsAreTrue

LEMMA InitInv == Init => Inv
<1> SUFFICES ASSUME Init PROVE Inv
  OBVIOUS
<1>1. TableInv
  BY DEF Init, AccountsInit, TableInv
<1>2. SignupInv
  BY DEF Init, AccountsInit, SignupInv
<1>3. DeletionInv
  BY DEF Init, AccountsInit, DeletionInv
<1>4. SignupsAreTrue
  BY DEF Init, AccountsInit, SignupsAreTrue
<1> QED BY <1>1, <1>2, <1>3, <1>4 DEF Inv

----------------------------------------------------------------------------
(* What a step of a writer does to the tables: it inserts at most one link,   *)
(* of a user that is there and not locked, under a code that is free.         *)
NewLink(l, r) ==
    /\ Unused(l) /\ r.owner \in accounts /\ ~Locked(r.owner)
    /\ r.code \in Codes /\ ~CodeTaken(r.code)
    /\ row' = [row EXCEPT ![l] = r]
    /\ stored' = stored \cup {l}

LEMMA InsertedIsNewLink ==
  ASSUME NEW w, NEW c \in Codes, NEW url, Inserted(w, c, url)
  PROVE  \E l \in Links : \E r : NewLink(l, r)
<1>1. PICK l \in Links : /\ Unused(l)
                         /\ row' = [row EXCEPT ![l] = NewRow(w, c, url)]
                         /\ stored' = stored \cup {l}
  BY DEF Inserted
<1>2. NewRow(w, c, url).owner = writer[w].user /\ NewRow(w, c, url).code = c
  BY DEF NewRow
<1>3. writer[w].user \in accounts /\ ~Locked(writer[w].user) /\ ~CodeTaken(c)
  BY DEF Inserted
<1> QED BY <1>1, <1>2, <1>3 DEF NewLink

LEMMA FailedEffect ==
  ASSUME NEW w, NEW c \in Codes, NEW url, Failed(w, c, url)
  PROVE  UNCHANGED <<row, stored>> \/ \E l \in Links : \E r : NewLink(l, r)
BY InsertedIsNewLink DEF Failed

LEMMA WriterEffect ==
  ASSUME NEW w \in Writers, WriterStep(w)
  PROVE  UNCHANGED <<row, stored>> \/ \E l \in Links : \E r : NewLink(l, r)
<1>1. CASE \E u \in Users : \/ \E url \in RawURLs : BeginShorten(w, u, url)
                            \/ \E file \in Files : BeginImport(w, u, file)
                            \/ ImportRefused(w, u)
  BY <1>1 DEF BeginShorten, BeginImport, ImportRefused
<1>2. ASSUME NEW c \in Codes, Created(w, c) \/ Collided(w, c) \/ CreateFails(w, c)
      PROVE  UNCHANGED <<row, stored>> \/ \E l \in Links : \E r : NewLink(l, r)
  BY <1>2, InsertedIsNewLink, FailedEffect DEF Created, Collided, CreateFails
<1>3. ASSUME NEW c \in Codes, CreateRow(w, c) \/ CreateRowFails(w, c)
      PROVE  UNCHANGED <<row, stored>> \/ \E l \in Links : \E r : NewLink(l, r)
  BY <1>3, InsertedIsNewLink, FailedEffect DEF CreateRow, CreateRowFails
<1>4. CASE SkipRow(w) \/ ReadRow(w) \/ UnreadableRow(w) \/ EndOfFile(w)
  BY <1>4 DEF SkipRow, ReadRow, UnreadableRow, EndOfFile
<1> QED BY <1>1, <1>2, <1>3, <1>4 DEF WriterStep

LEMMA WriterKeeps ==
  ASSUME Inv, NEW w \in Writers, WriterStep(w), UNCHANGED accountVars
  PROVE  Inv' /\ stored \subseteq stored'
<1>1. UNCHANGED <<account, accounts, signup, deletion>>
  BY DEF accountVars
<1>2. TableInv /\ SignupInv /\ DeletionInv /\ SignupsAreTrue
  BY DEF Inv
<1>3. SignupInv' /\ SignupsAreTrue'
  BY <1>1, <1>2 DEF SignupInv, SignupsAreTrue
<1>4. CASE UNCHANGED <<row, stored>>
  BY <1>1, <1>2, <1>3, <1>4 DEF Inv, TableInv, Unused, DeletionInv, LinksOf
<1>5. ASSUME NEW l \in Links, NEW r, NewLink(l, r) PROVE Inv' /\ stored \subseteq stored'
  <2>1. l \notin stored /\ stored \subseteq Links
    BY <1>2, <1>5 DEF TableInv, NewLink
  <2>2. row'[l] = r /\ \A m \in Links \ {l} : row'[m] = row[m]
    BY <1>2, <1>5 DEF TableInv, NewLink
  <2>3. r.owner # None
    BY <1>2, <1>5, NoneAssumption DEF TableInv, NewLink
  <2>4. TableInv'
    <3>1. DOMAIN row' = Links /\ stored' = stored \cup {l}
      BY <1>2, <1>5 DEF TableInv, NewLink
    <3>2. \A m \in stored' : m \in Links /\ row'[m].owner # None
      BY <1>2, <2>1, <2>2, <2>3, <3>1 DEF TableInv, Unused
    <3> QED BY <1>1, <1>2, <3>1, <3>2 DEF TableInv, Unused
  <2>5. deletion.pc = "commit" => {m \in stored' : row'[m].owner = deletion.user}
                                   = LinksOf(deletion.user)
    BY <2>1, <2>2, <1>5 DEF NewLink, Locked, LinksOf
  <2>6. DeletionInv'
    BY <1>1, <1>2, <2>5 DEF DeletionInv, LinksOf
  <2> QED BY <1>3, <1>5, <2>4, <2>6 DEF Inv, NewLink
<1> QED BY <1>4, <1>5, WriterEffect

----------------------------------------------------------------------------
(* The steps of Accounts, which leave the rows of links alone.                *)
LEMMA SignupWaits ==
  ASSUME Inv, NEW s \in Signups,
         (\E e \in Emails : CheckEmail(s, e)) \/ CheckFails(s)
  PROVE  Inv' /\ UNCHANGED <<accounts, stored>>
<1>1. UNCHANGED <<account, accounts, row, stored, deletion>>
  BY DEF CheckEmail, CheckFails
<1>2. TableInv /\ SignupInv /\ DeletionInv /\ SignupsAreTrue
  BY DEF Inv
<1>3. PICK e \in Emails \cup {None}, pc \in {"400", "insert", "500"} :
         /\ signup' = [signup EXCEPT ![s].email = e, ![s].pc = pc]
         /\ pc = "insert" => e \in Emails
  <2>1. CASE \E e \in Emails : CheckEmail(s, e)
    BY <2>1 DEF CheckEmail
  <2>2. CASE CheckFails(s)
    <3>1. signup' = [signup EXCEPT ![s].pc = "500"] /\ signup[s].email \in Emails \cup {None}
      BY <1>2, <2>2 DEF SignupInv, CheckFails, Answer
    <3>2. signup' = [signup EXCEPT ![s].email = signup[s].email, ![s].pc = "500"]
      BY <1>2, <3>1 DEF SignupInv
    <3> QED BY <3>1, <3>2
  <2> QED BY <2>1, <2>2
<1>4. signup[s].pc = "idle"
  BY DEF CheckEmail, CheckFails
<1>5. /\ SignupInv'
      /\ \A t \in Signups : /\ signup'[t].user = signup[t].user
                            /\ signup'[t].pc = "201" => signup'[t] = signup[t]
  BY <1>2, <1>3, <1>4 DEF SignupInv
<1>6. SignupsAreTrue'
  BY <1>1, <1>2, <1>5 DEF SignupsAreTrue
<1>7. TableInv' /\ DeletionInv'
  BY <1>1, <1>2 DEF TableInv, Unused, DeletionInv, LinksOf
<1> QED BY <1>1, <1>5, <1>6, <1>7 DEF Inv

(* A new account, under an email nobody has.                                  *)
LEMMA NewAccount ==
  ASSUME Inv, NEW u \in Users, NEW e \in Emails, AddAccount(u, e), ~EmailTaken(e),
         UNCHANGED <<row, stored, deletion>>
  PROVE  /\ TableInv' /\ DeletionInv'
         /\ accounts \subseteq accounts'
         /\ account'[u] = e
         /\ \A v \in Users : account[v] # None => v # u /\ account'[v] = account[v]
         /\ \A v, x \in accounts' : v # x => account'[v] # account'[x]
<1>1. TableInv /\ DeletionInv /\ SignupsAreTrue
  BY DEF Inv
<1>2. e # None
  BY NoneAssumption
<1>3. /\ account' = [account EXCEPT ![u] = e]
      /\ accounts' = accounts \cup {u}
      /\ account[u] = None
  BY DEF AddAccount
<1>4. /\ account'[u] = e
      /\ \A v \in Users : account[v] # None => v # u /\ account'[v] = account[v]
  BY <1>1, <1>3 DEF TableInv
<1>5. TableInv'
  BY <1>1, <1>2, <1>3, <1>4 DEF TableInv, Unused
<1>6. DeletionInv'
  BY <1>1, <1>3, <1>4 DEF DeletionInv, LinksOf
<1>7. \A v, x \in accounts' : v # x => account'[v] # account'[x]
  <2>1. \A v \in accounts : v \in Users /\ v # u /\ account'[v] = account[v] /\ account[v] # e
    BY <1>1, <1>4 DEF TableInv, EmailTaken
  <2> QED BY <1>1, <1>3, <1>4, <2>1 DEF SignupsAreTrue
<1> QED BY <1>3, <1>4, <1>5, <1>6, <1>7

LEMMA SignupInserts ==
  ASSUME Inv, NEW s \in Signups, InsertAccount(s) \/ InsertAccountFails(s)
  PROVE  Inv' /\ accounts \subseteq accounts' /\ UNCHANGED stored
<1> DEFINE e == signup[s].email
<1>1. TableInv /\ SignupInv /\ DeletionInv /\ SignupsAreTrue
  BY DEF Inv
<1>2. signup[s].pc = "insert" /\ e \in Emails /\ UNCHANGED <<row, stored, deletion>>
  BY <1>1 DEF InsertAccount, InsertAccountFails, SignupInv
<1>3. CASE InsertAccount(s)
  <2>1. PICK u \in Users :
           /\ AddAccount(u, e)
           /\ signup' = [signup EXCEPT ![s].pc = "201", ![s].user = u]
    BY <1>3 DEF InsertAccount
  <2>2. ~EmailTaken(e)
    BY <1>3 DEF InsertAccount
  <2>3. /\ TableInv' /\ DeletionInv'
        /\ accounts \subseteq accounts'
        /\ account'[u] = e
        /\ \A v \in Users : account[v] # None => v # u /\ account'[v] = account[v]
        /\ \A v, x \in accounts' : v # x => account'[v] # account'[x]
    BY <1>2, <2>1, <2>2, NewAccount
  <2>4. /\ signup'[s].pc = "201" /\ signup'[s].user = u /\ signup'[s].email = e
        /\ \A t \in Signups \ {s} : signup'[t] = signup[t]
    BY <1>1, <2>1 DEF SignupInv
  <2>5. SignupInv'
    BY <1>1, <1>2, <2>1, <2>4 DEF SignupInv
  <2>6. \A t \in Signups \ {s} : signup[t].pc = "201" =>
           signup[t].user \in Users /\ account[signup[t].user] # None
    BY <1>1, NoneAssumption DEF SignupInv, SignupsAreTrue
  <2>7. \A t \in Signups \ {s} : signup[t].user # u
    BY <1>1, <2>3, <2>6, NoneAssumption DEF SignupInv
  <2>8. \A t \in Signups : signup'[t].pc = "201" =>
          /\ signup'[t].user \in Users
          /\ account'[signup'[t].user] = signup'[t].email
          /\ \A x \in Signups \ {t} : signup'[x].user # signup'[t].user
    <3> SUFFICES ASSUME NEW t \in Signups, signup'[t].pc = "201"
                 PROVE  /\ signup'[t].user \in Users
                        /\ account'[signup'[t].user] = signup'[t].email
                        /\ \A x \in Signups \ {t} : signup'[x].user # signup'[t].user
      OBVIOUS
    <3>1. CASE t = s
      BY <3>1, <2>3, <2>4, <2>7
    <3>2. CASE t # s
      BY <3>2, <1>1, <2>3, <2>4, <2>6, <2>7 DEF SignupsAreTrue
    <3> QED BY <3>1, <3>2
  <2> QED BY <1>2, <2>3, <2>5, <2>8 DEF Inv, SignupsAreTrue
<1>4. CASE InsertAccountFails(s)
  <2>1. signup' = [signup EXCEPT ![s].pc = "500"]
    BY <1>4 DEF InsertAccountFails, Answer
  <2>2. SignupInv' /\ \A t \in Signups : signup'[t].user = signup[t].user
    BY <1>1, <1>2, <2>1 DEF SignupInv
  <2>3. \A t \in Signups : signup'[t].pc = "201" =>
           signup[t].pc = "201" /\ signup'[t].email = signup[t].email
    BY <1>1, <2>1 DEF SignupInv
  <2>4. \A t \in Signups : signup[t].pc = "201" =>
           signup[t].user \in Users /\ account[signup[t].user] # None
    BY <1>1, NoneAssumption DEF SignupInv, SignupsAreTrue
  <2>5. CASE UNCHANGED <<account, accounts>>
    <3>1. TableInv' /\ DeletionInv'
      BY <1>1, <1>2, <2>5 DEF TableInv, Unused, DeletionInv, LinksOf
    <3>2. SignupsAreTrue'
      BY <1>1, <2>2, <2>3, <2>5 DEF SignupsAreTrue
    <3> QED BY <1>2, <2>2, <2>5, <3>1, <3>2 DEF Inv
  <2>6. CASE ~EmailTaken(e) /\ \E u \in Users : AddAccount(u, e)
    <3>1. PICK u \in Users : AddAccount(u, e)
      BY <2>6
    <3>2. /\ TableInv' /\ DeletionInv'
          /\ accounts \subseteq accounts'
          /\ \A v \in Users : account[v] # None => v # u /\ account'[v] = account[v]
          /\ \A v, x \in accounts' : v # x => account'[v] # account'[x]
      BY <1>2, <2>6, <3>1, NewAccount
    <3>3. SignupsAreTrue'
      BY <1>1, <2>2, <2>3, <2>4, <3>2 DEF SignupsAreTrue
    <3> QED BY <1>2, <2>2, <3>2, <3>3 DEF Inv
  <2> QED BY <1>4, <2>5, <2>6 DEF InsertAccountFails
<1> QED BY <1>3, <1>4

----------------------------------------------------------------------------
(* A step of the transaction before its commit, or one rolled back.           *)
LEMMA DeletionWaits ==
  ASSUME Inv,
         \/ \E u \in Users : BeginDelete(u)
         \/ DeleteLinks
         \/ DeleteAccount
  PROVE  Inv' /\ UNCHANGED <<accounts, stored>>
<1>1. UNCHANGED <<account, accounts, row, stored, signup>>
  BY DEF BeginDelete, DeleteLinks, DeleteAccount
<1>2. TableInv /\ SignupInv /\ DeletionInv /\ SignupsAreTrue
  BY DEF Inv
<1>3. TableInv' /\ SignupInv' /\ SignupsAreTrue'
  BY <1>1, <1>2 DEF TableInv, Unused, SignupInv, SignupsAreTrue
<1>4. \A u : LinksOf(u) \in SUBSET Links
  BY <1>2 DEF LinksOf, TableInv
<1>5. DeletionInv'
  <2>1. CASE \E u \in Users : BeginDelete(u)
    BY <1>1, <1>2, <2>1 DEF BeginDelete, DeletionInv
  <2>2. CASE DeleteLinks
    BY <1>1, <1>2, <1>4, <2>2 DEF DeleteLinks, DeletionInv
  <2>3. CASE DeleteAccount
    <3>1. /\ deletion' = [deletion EXCEPT !.pc = "commit", !.links = LinksOf(deletion.user)]
          /\ deletion.pc = "user"
      BY <2>3 DEF DeleteAccount
    <3>2. deletion'.user = deletion.user /\ deletion'.links = LinksOf(deletion.user)
      BY <1>2, <3>1 DEF DeletionInv
    <3>3. deletion'.links = {l \in stored' : row'[l].owner = deletion'.user}
      BY <1>1, <3>2 DEF LinksOf
    <3> QED BY <1>1, <1>2, <1>4, <3>1, <3>2, <3>3 DEF DeletionInv, LinksOf
  <2> QED BY <2>1, <2>2, <2>3
<1> QED BY <1>1, <1>3, <1>5 DEF Inv

(* The effect of a commit: the user and all of its links, at once.            *)
LEMMA Commits ==
  ASSUME Inv, deletion.pc = "commit", TakeEffect, UNCHANGED <<account, row, signup>>
  PROVE  /\ TableInv' /\ SignupInv' /\ SignupsAreTrue'
         /\ deletion.user \notin accounts'
         /\ stored' = stored \ LinksOf(deletion.user)
         /\ accounts' = accounts \ {deletion.user}
BY DEF Inv, TakeEffect, TableInv, Unused, SignupInv, DeletionInv, SignupsAreTrue

LEMMA DeletionEnds ==
  ASSUME Inv, CommitDelete \/ DeleteFails
  PROVE  /\ Inv'
         /\ UNCHANGED row
         /\ \/ UNCHANGED <<accounts, stored>>
            \/ /\ deletion.user \in Users
               /\ stored' = stored \ LinksOf(deletion.user)
               /\ accounts' = accounts \ {deletion.user}
<1>1. TableInv /\ SignupInv /\ DeletionInv /\ SignupsAreTrue
  BY DEF Inv
<1>2. /\ UNCHANGED <<account, row, signup>>
      /\ deletion.pc \in {"links", "user", "commit"}
      /\ deletion' = [deletion EXCEPT !.pc = "200"] \/ deletion' = [deletion EXCEPT !.pc = "500"]
  BY DEF CommitDelete, DeleteFails
<1>3. deletion.user \in Users /\ account[deletion.user] # None
  BY <1>1, <1>2 DEF DeletionInv
<1>4. CASE deletion.pc = "commit" /\ TakeEffect
  <2>1. /\ TableInv' /\ SignupInv' /\ SignupsAreTrue'
        /\ deletion.user \notin accounts'
        /\ stored' = stored \ LinksOf(deletion.user)
        /\ accounts' = accounts \ {deletion.user}
    BY <1>2, <1>4, Commits
  <2>2. DeletionInv'
    BY <1>1, <1>2, <1>3, <2>1 DEF DeletionInv
  <2> QED BY <1>2, <1>3, <2>1, <2>2 DEF Inv
<1>5. CASE UNCHANGED <<accounts, stored>> /\ deletion' = [deletion EXCEPT !.pc = "500"]
  <2>1. TableInv' /\ SignupInv' /\ SignupsAreTrue'
    BY <1>1, <1>2, <1>5 DEF TableInv, Unused, SignupInv, SignupsAreTrue
  <2>2. DeletionInv'
    BY <1>1, <1>2, <1>3, <1>5 DEF DeletionInv
  <2> QED BY <1>2, <1>5, <2>1, <2>2 DEF Inv
<1> QED BY <1>4, <1>5 DEF CommitDelete, DeleteFails

----------------------------------------------------------------------------
(* A step of the whole.                                                       *)
WholeStep ==
    \A u \in Users :
        (LinksOf(u) \ stored' # {} \/ u \in accounts \ accounts')
            => /\ u \notin accounts'
               /\ \A l \in stored' : row'[l].owner # u

LEMMA NextKeeps ==
  ASSUME Inv, [Next]_vars
  PROVE  Inv' /\ WholeStep
<1>1. ASSUME Inv', accounts \subseteq accounts', stored \subseteq stored'
      PROVE  Inv' /\ WholeStep
  BY <1>1 DEF WholeStep, LinksOf
<1>2. CASE \E w \in Writers : WriterStep(w) /\ UNCHANGED accountVars
  BY <1>1, <1>2, WriterKeeps DEF accountVars
<1>3. CASE \E s \in Signups :
             \/ \E e \in Emails : CheckEmail(s, e)
             \/ CheckFails(s) \/ InsertAccount(s) \/ InsertAccountFails(s)
  BY <1>1, <1>3, SignupWaits, SignupInserts
<1>4. CASE (\E u \in Users : BeginDelete(u)) \/ DeleteLinks \/ DeleteAccount
  BY <1>1, <1>4, DeletionWaits
<1>5. CASE CommitDelete \/ DeleteFails
  <2>1. Inv' /\ UNCHANGED row
    BY <1>5, DeletionEnds
  <2>2. CASE UNCHANGED <<accounts, stored>>
    BY <1>1, <2>1, <2>2
  <2>3. CASE /\ deletion.user \in Users
             /\ stored' = stored \ LinksOf(deletion.user)
             /\ accounts' = accounts \ {deletion.user}
    BY <2>1, <2>3 DEF WholeStep, LinksOf
  <2> QED BY <1>5, <2>2, <2>3, DeletionEnds
<1>6. CASE UNCHANGED vars
  <2>1. Inv'
    BY <1>6 DEF vars, Inv, TableInv, Unused, SignupInv, DeletionInv, LinksOf, SignupsAreTrue
  <2> QED BY <1>1, <1>6, <2>1 DEF vars
<1> QED BY <1>2, <1>3, <1>4, <1>5, <1>6 DEF Next, AccountStep, Finished

LEMMA Invariance == Spec => []Inv
<1>1. Init => Inv
  BY InitInv
<1>2. Inv /\ [Next]_vars => Inv'
  BY NextKeeps
<1> QED BY <1>1, <1>2, PTL DEF Spec

(* However many signups race past the check of their email, each one answered *)
(* 201 has an account of its own under its email, and no two accounts share   *)
(* an email (auth_service.go:52, :70).                                        *)
THEOREM SignupsStayTrue == Spec => []SignupsAreTrue
<1>1. Inv => SignupsAreTrue
  BY DEF Inv
<1> QED BY <1>1, Invariance, PTL

(* Every step that takes a link or an account of a user away takes the        *)
(* account and all of the links, those that a writer inserted during the      *)
(* transaction included; and a deletion answered 200 has happened             *)
(* (admin_service.go:124).                                                    *)
THEOREM DeletionsAreWhole == Spec => DeletionIsWhole
<1>1. Inv /\ [Next]_vars =>
        [/\ \A u \in Users :
               (LinksOf(u) \ stored' # {} \/ u \in accounts \ accounts')
                   => /\ u \notin accounts'
                      /\ \A l \in stored' : row'[l].owner # u
         /\ deletion'.pc = "200" => deletion'.user \notin accounts'
        ]_<<accounts, stored, row, deletion>>
  BY NextKeeps DEF WholeStep, Inv, DeletionInv
<1> QED BY <1>1, Invariance, PTL DEF Spec, DeletionIsWhole

----------------------------------------------------------------------------
(* A request to shorten stores at most one link.                              *)
Fields == {"pc", "kind", "user", "url", "file", "read", "attempts", "code", "report"}

WriterType ==
    /\ DOMAIN writer = Writers
    /\ \A w \in Writers : DOMAIN writer[w] = Fields

(* How often a request has tried, by where it is.                             *)
TriesOf(w) ==
    /\ writer[w].pc \in {"idle", "draw", "rows", "create", "201", "400", "500", "no code"}
    /\ writer[w].attempts \in 0..MaxAttempts
    /\ writer[w].pc = "idle" => writer[w].attempts = 0
    /\ writer[w].pc = "draw" => writer[w].attempts < MaxAttempts

(* What a request has made, by where it is.                                   *)
OnceOf(w) ==
    /\ writer[w].pc = "idle" => Made(w) = {}
    /\ writer[w].pc = "draw" => writer[w].kind = "shorten"
    /\ writer[w].pc \in {"rows", "create"} => writer[w].kind = "import"
    /\ writer[w].kind = "shorten" =>
          /\ Made(w) = {} \/ \E l \in Links : Made(w) = {l}
          /\ writer[w].pc \in {"draw", "400", "no code"} => Made(w) = {}
          /\ writer[w].pc = "201" =>
                \E l \in Made(w) : /\ row[l].code = writer[w].code
                                   /\ row[l].owner = writer[w].user

OnceInv == WriterType /\ \A w \in Writers : TriesOf(w) /\ OnceOf(w)

LEMMA Attempts ==
  /\ 0 \in 0..MaxAttempts /\ 0 < MaxAttempts
  /\ \A n \in 0..MaxAttempts : n < MaxAttempts => n + 1 \in 0..MaxAttempts
BY AttemptsAssumption

LEMMA InitOnce == Init => OnceInv
<1> SUFFICES ASSUME Init PROVE OnceInv
  OBVIOUS
<1>1. writer = [w \in Writers |-> Idle]
  BY DEF Init
<1>2. DOMAIN Idle = Fields /\ Idle.pc = "idle" /\ Idle.attempts = 0
  BY DEF Idle, Fields
<1>3. \A w \in Writers : Made(w) = {}
  BY DEF Init, AccountsInit, Made, Unused
<1>4. \A w \in Writers : TriesOf(w)
  <2> SUFFICES ASSUME NEW w \in Writers PROVE TriesOf(w)
    OBVIOUS
  <2>1. writer[w].pc = "idle" /\ writer[w].attempts = 0
    BY <1>1, <1>2
  <2>2. writer[w].attempts \in 0..MaxAttempts
    BY <2>1, Attempts
  <2> QED BY <2>1, <2>2 DEF TriesOf
<1> QED BY <1>1, <1>2, <1>3, <1>4 DEF OnceInv, WriterType, OnceOf

(* A step of w changes the fields it names, of w alone.                       *)
LEMMA SetEffect ==
  ASSUME WriterType, NEW w \in Writers, NEW next, Set(w, next)
  PROVE  /\ WriterType'
         /\ \A v \in Writers \ {w} : writer'[v] = writer[v]
         /\ \A f \in Fields : writer'[w][f] = IF f \in DOMAIN next THEN next[f] ELSE writer[w][f]
<1>1. writer' = [writer EXCEPT ![w] = Updated(writer[w], next)]
  BY DEF Set
<1>2. DOMAIN Updated(writer[w], next) = Fields
  BY DEF Updated, WriterType
<1>3. \A f \in Fields : Updated(writer[w], next)[f]
                          = IF f \in DOMAIN next THEN next[f] ELSE writer[w][f]
  BY DEF Updated, WriterType
<1>4. writer'[w] = Updated(writer[w], next) /\ \A v \in Writers \ {w} : writer'[v] = writer[v]
  BY <1>1 DEF WriterType
<1>5. DOMAIN writer' = Writers
  BY <1>1 DEF WriterType
<1> QED BY <1>2, <1>3, <1>4, <1>5 DEF WriterType

(* An insert by w adds a link to what w has made, and changes no other.       *)
LEMMA InsertedMakes ==
  ASSUME TableInv, NEW w \in Writers, NEW c, NEW url, Inserted(w, c, url)
  PROVE  /\ \A m \in Links : ~Unused(m) => row'[m] = row[m]
         /\ \A v \in Writers \ {w} : Made(v)' = Made(v)
         /\ \E l \in Links : /\ Made(w)' = Made(w) \cup {l}
                             /\ row'[l].code = c /\ row'[l].owner = writer[w].user
                             /\ row'[l].line = writer[w].read /\ row'[l].url = url
<1>1. PICK l \in Links : Unused(l) /\ row' = [row EXCEPT ![l] = NewRow(w, c, url)]
  BY DEF Inserted
<1>2. /\ NewRow(w, c, url).owner = writer[w].user
      /\ NewRow(w, c, url).by = w
      /\ NewRow(w, c, url).code = c
      /\ NewRow(w, c, url).line = writer[w].read
      /\ NewRow(w, c, url).url = url
  BY DEF NewRow
<1>3. row'[l] = NewRow(w, c, url) /\ \A m \in Links \ {l} : row'[m] = row[m]
  BY <1>1 DEF TableInv
<1>4. writer[w].user # None
  BY NoneAssumption DEF Inserted, TableInv
<1>5. \A v : Made(v)' = {m \in Links : row'[m].owner # None /\ row'[m].by = v}
  BY DEF Made, Unused
<1>6. \A v : Made(v) = {m \in Links : row[m].owner # None /\ row[m].by = v}
  BY DEF Made, Unused
<1>7. \A v \in Writers \ {w} : Made(v)' = Made(v)
  BY <1>1, <1>2, <1>3, <1>5, <1>6 DEF Unused
<1>8. Made(w)' = Made(w) \cup {l}
  BY <1>1, <1>2, <1>3, <1>4, <1>5, <1>6 DEF Unused
<1> QED BY <1>1, <1>2, <1>3, <1>7, <1>8

LEMMA SameMade ==
  ASSUME UNCHANGED row
  PROVE  \A v \in Writers : Made(v)' = Made(v)
BY DEF Made, Unused

(* The requests that do not move keep what they are promised.                 *)
LEMMA OthersKeep ==
  ASSUME OnceInv, NEW v \in Writers, writer'[v] = writer[v], Made(v)' = Made(v),
         \A m \in Links : ~Unused(m) => row'[m] = row[m]
  PROVE  TriesOf(v)' /\ OnceOf(v)'
<1>1. \A m \in Made(v) : row'[m] = row[m]
  BY DEF Made
<1>2. TriesOf(v)'
  BY DEF OnceInv, TriesOf
<1> QED BY <1>1, <1>2 DEF OnceInv, OnceOf

(* The requests to shorten.                                                   *)
LEMMA ShortenKeeps ==
  ASSUME TableInv, OnceInv, NEW w \in Writers, NEW c,
         \/ \E u \in Users, url \in RawURLs : BeginShorten(w, u, url)
         \/ Created(w, c) \/ Collided(w, c) \/ CreateFails(w, c)
  PROVE  OnceInv'
<1> WriterType /\ TriesOf(w) /\ OnceOf(w)
  BY DEF OnceInv
<1>1. CASE \E u \in Users, url \in RawURLs : BeginShorten(w, u, url)
  <2>1. PICK u \in Users, url \in RawURLs, pc \in {"draw", "400"} :
           /\ writer[w].pc = "idle"
           /\ Set(w, [pc |-> pc, kind |-> "shorten", user |-> u, url |-> url])
           /\ UNCHANGED row
    BY <1>1 DEF BeginShorten
  <2>2. WriterType' /\ \A v \in Writers \ {w} : writer'[v] = writer[v]
    BY <2>1, SetEffect
  <2>3. writer'[w].pc \in {"draw", "400"} /\ writer'[w].kind = "shorten"
    BY <2>1, SetEffect DEF Fields
  <2>6. writer'[w].attempts = 0
    BY <2>1, SetEffect DEF Fields, TriesOf
  <2>4. Made(w)' = {}
    BY <2>1, SameMade DEF OnceOf
  <2>5. OnceOf(w)'
    BY <2>3, <2>4 DEF OnceOf
  <2>7. TriesOf(w)'
    <3>1. writer'[w].attempts \in 0..MaxAttempts /\ writer'[w].attempts < MaxAttempts
      BY <2>6, Attempts
    <3> QED BY <2>3, <3>1 DEF TriesOf
  <2> QED BY <2>1, <2>2, <2>5, <2>7, SameMade, OthersKeep DEF OnceInv
<1>2. CASE Created(w, c)
  <2>1. /\ writer[w].pc = "draw"
        /\ Inserted(w, c, Normalise(writer[w].url))
        /\ Set(w, [pc |-> "201", code |-> c])
    BY <1>2 DEF Created
  <2>2. WriterType' /\ \A v \in Writers \ {w} : writer'[v] = writer[v]
    BY <2>1, SetEffect
  <2>3. /\ writer'[w].pc = "201" /\ writer'[w].code = c
        /\ writer'[w].kind = writer[w].kind /\ writer'[w].user = writer[w].user
        /\ writer'[w].attempts = writer[w].attempts
    BY <2>1, SetEffect DEF Fields
  <2>4. PICK l \in Links : /\ Made(w)' = {l}
                           /\ row'[l].code = c /\ row'[l].owner = writer[w].user
    BY <2>1, InsertedMakes DEF OnceOf
  <2>5. OnceOf(w)'
    BY <2>3, <2>4 DEF OnceOf
  <2>6. TriesOf(w)'
    BY <2>3 DEF TriesOf
  <2> QED BY <2>1, <2>2, <2>5, <2>6, InsertedMakes, OthersKeep DEF OnceInv
<1>3. CASE Collided(w, c)
  <2>1. PICK pc \in {"draw", "no code"} :
           /\ pc = "draw" => writer[w].attempts + 1 < MaxAttempts
           /\ writer[w].pc = "draw"
           /\ Set(w, [attempts |-> writer[w].attempts + 1, pc |-> pc])
           /\ UNCHANGED row
    BY <1>3 DEF Collided
  <2>2. WriterType' /\ \A v \in Writers \ {w} : writer'[v] = writer[v]
    BY <2>1, SetEffect
  <2>3. /\ writer'[w].pc = pc /\ writer'[w].kind = "shorten"
        /\ writer'[w].attempts = writer[w].attempts + 1
    <3> DEFINE next == [attempts |-> writer[w].attempts + 1, pc |-> pc]
    <3>1. /\ next.pc = pc /\ next.attempts = writer[w].attempts + 1
          /\ {"pc", "attempts"} \subseteq DOMAIN next /\ "kind" \notin DOMAIN next
      OBVIOUS
    <3>2. Set(w, next) /\ writer[w].kind = "shorten"
      BY <2>1 DEF OnceOf
    <3> HIDE DEF next
    <3> QED BY <3>1, <3>2, SetEffect DEF Fields
  <2>4. Made(w)' = {}
    BY <2>1, SameMade DEF OnceOf
  <2>5. OnceOf(w)'
    BY <2>1, <2>3, <2>4 DEF OnceOf
  <2>6. TriesOf(w)'
    <3>1. writer[w].attempts \in 0..MaxAttempts /\ writer[w].attempts < MaxAttempts
      BY <2>1 DEF TriesOf
    <3>2. writer'[w].attempts \in 0..MaxAttempts
      BY <2>3, <3>1, Attempts
    <3>3. writer'[w].pc = "draw" => writer'[w].attempts < MaxAttempts
      BY <2>1, <2>3
    <3> QED BY <2>1, <2>3, <3>2, <3>3 DEF TriesOf
  <2> QED BY <2>1, <2>2, <2>5, <2>6, SameMade, OthersKeep DEF OnceInv
<1>4. CASE CreateFails(w, c)
  <2>1. /\ writer[w].pc = "draw"
        /\ Failed(w, c, Normalise(writer[w].url))
        /\ Set(w, [pc |-> "500"])
    BY <1>4 DEF CreateFails
  <2>2. WriterType' /\ \A v \in Writers \ {w} : writer'[v] = writer[v]
    BY <2>1, SetEffect
  <2>3. writer'[w].pc = "500" /\ writer'[w].attempts = writer[w].attempts
    BY <2>1, SetEffect DEF Fields
  <2>4. Made(w)' = {} \/ \E l \in Links : Made(w)' = {l}
    BY <2>1, SameMade, InsertedMakes DEF OnceOf, Failed
  <2>5. OnceOf(w)'
    BY <2>3, <2>4 DEF OnceOf
  <2>6. \A v \in Writers \ {w} : Made(v)' = Made(v)
    BY <2>1, SameMade, InsertedMakes DEF Failed
  <2>7. \A m \in Links : ~Unused(m) => row'[m] = row[m]
    BY <2>1, InsertedMakes DEF Failed
  <2>8. TriesOf(w)'
    BY <2>3 DEF TriesOf
  <2> QED BY <2>2, <2>5, <2>6, <2>7, <2>8, OthersKeep DEF OnceInv
<1> QED BY <1>1, <1>2, <1>3, <1>4

(* An import is nobody's request to shorten.                                  *)
LEMMA ImportKeeps ==
  ASSUME TableInv, OnceInv, NEW w \in Writers, NEW c,
         \/ \E u \in Users, file \in Files : BeginImport(w, u, file)
         \/ \E u \in Users : ImportRefused(w, u)
         \/ CreateRow(w, c) \/ CreateRowFails(w, c)
         \/ SkipRow(w) \/ ReadRow(w) \/ UnreadableRow(w) \/ EndOfFile(w)
  PROVE  OnceInv' /\ writer'[w].kind = "import"
<1> WriterType /\ TriesOf(w) /\ OnceOf(w)
  BY DEF OnceInv
<1> DEFINE Goes == /\ WriterType'
                   /\ \A v \in Writers \ {w} : writer'[v] = writer[v]
                   /\ writer'[w].kind = "import"
                   /\ writer'[w].pc \in {"rows", "create", "201", "400", "500"}
                   /\ writer'[w].attempts = writer[w].attempts
<1>1. ASSUME NEW next, Set(w, next), next.pc \in {"rows", "create", "201", "400", "500"},
             "pc" \in DOMAIN next, "attempts" \notin DOMAIN next,
             \/ "kind" \in DOMAIN next /\ next.kind = "import"
             \/ "kind" \notin DOMAIN next /\ writer[w].pc \in {"rows", "create"}
      PROVE  Goes
  <2>1. writer'[w].pc = next.pc
    BY <1>1, SetEffect DEF Fields
  <2>2. writer'[w].kind = "import"
    BY <1>1, SetEffect DEF Fields, OnceOf
  <2>3. writer'[w].attempts = writer[w].attempts
    BY <1>1, SetEffect DEF Fields
  <2> QED BY <1>1, <2>1, <2>2, <2>3, SetEffect
<1>2. ASSUME NEW u \in Users, NEW file \in Files, BeginImport(w, u, file) PROVE Goes
  <2> DEFINE next == [pc |-> "rows", kind |-> "import", user |-> u, file |-> file]
  <2>1. Set(w, next)
    BY <1>2 DEF BeginImport
  <2>2. /\ next.pc = "rows" /\ next.kind = "import" /\ {"pc", "kind"} \subseteq DOMAIN next
        /\ "attempts" \notin DOMAIN next
    OBVIOUS
  <2> HIDE DEF next, Goes
  <2> QED BY <1>1, <2>1, <2>2
<1>3. ASSUME NEW u \in Users, ImportRefused(w, u) PROVE Goes
  <2>1. PICK status \in {"400", "500"} :
           Set(w, [pc |-> status, kind |-> "import", user |-> u])
    BY <1>3 DEF ImportRefused
  <2> DEFINE next == [pc |-> status, kind |-> "import", user |-> u]
  <2>2. /\ next.pc \in {"400", "500"} /\ next.kind = "import" /\ {"pc", "kind"} \subseteq DOMAIN next
        /\ "attempts" \notin DOMAIN next
    OBVIOUS
  <2>3. Set(w, next)
    BY <2>1
  <2> HIDE DEF next, Goes
  <2> QED BY <1>1, <2>2, <2>3
<1>4. ASSUME CreateRow(w, c) \/ CreateRowFails(w, c) PROVE Goes
  <2>1. PICK report : Set(w, [pc |-> "rows", report |-> report])
    BY <1>4 DEF CreateRow, CreateRowFails
  <2> DEFINE next == [pc |-> "rows", report |-> report]
  <2>2. /\ next.pc = "rows" /\ "pc" \in DOMAIN next /\ "kind" \notin DOMAIN next
        /\ "attempts" \notin DOMAIN next
    OBVIOUS
  <2>3. Set(w, next) /\ writer[w].pc = "create"
    BY <1>4, <2>1 DEF CreateRow, CreateRowFails
  <2> HIDE DEF next, Goes
  <2> QED BY <1>1, <2>2, <2>3
<1>5. ASSUME SkipRow(w) PROVE Goes
  <2> DEFINE next == [read |-> writer[w].read + 1]
  <2>1. Set(w, next) /\ writer[w].pc = "rows"
    BY <1>5 DEF SkipRow, Reads
  <2>2. /\ "pc" \notin DOMAIN next /\ "kind" \notin DOMAIN next
        /\ "attempts" \notin DOMAIN next
    OBVIOUS
  <2> HIDE DEF next
  <2>3. /\ writer'[w].pc = "rows" /\ writer'[w].kind = writer[w].kind
        /\ writer'[w].attempts = writer[w].attempts
    BY <2>1, <2>2, SetEffect DEF Fields
  <2> QED BY <2>1, <2>3, SetEffect DEF OnceOf
<1>6. ASSUME ReadRow(w) PROVE Goes
  <2> DEFINE next == [pc |-> "create", read |-> writer[w].read + 1]
  <2>1. Set(w, next) /\ writer[w].pc = "rows"
    BY <1>6 DEF ReadRow, Reads
  <2>2. /\ next.pc = "create" /\ "pc" \in DOMAIN next /\ "kind" \notin DOMAIN next
        /\ "attempts" \notin DOMAIN next
    OBVIOUS
  <2> HIDE DEF next, Goes
  <2> QED BY <1>1, <2>1, <2>2
<1>7. ASSUME UnreadableRow(w) PROVE Goes
  <2> DEFINE next == [pc |-> "500", report |-> <<>>]
  <2>1. Set(w, next) /\ writer[w].pc = "rows"
    BY <1>7 DEF UnreadableRow, Reads
  <2>2. /\ next.pc = "500" /\ "pc" \in DOMAIN next /\ "kind" \notin DOMAIN next
        /\ "attempts" \notin DOMAIN next
    OBVIOUS
  <2> HIDE DEF next, Goes
  <2> QED BY <1>1, <2>1, <2>2
<1>8. ASSUME EndOfFile(w) PROVE Goes
  <2> DEFINE next == [pc |-> "201"]
  <2>1. Set(w, next) /\ writer[w].pc = "rows"
    BY <1>8 DEF EndOfFile
  <2>2. /\ next.pc = "201" /\ "pc" \in DOMAIN next /\ "kind" \notin DOMAIN next
        /\ "attempts" \notin DOMAIN next
    OBVIOUS
  <2> HIDE DEF next, Goes
  <2> QED BY <1>1, <2>1, <2>2
<1>9. Goes
  <2> HIDE DEF Goes
  <2> QED BY <1>2, <1>3, <1>4, <1>5, <1>6, <1>7, <1>8
<1>10. UNCHANGED row \/ \E url : Inserted(w, c, url)
  BY DEF BeginImport, ImportRefused, CreateRow, CreateRowFails, Failed, SkipRow, ReadRow,
         UnreadableRow, EndOfFile
<1>11. /\ \A v \in Writers \ {w} : Made(v)' = Made(v)
       /\ \A m \in Links : ~Unused(m) => row'[m] = row[m]
  BY <1>10, SameMade, InsertedMakes
<1>12. OnceOf(w)'
  BY <1>9 DEF OnceOf
<1>13. TriesOf(w)'
  BY <1>9 DEF TriesOf
<1> QED BY <1>9, <1>11, <1>12, <1>13, OthersKeep DEF OnceInv

(* The steps of Accounts leave the rows of links alone.                       *)
LEMMA AccountStepLeavesRows == AccountStep \/ UNCHANGED vars => UNCHANGED row
BY DEF AccountStep, CheckEmail, CheckFails, InsertAccount, InsertAccountFails, BeginDelete,
       DeleteLinks, DeleteAccount, CommitDelete, DeleteFails, vars

LEMMA NextOnce == Inv /\ OnceInv /\ [Next]_vars => OnceInv'
<1> SUFFICES ASSUME Inv, OnceInv, [Next]_vars PROVE OnceInv'
  OBVIOUS
<1>1. TableInv
  BY DEF Inv
<1>2. CASE UNCHANGED <<row, writer>>
  <2>1. \A v \in Writers : TriesOf(v)' /\ OnceOf(v)'
    BY <1>2, SameMade, OthersKeep
  <2> QED BY <1>2, <2>1 DEF OnceInv, WriterType
<1>3. ASSUME NEW w \in Writers, WriterStep(w) PROVE OnceInv'
  <2>1. CASE \E u \in Users, url \in RawURLs : BeginShorten(w, u, url)
    BY <1>1, <2>1, ShortenKeeps
  <2>2. CASE \/ \E u \in Users, file \in Files : BeginImport(w, u, file)
             \/ \E u \in Users : ImportRefused(w, u)
             \/ SkipRow(w) \/ ReadRow(w) \/ UnreadableRow(w) \/ EndOfFile(w)
    BY <1>1, <2>2, ImportKeeps
  <2>3. CASE \E c \in Codes : Created(w, c) \/ Collided(w, c) \/ CreateFails(w, c)
    BY <1>1, <2>3, ShortenKeeps
  <2>4. CASE \E c \in Codes : CreateRow(w, c) \/ CreateRowFails(w, c)
    BY <1>1, <2>4, ImportKeeps
  <2> QED BY <1>3, <2>1, <2>2, <2>3, <2>4 DEF WriterStep
<1> QED BY <1>2, <1>3, AccountStepLeavesRows DEF Next, Finished, vars

(* However often it collides and wherever it fails, a request to shorten      *)
(* stores at most one link: the one it was told of if answered 201, none if   *)
(* told that there is none (url_service.go:147, :155).                        *)
THEOREM ShortensOnce == Spec => []ShortenIsOnce
<1>1. Init => OnceInv
  BY InitOnce
<1>2. OnceInv => ShortenIsOnce
  <2>1. \A S : S = {} \/ (\E l \in Links : S = {l}) => Cardinality(S) <= 1
    <3>1. Cardinality({}) = 0
      BY FS_EmptySet
    <3>2. \A l \in Links : Cardinality({l}) = 1
      BY FS_Singleton
    <3> QED BY <3>1, <3>2
  <2> QED BY <2>1 DEF OnceInv, OnceOf, ShortenIsOnce
<1> QED BY <1>1, <1>2, NextOnce, Invariance, PTL DEF Spec

----------------------------------------------------------------------------
(* The links: no two under one code, none without its owner.                  *)
LinksInv ==
    /\ \A l, m \in stored : l # m => row[l].code # row[m].code
    /\ \A l \in stored : row[l].owner \in accounts

LEMMA NextLinks == Inv /\ LinksInv /\ [Next]_vars => LinksInv'
<1> SUFFICES ASSUME Inv, LinksInv, [Next]_vars PROVE LinksInv'
  OBVIOUS
<1>1. CASE UNCHANGED row /\ stored' \subseteq stored
  <2>1. \A l \in stored' : row[l].owner \in Users
    BY <1>1 DEF LinksInv, Inv, TableInv
  <2>2. \A l \in stored' : row'[l].owner \in accounts'
    BY <1>1, <2>1, NextKeeps DEF LinksInv, WholeStep
  <2> QED BY <1>1, <2>2 DEF LinksInv
<1>2. ASSUME NEW l \in Links, NEW r, NewLink(l, r), UNCHANGED accounts PROVE LinksInv'
  <2>1. /\ row'[l] = r /\ \A m \in Links \ {l} : row'[m] = row[m]
        /\ stored \subseteq Links \ {l} /\ stored' = stored \cup {l}
    BY <1>2 DEF Inv, TableInv, NewLink
  <2>2. r.owner \in accounts /\ \A m \in stored : row[m].code # r.code
    BY <1>2 DEF NewLink, CodeTaken
  <2> QED BY <1>2, <2>1, <2>2 DEF LinksInv
<1>3. CASE \E w \in Writers : WriterStep(w) /\ UNCHANGED accountVars
  BY <1>1, <1>2, <1>3, WriterEffect DEF accountVars
<1>4. AccountStep \/ UNCHANGED vars => UNCHANGED row /\ stored' \subseteq stored
  BY DEF AccountStep, CheckEmail, CheckFails, InsertAccount, InsertAccountFails, BeginDelete,
         DeleteLinks, DeleteAccount, CommitDelete, DeleteFails, TakeEffect, vars
<1> QED BY <1>1, <1>3, <1>4 DEF Next, Finished

(* The tables and the requests stay well typed; two stored links have two     *)
(* codes, each link has its owner in the table of users, whatever is deleted  *)
(* meanwhile, and no request tries more often than maxShortCodeAttempts.      *)
THEOREM TypeCorrect == Spec => []TypeOK
<1>1. Init => OnceInv /\ LinksInv
  BY InitOnce DEF Init, AccountsInit, LinksInv
<1>2. Inv /\ OnceInv /\ LinksInv => TypeOK
  <2> SUFFICES ASSUME Inv, OnceInv, LinksInv PROVE TypeOK
    OBVIOUS
  <2>1. AccountsTypeOK
    BY DEF Inv, TableInv, SignupInv, DeletionInv, AccountsTypeOK
  <2>2. \A w \in Writers :
          /\ writer[w].pc \in {"idle", "draw", "rows", "create", "201", "400", "500", "no code"}
          /\ writer[w].attempts <= MaxAttempts
          /\ writer[w].pc = "draw" => writer[w].attempts < MaxAttempts
    <3> SUFFICES ASSUME NEW w \in Writers
                 PROVE  /\ writer[w].pc \in {"idle", "draw", "rows", "create", "201", "400",
                                              "500", "no code"}
                        /\ writer[w].attempts <= MaxAttempts
                        /\ writer[w].pc = "draw" => writer[w].attempts < MaxAttempts
      OBVIOUS
    <3>1. TriesOf(w)
      BY DEF OnceInv
    <3>2. writer[w].attempts \in 0..MaxAttempts
      BY <3>1 DEF TriesOf
    <3>3. writer[w].attempts <= MaxAttempts
      BY <3>2, AttemptsAssumption
    <3> QED BY <3>1, <3>3 DEF TriesOf
  <2> QED BY <2>1, <2>2 DEF LinksInv, TypeOK
<1> QED BY <1>1, <1>2, NextOnce, NextLinks, Invariance, PTL DEF Spec

----------------------------------------------------------------------------
(* The report of an import: where it is, what it was told of, what it made.   *)
Urls(file, n) == {k \in 1..n : file[k] = "url"}

Done(w) == IF writer[w].pc = "create"
           THEN Urls(writer[w].file, writer[w].read) \ {writer[w].read}
           ELSE Urls(writer[w].file, writer[w].read)

Reports == Seq([row : Nat, code : Codes \cup {None}])

(* The report has the rows done, in their order.                              *)
Told(report, done) ==
    /\ {report[i].row : i \in DOMAIN report} = {n + 1 : n \in done}
    /\ \A i, j \in DOMAIN report : i < j => report[i].row < report[j].row

CodesAreStored(w) ==
    \A i \in DOMAIN writer[w].report : writer[w].report[i].code # None =>
        \E l \in Made(w) : /\ row[l].code = writer[w].report[i].code
                           /\ row[l].line = writer[w].report[i].row - 1

MadeIsDone(w) ==
    \A l \in Made(w) :
        /\ row[l].line \in Done(w)
        /\ \A m \in Made(w) \ {l} : row[m].line # row[l].line

ReportOf(w) ==
    /\ writer[w].pc = "idle" => writer[w].read = 0 /\ writer[w].report = <<>>
    /\ writer[w].kind = "import" =>
          /\ writer[w].read \in Nat /\ writer[w].report \in Reports
          /\ writer[w].pc = "create" =>
                writer[w].read # 0 /\ writer[w].file[writer[w].read] = "url"
          /\ writer[w].pc # "500" => Told(writer[w].report, Done(w))
          /\ CodesAreStored(w)
          /\ MadeIsDone(w)

ReportInv == \A w \in Writers : ReportOf(w)

LEMMA UrlsRead ==
  ASSUME NEW file, NEW n \in Nat
  PROVE  /\ Urls(file, n) \subseteq Nat /\ \A k \in Urls(file, n) : k <= n
         /\ file[n + 1] = "url" => Urls(file, n + 1) \ {n + 1} = Urls(file, n)
         /\ file[n + 1] # "url" => Urls(file, n + 1) = Urls(file, n)
         /\ file[n] = "url" /\ n # 0 => n \in Urls(file, n)
BY DEF Urls

LEMMA NothingRead == \A file : Urls(file, 0) = {}
BY DEF Urls

LEMMA NothingTold == <<>> \in Reports /\ DOMAIN <<>> = {} /\ Told(<<>>, {})
BY DEF Told, Reports

Longer(report, n, c) == Append(report, [row |-> n + 1, code |-> c])

(* longer is report and an entry for row n after it.                          *)
OneMore(longer, report, n, c) ==
    /\ longer \in Reports
    /\ DOMAIN longer = DOMAIN report \cup {Len(report) + 1}
    /\ \A i \in DOMAIN report : longer[i] = report[i]
    /\ longer[Len(report) + 1].row = n + 1 /\ longer[Len(report) + 1].code = c

LEMMA TellsNext ==
  ASSUME NEW report \in Reports, NEW done \in SUBSET Nat, NEW n \in Nat,
         NEW c \in Codes \cup {None},
         Told(report, done), \A k \in done : k < n
  PROVE  OneMore(Longer(report, n, c), report, n, c) /\ Told(Longer(report, n, c), done \cup {n})
<1> DEFINE entry == [row |-> n + 1, code |-> c]
           longer == Longer(report, n, c)
           last == Len(report) + 1
<1>1. entry \in [row : Nat, code : Codes \cup {None}] /\ entry.row = n + 1
  OBVIOUS
<1>6. longer = Append(report, entry) /\ entry.code = c
  BY DEF Longer
<1> HIDE DEF entry, longer
<1>2. /\ longer \in Reports
      /\ DOMAIN report = 1..Len(report) /\ Len(report) \in Nat
      /\ DOMAIN longer = DOMAIN report \cup {last}
      /\ \A i \in DOMAIN report : longer[i] = report[i]
      /\ longer[last] = entry
  BY <1>1, <1>6 DEF Reports
<1>3. {longer[i].row : i \in DOMAIN longer} = {k + 1 : k \in done \cup {n}}
  <2>1. {longer[i].row : i \in DOMAIN longer} = {report[i].row : i \in DOMAIN report} \cup {n + 1}
    <3>1. \A i \in DOMAIN report : i # last
      BY <1>2
    <3> QED BY <1>1, <1>2, <3>1
  <2>2. {k + 1 : k \in done \cup {n}} = {k + 1 : k \in done} \cup {n + 1}
    OBVIOUS
  <2> QED BY <2>1, <2>2 DEF Told
<1>4. \A i \in DOMAIN report : report[i].row < n + 1
  <2>1. \A i \in DOMAIN report : \E k \in done : report[i].row = k + 1
    BY DEF Told
  <2> QED BY <2>1
<1>5. \A i, j \in DOMAIN longer : i < j => longer[i].row < longer[j].row
  <2> SUFFICES ASSUME NEW i \in DOMAIN longer, NEW j \in DOMAIN longer, i < j
               PROVE  longer[i].row < longer[j].row
    OBVIOUS
  <2>1. i \in DOMAIN report
    BY <1>2
  <2>2. CASE j = last
    BY <1>1, <1>2, <1>4, <2>1, <2>2
  <2>3. CASE j # last
    <3>1. j \in DOMAIN report
      BY <1>2, <2>3
    <3> QED BY <1>2, <2>1, <3>1 DEF Told
  <2> QED BY <2>2, <2>3
<1>7. OneMore(longer, report, n, c) /\ Told(longer, done \cup {n})
  BY <1>1, <1>2, <1>3, <1>5, <1>6 DEF Told, OneMore
<1> QED BY <1>7 DEF longer

(* Requests that do not move, and those to shorten, report what they did.     *)
LEMMA OthersReport ==
  ASSUME ReportInv, NEW v \in Writers, writer'[v] = writer[v], Made(v)' = Made(v),
         \A m \in Links : ~Unused(m) => row'[m] = row[m]
  PROVE  ReportOf(v)'
<1>1. \A m \in Made(v) : row'[m] = row[m]
  BY DEF Made
<1>2. Done(v)' = Done(v)
  BY DEF Done
<1>3. ReportOf(v)
  BY DEF ReportInv
<1>4. CodesAreStored(v) => CodesAreStored(v)'
  BY <1>1 DEF CodesAreStored
<1>5. MadeIsDone(v) => MadeIsDone(v)'
  BY <1>1, <1>2 DEF MadeIsDone
<1> QED BY <1>2, <1>3, <1>4, <1>5 DEF ReportOf

LEMMA ShortenReports ==
  ASSUME OnceInv, NEW w \in Writers, NEW c,
         \/ \E u \in Users, url \in RawURLs : BeginShorten(w, u, url)
         \/ Created(w, c) \/ Collided(w, c) \/ CreateFails(w, c)
  PROVE  ReportOf(w)'
<1>1. writer'[w].kind = "shorten" /\ writer'[w].pc # "idle"
  <2> WriterType /\ OnceOf(w)
    BY DEF OnceInv
  <2>1. CASE \E u \in Users, url \in RawURLs : BeginShorten(w, u, url)
    <3>1. PICK u \in Users, url \in RawURLs, pc \in {"draw", "400"} :
             Set(w, [pc |-> pc, kind |-> "shorten", user |-> u, url |-> url])
      BY <2>1 DEF BeginShorten
    <3> QED BY <3>1, SetEffect DEF Fields
  <2>2. CASE Created(w, c) \/ Collided(w, c) \/ CreateFails(w, c)
    <3>1. writer[w].kind = "shorten"
      BY <2>2 DEF OnceOf, Created, Collided, CreateFails
    <3>2. PICK next : /\ Set(w, next)
                      /\ "kind" \notin DOMAIN next /\ "pc" \in DOMAIN next
                      /\ next.pc # "idle"
      <4>1. CASE Created(w, c)
        <5>1. Set(w, [pc |-> "201", code |-> c])
          BY <4>1 DEF Created
        <5> QED BY <5>1
      <4>2. CASE Collided(w, c)
        <5>1. PICK pc \in {"draw", "no code"} :
                 Set(w, [attempts |-> writer[w].attempts + 1, pc |-> pc])
          BY <4>2 DEF Collided
        <5> DEFINE next == [attempts |-> writer[w].attempts + 1, pc |-> pc]
        <5>2. DOMAIN next = {"attempts", "pc"} /\ next.pc = pc
          OBVIOUS
        <5>3. Set(w, next)
          BY <5>1
        <5> HIDE DEF next
        <5> QED BY <5>2, <5>3
      <4>3. CASE CreateFails(w, c)
        <5>1. Set(w, [pc |-> "500"])
          BY <4>3 DEF CreateFails
        <5> QED BY <5>1
      <4> QED BY <2>2, <4>1, <4>2, <4>3
    <3> QED BY <3>1, <3>2, SetEffect DEF Fields
  <2> QED BY <2>1, <2>2
<1> QED BY <1>1 DEF ReportOf

(* An import that starts, or reads a row.                                     *)
LEMMA ReadingReports ==
  ASSUME OnceInv, ReportInv, NEW w \in Writers,
         \/ \E u \in Users, file \in Files : BeginImport(w, u, file)
         \/ \E u \in Users : ImportRefused(w, u)
         \/ SkipRow(w) \/ ReadRow(w) \/ UnreadableRow(w) \/ EndOfFile(w)
  PROVE  ReportOf(w)'
<1> WriterType /\ OnceOf(w) /\ ReportOf(w)
  BY DEF OnceInv, ReportInv
<1> UNCHANGED row /\ Made(w)' = Made(w)
  BY SameMade DEF BeginImport, ImportRefused, SkipRow, ReadRow, UnreadableRow, EndOfFile
<1>1. CASE \/ \E u \in Users, file \in Files : BeginImport(w, u, file)
           \/ \E u \in Users : ImportRefused(w, u)
  <2>1. PICK next : /\ writer[w].pc = "idle" /\ Set(w, next)
                    /\ {"pc", "kind"} \subseteq DOMAIN next
                    /\ "read" \notin DOMAIN next /\ "report" \notin DOMAIN next
                    /\ next.pc \in {"rows", "400", "500"}
    <3>1. CASE \E u \in Users, file \in Files : BeginImport(w, u, file)
      <4>1. PICK u \in Users, file \in Files : BeginImport(w, u, file)
        BY <3>1
      <4>2. /\ writer[w].pc = "idle"
            /\ Set(w, [pc |-> "rows", kind |-> "import", user |-> u, file |-> file])
        BY <4>1 DEF BeginImport
      <4> QED BY <4>2
    <3>2. CASE \E u \in Users : ImportRefused(w, u)
      <4>1. PICK u \in Users, status \in {"400", "500"} :
               /\ writer[w].pc = "idle"
               /\ Set(w, [pc |-> status, kind |-> "import", user |-> u])
        BY <3>2 DEF ImportRefused
      <4> QED BY <4>1
    <3> QED BY <1>1, <3>1, <3>2
  <2>2. /\ writer'[w].pc \in {"rows", "400", "500"}
        /\ writer'[w].read = 0 /\ writer'[w].report = <<>>
    BY <2>1, SetEffect DEF Fields, ReportOf
  <2>3. Made(w)' = {} /\ Done(w)' = {}
    BY <2>1, <2>2, NothingRead DEF OnceOf, Done
  <2>4. CodesAreStored(w)' /\ MadeIsDone(w)'
    BY <2>2, <2>3, NothingTold DEF CodesAreStored, MadeIsDone
  <2>5. writer'[w].read \in Nat /\ Told(writer'[w].report, Done(w)')
    BY <2>2, <2>3, NothingTold
  <2> QED BY <2>2, <2>4, <2>5, NothingTold DEF ReportOf
<1>2. CASE SkipRow(w) \/ ReadRow(w) \/ UnreadableRow(w) \/ EndOfFile(w)
  <2> DEFINE n == writer[w].read
  <2>1. writer[w].pc = "rows" /\ writer[w].kind = "import"
    BY <1>2 DEF OnceOf, SkipRow, ReadRow, UnreadableRow, EndOfFile, Reads
  <2>2. /\ n \in Nat /\ writer[w].report \in Reports
        /\ Told(writer[w].report, Done(w)) /\ CodesAreStored(w) /\ MadeIsDone(w)
        /\ Done(w) = Urls(writer[w].file, n)
    BY <2>1 DEF ReportOf, Done
  <2>3. ASSUME Done(w)' = Done(w), writer'[w].report = writer[w].report,
               writer'[w].pc # "idle", writer'[w].read \in Nat,
               writer'[w].pc = "create" =>
                  writer'[w].read # 0 /\ writer'[w].file[writer'[w].read] = "url"
        PROVE  ReportOf(w)'
    <3>1. CodesAreStored(w)' /\ MadeIsDone(w)'
      BY <2>2, <2>3 DEF CodesAreStored, MadeIsDone
    <3> QED BY <2>2, <2>3, <3>1 DEF ReportOf
  <2>4. n + 1 \in Nat /\ n + 1 # 0
    BY <2>2
  <2>5. CASE SkipRow(w)
    <3> DEFINE next == [read |-> n + 1]
    <3>1. Set(w, next) /\ writer[w].file[n + 1] = "blank"
      BY <2>5 DEF SkipRow, Reads
    <3>2. DOMAIN next = {"read"} /\ next.read = n + 1
      OBVIOUS
    <3> HIDE DEF next
    <3>3. /\ writer'[w].pc = "rows" /\ writer'[w].report = writer[w].report
          /\ writer'[w].read = n + 1 /\ writer'[w].file = writer[w].file
      BY <2>1, <3>1, <3>2, SetEffect DEF Fields
    <3>4. Done(w)' = Urls(writer[w].file, n + 1)
      BY <3>3 DEF Done
    <3>5. Done(w)' = Done(w)
      BY <2>2, <3>1, <3>4, UrlsRead
    <3> QED BY <2>3, <2>4, <3>3, <3>5
  <2>6. CASE ReadRow(w)
    <3> DEFINE next == [pc |-> "create", read |-> n + 1]
    <3>1. Set(w, next) /\ writer[w].file[n + 1] = "url"
      BY <2>6 DEF ReadRow, Reads
    <3>2. DOMAIN next = {"pc", "read"} /\ next.read = n + 1 /\ next.pc = "create"
      OBVIOUS
    <3> HIDE DEF next
    <3>3. /\ writer'[w].pc = "create" /\ writer'[w].report = writer[w].report
          /\ writer'[w].read = n + 1 /\ writer'[w].file = writer[w].file
      BY <2>1, <3>1, <3>2, SetEffect DEF Fields
    <3>4. Done(w)' = Urls(writer[w].file, n + 1) \ {n + 1}
      BY <3>3 DEF Done
    <3>5. Done(w)' = Done(w)
      BY <2>2, <3>1, <3>4, UrlsRead
    <3> QED BY <2>3, <2>4, <3>1, <3>3, <3>5
  <2>7. CASE UnreadableRow(w)
    <3>1. Set(w, [pc |-> "500", report |-> <<>>])
      BY <2>7 DEF UnreadableRow
    <3>2. /\ writer'[w].pc = "500" /\ writer'[w].report = <<>>
          /\ writer'[w].read = n /\ writer'[w].file = writer[w].file
      BY <3>1, SetEffect DEF Fields
    <3>3. Done(w)' = Done(w)
      BY <2>2, <3>2 DEF Done
    <3>4. CodesAreStored(w)' /\ MadeIsDone(w)'
      BY <2>2, <3>2, <3>3, NothingTold DEF CodesAreStored, MadeIsDone
    <3> QED BY <2>2, <3>2, <3>4, NothingTold DEF ReportOf
  <2>8. CASE EndOfFile(w)
    <3>1. Set(w, [pc |-> "201"])
      BY <2>8 DEF EndOfFile
    <3>2. /\ writer'[w].pc = "201" /\ writer'[w].report = writer[w].report
          /\ writer'[w].read = n /\ writer'[w].file = writer[w].file
      BY <3>1, SetEffect DEF Fields
    <3>3. Done(w)' = Done(w)
      BY <2>2, <3>2 DEF Done
    <3> QED BY <2>2, <2>3, <3>2, <3>3
  <2> QED BY <1>2, <2>5, <2>6, <2>7, <2>8
<1> QED BY <1>1, <1>2

(* A row is created, or is not, or is although its answer was lost.           *)
LEMMA CreatingReports ==
  ASSUME TableInv, OnceInv, ReportInv, NEW w \in Writers, NEW c \in Codes,
         CreateRow(w, c) \/ CreateRowFails(w, c)
  PROVE  ReportOf(w)'
<1> WriterType /\ OnceOf(w) /\ ReportOf(w)
  BY DEF OnceInv, ReportInv
<1> DEFINE n == writer[w].read
           file == writer[w].file
           report == writer[w].report
<1>1. writer[w].pc = "create" /\ writer[w].kind = "import"
  BY DEF OnceOf, CreateRow, CreateRowFails
<1>2. /\ n \in Nat /\ n # 0 /\ report \in Reports /\ file[n] = "url"
      /\ Told(report, Done(w)) /\ CodesAreStored(w) /\ MadeIsDone(w)
      /\ Done(w) = Urls(file, n) \ {n}
  BY <1>1 DEF ReportOf, Done
<1>3. /\ Done(w) \in SUBSET Nat /\ \A k \in Done(w) : k < n
      /\ Urls(file, n) = Done(w) \cup {n}
  <2>1. Urls(file, n) \subseteq Nat /\ n \in Urls(file, n) /\ \A k \in Urls(file, n) : k <= n
    BY <1>2, UrlsRead
  <2>2. \A k \in Done(w) : k \in Nat /\ k <= n /\ k # n
    BY <1>2, <2>1
  <2> QED BY <1>2, <2>1, <2>2
<1>4. PICK code \in Codes \cup {None} :
        /\ Set(w, [pc |-> "rows", report |-> Longer(report, n, code)])
        /\ UNCHANGED row \/ Inserted(w, c, None)
        /\ code # None => Inserted(w, c, None) /\ code = c
  <2>1. CASE CreateRow(w, c)
    BY <2>1 DEF CreateRow, Entry, Longer
  <2>2. CASE CreateRowFails(w, c)
    BY <2>2 DEF CreateRowFails, Entry, Failed, Longer
  <2> QED BY <2>1, <2>2
<1> DEFINE longer == Longer(report, n, code)
<1>5. /\ longer \in Reports
      /\ DOMAIN longer = DOMAIN report \cup {Len(report) + 1}
      /\ \A i \in DOMAIN report : longer[i] = report[i]
      /\ longer[Len(report) + 1].row = n + 1 /\ longer[Len(report) + 1].code = code
      /\ Told(longer, Done(w) \cup {n})
  <2>1. /\ report \in Reports /\ n \in Nat /\ Told(report, Done(w))
        /\ Done(w) \in SUBSET Nat /\ \A k \in Done(w) : k < n
    BY <1>2, <1>3
  <2>2. OneMore(longer, report, n, code) /\ Told(longer, Done(w) \cup {n})
    BY <2>1, TellsNext
  <2> QED BY <2>2 DEF OneMore
<1> HIDE DEF longer
<1>6. /\ writer'[w].pc = "rows" /\ writer'[w].report = longer
      /\ writer'[w].read = n /\ writer'[w].file = file
  BY <1>4, SetEffect DEF Fields, longer
<1>7. Done(w)' = Done(w) \cup {n}
  BY <1>3, <1>6 DEF Done
<1>8. /\ \A m \in Made(w) : m \in Made(w)' /\ row'[m] = row[m]
      /\ \/ Made(w)' = Made(w)
         \/ \E l \in Links : Made(w)' = Made(w) \cup {l} /\ row'[l].line = n
      /\ code # None => \E l \in Made(w)' : row'[l].code = code /\ row'[l].line = n
  <2>1. CASE UNCHANGED row /\ code = None
    BY <2>1, SameMade
  <2>2. CASE Inserted(w, c, None)
    <3>1. /\ \A m \in Links : ~Unused(m) => row'[m] = row[m]
          /\ \E l \in Links : /\ Made(w)' = Made(w) \cup {l}
                              /\ row'[l].code = c /\ row'[l].line = n
      BY <2>2, InsertedMakes
    <3> QED BY <1>4, <3>1 DEF Made
  <2> QED BY <1>4, <2>1, <2>2
<1>9. CodesAreStored(w)'
  <2> SUFFICES ASSUME NEW i \in DOMAIN longer, longer[i].code # None
               PROVE  \E l \in Made(w)' : /\ row'[l].code = longer[i].code
                                          /\ row'[l].line = longer[i].row - 1
    BY <1>6 DEF CodesAreStored
  <2>1. CASE i \in DOMAIN report
    BY <1>2, <1>5, <1>8, <2>1 DEF CodesAreStored
  <2>2. CASE i = Len(report) + 1
    <3>1. longer[i].row = n + 1 /\ longer[i].code = code
      BY <1>5, <2>2
    <3>2. longer[i].row - 1 = n
      BY <1>2, <3>1
    <3> QED BY <1>8, <3>1, <3>2
  <2> QED BY <1>5, <2>1, <2>2
<1>10. MadeIsDone(w)'
  <2>1. n \notin Done(w)
    BY <1>2
  <2>2. \A l \in Made(w) : /\ row'[l].line \in Done(w)
                           /\ \A m \in Made(w) \ {l} : row'[m].line # row'[l].line
    BY <1>2, <1>8 DEF MadeIsDone
  <2>3. \A l \in Made(w)' : /\ row'[l].line \in Done(w) \cup {n}
                            /\ \A m \in Made(w)' \ {l} : row'[m].line # row'[l].line
    BY <1>8, <2>1, <2>2
  <2> QED BY <1>7, <2>3 DEF MadeIsDone
<1>11. Told(writer'[w].report, Done(w)')
  BY <1>5, <1>6, <1>7
<1>12. writer'[w].read \in Nat /\ writer'[w].report \in Reports
  BY <1>2, <1>5, <1>6
<1> QED BY <1>6, <1>9, <1>10, <1>11, <1>12 DEF ReportOf

LEMMA NextReports == Inv /\ OnceInv /\ ReportInv /\ [Next]_vars => ReportInv'
<1> SUFFICES ASSUME Inv, OnceInv, ReportInv, [Next]_vars PROVE ReportInv'
  OBVIOUS
<1>1. TableInv /\ WriterType
  BY DEF Inv, OnceInv
<1>2. CASE UNCHANGED <<row, writer>>
  BY <1>2, SameMade, OthersReport DEF ReportInv
<1>3. ASSUME NEW w \in Writers, WriterStep(w) PROVE ReportInv'
  <2>1. ReportOf(w)'
    <3>1. CASE \E u \in Users, url \in RawURLs : BeginShorten(w, u, url)
      BY <3>1, ShortenReports
    <3>2. CASE \/ \E u \in Users, file \in Files : BeginImport(w, u, file)
               \/ \E u \in Users : ImportRefused(w, u)
               \/ SkipRow(w) \/ ReadRow(w) \/ UnreadableRow(w) \/ EndOfFile(w)
      BY <3>2, ReadingReports
    <3>3. CASE \E c \in Codes : Created(w, c) \/ Collided(w, c) \/ CreateFails(w, c)
      BY <3>3, ShortenReports
    <3>4. CASE \E c \in Codes : CreateRow(w, c) \/ CreateRowFails(w, c)
      BY <1>1, <3>4, CreatingReports
    <3> QED BY <1>3, <3>1, <3>2, <3>3, <3>4 DEF WriterStep
  <2>2. UNCHANGED row \/ \E c, url : Inserted(w, c, url)
    BY <1>3 DEF WriterStep, BeginShorten, BeginImport, ImportRefused, Created, Collided,
       CreateFails, CreateRow, CreateRowFails, Failed, SkipRow, ReadRow, UnreadableRow, EndOfFile
  <2>3. /\ \A v \in Writers \ {w} : Made(v)' = Made(v)
        /\ \A m \in Links : ~Unused(m) => row'[m] = row[m]
    BY <1>1, <2>2, SameMade, InsertedMakes
  <2>4. \A v \in Writers \ {w} : writer'[v] = writer[v]
    <3>1. \E next : Set(w, next)
      BY <1>3 DEF WriterStep, BeginShorten, BeginImport, ImportRefused, Created, Collided,
         CreateFails, CreateRow, CreateRowFails, SkipRow, ReadRow, UnreadableRow, EndOfFile
    <3> QED BY <1>1, <3>1, SetEffect
  <2> QED BY <2>1, <2>3, <2>4, OthersReport DEF ReportInv
<1> QED BY <1>2, <1>3, AccountStepLeavesRows DEF Next, Finished, vars

(* Of a file of any length, and whatever becomes of its rows: an import's     *)
(* report is true, in the order of the file and, unless the import ended with *)
(* an error, complete (url_service.go:358, :375).                             *)
THEOREM ImportsAreTrue == Spec => []ImportIsTrue
<1>1. Init => OnceInv /\ ReportInv
  <2> SUFFICES ASSUME Init PROVE ReportInv
    BY InitOnce
  <2>1. \A w \in Writers : writer[w] = Idle
    BY DEF Init
  <2>2. Idle.pc = "idle" /\ Idle.read = 0 /\ Idle.report = <<>> /\ Idle.kind = None
    BY DEF Idle
  <2>3. \A w \in Writers : Made(w) = {}
    BY DEF Init, AccountsInit, Made, Unused
  <2>4. \A w \in Writers : Done(w) = {}
    BY <2>1, <2>2, NothingRead DEF Done
  <2>5. \A w \in Writers : CodesAreStored(w) /\ MadeIsDone(w)
    BY <2>1, <2>2, <2>3, NothingTold DEF CodesAreStored, MadeIsDone
  <2>6. \A w \in Writers : /\ writer[w].read = 0 /\ writer[w].report = <<>>
                           /\ writer[w].pc = "idle"
    BY <2>1, <2>2
  <2>7. \A w \in Writers : Told(writer[w].report, Done(w))
    BY <2>4, <2>6, NothingTold
  <2>8. \A w \in Writers : writer[w].read \in Nat /\ writer[w].report \in Reports
    BY <2>6, NothingTold
  <2> QED BY <2>5, <2>6, <2>7, <2>8 DEF ReportInv, ReportOf
<1>2. ReportInv => ImportIsTrue
  BY DEF ReportInv, ReportOf, ImportIsTrue, Told, Done, Urls, CodesAreStored, MadeIsDone
<1> QED BY <1>1, <1>2, NextOnce, NextReports, Invariance, PTL DEF Spec

----------------------------------------------------------------------------
(* Canonical URLs: paths.                                                     *)

(* What is left of a path ends at n.                                          *)
Ends(path, n) ==
    /\ n \in 0..Len(path)
    /\ n > 0 => path[n] # "/"
    /\ \A i \in (n + 1)..Len(path) : path[i] = "/"

LEMMA OneEnd ==
  ASSUME NEW path \in Seq(Chars), NEW n, NEW m, Ends(path, n), Ends(path, m)
  PROVE  n = m
<1>1. Len(path) \in Nat /\ n \in 0..Len(path) /\ m \in 0..Len(path)
  BY DEF Ends
<1>2. ~(n < m)
  <2> SUFFICES ASSUME n < m PROVE FALSE
    OBVIOUS
  <2>1. m \in (n + 1)..Len(path) /\ m > 0
    BY <1>1
  <2> QED BY <2>1 DEF Ends
<1>3. ~(m < n)
  <2> SUFFICES ASSUME m < n PROVE FALSE
    OBVIOUS
  <2>1. n \in (m + 1)..Len(path) /\ n > 0
    BY <1>1
  <2> QED BY <2>1 DEF Ends
<1> QED BY <1>1, <1>2, <1>3

(* A sequence begins with another exactly if it has its elements.             *)
LEMMA BeginsSame ==
  ASSUME NEW s \in Seq(Chars), NEW t \in Seq(Chars), Len(s) <= Len(t)
  PROVE  SubSeq(s, 1, Len(s)) = SubSeq(t, 1, Len(s)) <=> \A i \in 1..Len(s) : t[i] = s[i]
<1> DEFINE n == Len(s)
           u == SubSeq(t, 1, n)
<1>1. n \in Nat /\ SubSeq(s, 1, n) = s
  BY SubSeqFull
<1>2. \A i \in 1..n : t[i] \in Chars
  <2>1. \A i \in 1..n : i \in 1..Len(t)
    BY <1>1
  <2> QED BY <2>1, ElementOfSeq
<1>3. /\ u \in Seq(Chars)
      /\ Len(u) = IF 1 <= n THEN n - 1 + 1 ELSE 0
      /\ \A i \in 1..(n - 1 + 1) : u[i] = t[1 + i - 1]
  BY <1>1, <1>2, SubSeqProperties
<1> HIDE DEF u
<1>4. Len(u) = n /\ \A i \in 1..n : u[i] = t[i]
  <2>1. n - 1 + 1 = n /\ (~(1 <= n) => n = 0) /\ \A i \in 1..n : 1 + i - 1 = i
    BY <1>1
  <2> QED BY <1>3, <2>1
<1>5. (\A i \in 1..n : t[i] = s[i]) => s = u
  BY <1>3, <1>4, SeqEqual
<1>6. s = u => \A i \in 1..n : t[i] = s[i]
  BY <1>4
<1> QED BY <1>1, <1>5, <1>6 DEF u

(* Every path has an end: as many characters as are not all followed by       *)
(* slashes alone.                                                             *)
LEMMA SomeEnd ==
  ASSUME NEW path \in Seq(Chars)
  PROVE  \E n : Ends(path, n)
<1> DEFINE N == Len(path)
           S == {i \in 1..N : \E j \in i..N : path[j] # "/"}
           n == Cardinality(S)
<1>1. N \in Nat /\ IsFiniteSet(1..N) /\ Cardinality(1..N) = N
  <2>1. N \in Nat /\ 1 \in Int /\ N \in Int
    OBVIOUS
  <2>2. IsFiniteSet(1..N) /\ Cardinality(1..N) = IF 1 > N THEN 0 ELSE N - 1 + 1
    BY <2>1, FS_Interval
  <2> QED BY <2>1, <2>2
<1>2. IsFiniteSet(S) /\ n \in Nat /\ n <= N
  BY <1>1, FS_Subset, FS_CardinalityType
<1>3. ASSUME NEW i \in S PROVE i <= n
  <2>1. i \in Nat \ {0} /\ (1..i) \in SUBSET S
    BY <1>1
  <2>2. Cardinality(1..i) = IF 1 > i THEN 0 ELSE i - 1 + 1
    BY <2>1, FS_Interval
  <2>3. Cardinality(1..i) <= n
    BY <1>2, <2>1, FS_Subset
  <2> QED BY <2>1, <2>2, <2>3
<1>4. ASSUME NEW i \in 1..N, i \notin S PROVE n < i
  <2>1. i \in Nat \ {0} /\ i - 1 \in Int /\ 1 \in Int
    BY <1>1
  <2>2. S \in SUBSET (1..(i - 1))
    <3> SUFFICES ASSUME NEW k \in S PROVE k <= i - 1
      BY <1>1, <2>1
    <3>1. PICK j \in k..N : path[j] # "/"
      OBVIOUS
    <3>2. ~(j \in i..N)
      BY <1>4, <3>1
    <3> QED BY <1>1, <2>1, <3>1, <3>2
  <2>3. /\ IsFiniteSet(1..(i - 1))
        /\ Cardinality(1..(i - 1)) = IF 1 > i - 1 THEN 0 ELSE (i - 1) - 1 + 1
    BY <2>1, FS_Interval
  <2>4. n <= Cardinality(1..(i - 1))
    BY <2>2, <2>3, FS_Subset
  <2> QED BY <1>2, <2>1, <2>3, <2>4
<1> HIDE DEF n
<1>5. n > 0 => path[n] # "/"
  <2> SUFFICES ASSUME n > 0 PROVE path[n] # "/"
    OBVIOUS
  <2>1. n \in S
    BY <1>1, <1>2, <1>4
  <2>2. PICK j \in n..N : path[j] # "/"
    BY <2>1
  <2>3. j \in S
    BY <1>1, <1>2, <2>2
  <2>4. j = n
    BY <1>1, <1>2, <1>3, <2>3
  <2> QED BY <2>2, <2>4
<1>6. \A i \in (n + 1)..N : path[i] = "/"
  <2> SUFFICES ASSUME NEW i \in (n + 1)..N, path[i] # "/" PROVE FALSE
    OBVIOUS
  <2>1. i \in S
    BY <1>1, <1>2
  <2> QED BY <1>1, <1>2, <1>3, <2>1
<1> QED BY <1>1, <1>2, <1>5, <1>6 DEF Ends

LEMMA Trims ==
  ASSUME NEW path \in Seq(Chars), NEW n, Ends(path, n)
  PROVE  /\ TrimRight(path) = SubSeq(path, 1, n)
         /\ TrimRight(path) \in Seq(Chars) /\ Len(TrimRight(path)) = n
         /\ \A i \in 1..n : TrimRight(path)[i] = path[i]
<1>1. n \in 0..Len(path) /\ Len(path) \in Nat
  BY DEF Ends
<1> DEFINE m == CHOOSE k \in 0..Len(path) : /\ k > 0 => path[k] # "/"
                                            /\ \A i \in (k + 1)..Len(path) : path[i] = "/"
<1>2. \E k \in 0..Len(path) : /\ k > 0 => path[k] # "/"
                              /\ \A i \in (k + 1)..Len(path) : path[i] = "/"
  BY DEF Ends
<1>3. Ends(path, m)
  <2>1. /\ m \in 0..Len(path)
        /\ m > 0 => path[m] # "/"
        /\ \A i \in (m + 1)..Len(path) : path[i] = "/"
    BY <1>2
  <2> HIDE DEF m
  <2> QED BY <2>1 DEF Ends
<1>4. TrimRight(path) = SubSeq(path, 1, m)
  BY DEF TrimRight
<1> HIDE DEF m
<1>5. m = n
  BY <1>3, OneEnd
<1>6. \A i \in 1..n : path[i] \in Chars
  BY <1>1, ElementOfSeq
<1>7. /\ SubSeq(path, 1, n) \in Seq(Chars)
      /\ Len(SubSeq(path, 1, n)) = IF 1 <= n THEN n - 1 + 1 ELSE 0
      /\ \A i \in 1..(n - 1 + 1) : SubSeq(path, 1, n)[i] = path[1 + i - 1]
  BY <1>1, <1>6, SubSeqProperties
<1>8. n - 1 + 1 = n /\ (~(1 <= n) => n = 0) /\ \A i \in 1..n : 1 + i - 1 = i
  BY <1>1
<1>9. /\ TrimRight(path) = SubSeq(path, 1, n)
      /\ SubSeq(path, 1, n) \in Seq(Chars) /\ Len(SubSeq(path, 1, n)) = n
      /\ \A i \in 1..n : SubSeq(path, 1, n)[i] = path[i]
  BY <1>4, <1>5, <1>7, <1>8
<1> QED BY <1>9

(* A path whose last character is no slash is not trimmed.                    *)
LEMMA TrimsOnce ==
  ASSUME NEW path \in Seq(Chars)
  PROVE  TrimRight(TrimRight(path)) = TrimRight(path)
<1>1. PICK n : Ends(path, n)
  BY SomeEnd
<1> DEFINE t == TrimRight(path)
<1>2. t \in Seq(Chars) /\ Len(t) = n /\ n \in Nat /\ \A i \in 1..n : t[i] = path[i]
  BY <1>1, Trims DEF Ends
<1> HIDE DEF t
<1>3. Ends(t, n)
  BY <1>1, <1>2 DEF Ends
<1>4. TrimRight(t) = SubSeq(t, 1, Len(t))
  BY <1>2, <1>3, Trims
<1>5. TrimRight(t) = t
  BY <1>2, <1>4, SubSeqFull
<1> QED BY <1>5 DEF t

(* Spelled the way net/url spells it.                                         *)
ByDefault(path) == \A i \in 1..Len(path) : Default[path[i]] = path[i]

LEMMA DecodesTo ==
  ASSUME NEW path \in Seq(Chars)
  PROVE  /\ Decoded(path) \in Seq(Chars) /\ Len(Decoded(path)) = Len(path)
         /\ \A i \in 1..Len(path) : Decoded(path)[i] = Default[path[i]]
         /\ ByDefault(Decoded(path))
         /\ ByDefault(path) => Decoded(path) = path
<1> DEFINE d == Decoded(path)
<1>1. /\ DOMAIN d = 1..Len(path) /\ Len(path) \in Nat
      /\ \A i \in 1..Len(path) : d[i] = Default[path[i]]
  BY DEF Decoded
<1>2. \A i \in 1..Len(path) : path[i] \in Chars
  BY ElementOfSeq
<1>3. d \in [1..Len(path) -> Chars]
  <2>1. \A c \in Chars : Default[c] \in Chars
    BY CharsAssumption
  <2>2. \A i \in 1..Len(path) : d[i] \in Chars
    BY <1>1, <1>2, <2>1
  <2>3. d = [i \in 1..Len(path) |-> d[i]]
    BY <1>1 DEF Decoded
  <2> QED BY <2>2, <2>3
<1>4. d \in Seq(Chars) /\ Len(d) = Len(path)
  BY <1>1, <1>3
<1>5. ByDefault(d)
  <2>1. \A c \in Chars : Default[Default[c]] = Default[c]
    BY CharsAssumption
  <2> QED BY <1>1, <1>2, <1>4, <2>1 DEF ByDefault
<1>6. ByDefault(path) => d = path
  BY <1>1, <1>4, SeqEqual DEF ByDefault
<1> QED BY <1>1, <1>4, <1>5, <1>6

(* What u.Path is cut to.                                                     *)
Cut(path) == IF Len(path) > 1 THEN TrimRight(path) ELSE path

LEMMA CutsOnce ==
  ASSUME NEW path \in Seq(Chars), ByDefault(path)
  PROVE  /\ Cut(path) \in Seq(Chars) /\ ByDefault(Cut(path))
         /\ Cut(Cut(path)) = Cut(path)
<1>1. CASE ~(Len(path) > 1)
  BY <1>1 DEF Cut
<1>2. CASE Len(path) > 1
  <2>1. PICK n : Ends(path, n)
    BY SomeEnd
  <2>2. n \in 0..Len(path) /\ Len(path) \in Nat
    BY <2>1 DEF Ends
  <2>3. TrimRight(path) \in Seq(Chars) /\ ByDefault(TrimRight(path))
    BY <2>1, <2>2, Trims DEF ByDefault
  <2>4. TrimRight(TrimRight(path)) = TrimRight(path)
    BY TrimsOnce
  <2> QED BY <1>2, <2>3, <2>4 DEF Cut
<1> QED BY <1>1, <1>2

(* A path in default spelling is its own normal form but for its end.         *)
LEMMA DefaultIsCut ==
  ASSUME NEW path \in Seq(Chars), ByDefault(path)
  PROVE  NormalPath(path) = Cut(path)
<1>1. Decoded(path) = path
  BY DecodesTo
<1> QED BY <1>1 DEF NormalPath, Cut

(* A normal form is as the path was, or in default spelling and cut.          *)
LEMMA NormalOrCut ==
  ASSUME NEW path \in Seq(Chars)
  PROVE  \/ NormalPath(path) = path /\ Cut(Decoded(path)) = Decoded(path)
         \/ NormalPath(path) = Cut(Decoded(path))
<1> QED BY DEF NormalPath, Cut

LEMMA PathIsCanonical ==
  ASSUME NEW path \in Seq(Chars)
  PROVE  NormalPath(NormalPath(path)) = NormalPath(path)
<1>1. Decoded(path) \in Seq(Chars) /\ ByDefault(Decoded(path))
  BY DecodesTo
<1>2. CASE NormalPath(path) = path
  BY <1>2
<1>3. CASE NormalPath(path) = Cut(Decoded(path))
  <2>1. NormalPath(Cut(Decoded(path))) = Cut(Cut(Decoded(path)))
    BY <1>1, CutsOnce, DefaultIsCut
  <2> QED BY <1>1, <1>3, <2>1, CutsOnce
<1> QED BY <1>2, <1>3, NormalOrCut

(* Whatever its spelling, of what a path stands for only slashes are cut.     *)
LEMMA NormalDecodes ==
  ASSUME NEW path \in Seq(Chars)
  PROVE  Decoded(NormalPath(path)) = NormalPath(Decoded(path))
<1>1. Decoded(path) \in Seq(Chars) /\ ByDefault(Decoded(path))
  BY DecodesTo
<1>2. NormalPath(Decoded(path)) = Cut(Decoded(path))
  BY <1>1, DefaultIsCut
<1>3. Decoded(Cut(Decoded(path))) = Cut(Decoded(path))
  BY <1>1, CutsOnce, DecodesTo
<1> QED BY <1>2, <1>3, NormalOrCut

(* Paths in default spelling that begin with a slash and name something.      *)
PlainPath ==
    {p \in Seq(Chars) : /\ p # <<>> => p[1] = "/"
                        /\ ByDefault(p)
                        /\ Len(p) > 1 => \E i \in DOMAIN p : p[i] # "/"}

LEMMA PlainIsCut ==
  ASSUME NEW p \in PlainPath
  PROVE  /\ Len(p) <= 1 => NormalPath(p) = p
         /\ Len(p) > 1 => \E n \in 2..Len(p) :
               /\ Ends(p, n) /\ NormalPath(p) \in Seq(Chars) /\ Len(NormalPath(p)) = n
               /\ \A i \in 1..n : NormalPath(p)[i] = p[i]
<1>1. p \in Seq(Chars) /\ Len(p) \in Nat
  BY DEF PlainPath
<1>2. ByDefault(p)
  BY DEF PlainPath
<1>3. NormalPath(p) = IF Len(p) > 1 THEN TrimRight(p) ELSE p
  BY <1>1, <1>2, DefaultIsCut DEF Cut
<1>4. ASSUME Len(p) > 1
      PROVE  \E n \in 2..Len(p) :
               /\ Ends(p, n) /\ NormalPath(p) \in Seq(Chars) /\ Len(NormalPath(p)) = n
               /\ \A i \in 1..n : NormalPath(p)[i] = p[i]
  <2>1. PICK n : Ends(p, n)
    BY <1>1, SomeEnd
  <2>2. PICK i \in 1..Len(p) : p[i] # "/"
    BY <1>1, <1>4 DEF PlainPath
  <2>3. n \in 2..Len(p)
    <3>1. p[1] = "/"
      BY <1>1, <1>4 DEF PlainPath
    <3>2. i # 1 /\ n \in 0..Len(p) /\ ~(i \in (n + 1)..Len(p))
      BY <2>1, <2>2, <3>1 DEF Ends
    <3> QED BY <1>1, <3>2
  <2> QED BY <1>1, <1>3, <1>4, <2>1, <2>3, Trims
<1> QED BY <1>1, <1>3, <1>4

LEMMA SlashedMeet ==
  ASSUME NEW p \in PlainPath, NEW q \in PlainPath, Slashed(p, q)
  PROVE  NormalPath(p) = NormalPath(q)
<1>1. p \in Seq(Chars) /\ q \in Seq(Chars) /\ Len(p) \in Nat /\ Len(q) \in Nat
  BY DEF PlainPath
<1>2. CASE p = q
  BY <1>2
<1>3. CASE p # q
  <2>1. /\ Len(p) > 1 /\ Len(p) <= Len(q) /\ SubSeq(p, 1, Len(p)) = SubSeq(q, 1, Len(p))
        /\ \A i \in (Len(p) + 1)..Len(q) : q[i] = "/"
    BY <1>3 DEF Slashed, IsPrefix
  <2>2. PICK n \in 2..Len(p) :
           /\ Ends(p, n) /\ NormalPath(p) \in Seq(Chars) /\ Len(NormalPath(p)) = n
           /\ \A i \in 1..n : NormalPath(p)[i] = p[i]
    BY <2>1, PlainIsCut
  <2>3. PICK m \in 2..Len(q) :
           /\ Ends(q, m) /\ NormalPath(q) \in Seq(Chars) /\ Len(NormalPath(q)) = m
           /\ \A i \in 1..m : NormalPath(q)[i] = q[i]
    <3>1. Len(q) > 1
      BY <1>1, <2>1
    <3> QED BY <3>1, PlainIsCut
  <2>4. \A i \in 1..Len(p) : q[i] = p[i]
    BY <1>1, <2>1, BeginsSame
  <2>5. Ends(q, n)
    <3>1. n \in 0..Len(q) /\ q[n] = p[n] /\ p[n] # "/"
      BY <1>1, <2>1, <2>2, <2>4 DEF Ends
    <3>2. \A i \in (n + 1)..Len(q) : q[i] = "/"
      <4> SUFFICES ASSUME NEW i \in (n + 1)..Len(q) PROVE q[i] = "/"
        OBVIOUS
      <4>1. CASE i <= Len(p)
        <5>1. i \in (n + 1)..Len(p) /\ i \in 1..Len(p)
          BY <1>1, <4>1
        <5> QED BY <2>2, <2>4, <5>1 DEF Ends
      <4>2. CASE i > Len(p)
        BY <1>1, <2>1, <4>2
      <4> QED BY <1>1, <4>1, <4>2
    <3> QED BY <3>1, <3>2 DEF Ends
  <2>6. m = n
    BY <1>1, <2>3, <2>5, OneEnd
  <2>7. \A i \in 1..n : NormalPath(p)[i] = NormalPath(q)[i]
    BY <1>1, <2>2, <2>3, <2>4, <2>6
  <2> QED BY <2>2, <2>3, <2>6, <2>7, SeqEqual
<1> QED BY <1>2, <1>3

LEMMA MeetSlashed ==
  ASSUME NEW p \in PlainPath, NEW q \in PlainPath, NormalPath(p) = NormalPath(q),
         Len(p) <= Len(q)
  PROVE  Slashed(p, q)
<1>1. p \in Seq(Chars) /\ q \in Seq(Chars) /\ Len(p) \in Nat /\ Len(q) \in Nat
  BY DEF PlainPath
<1>2. CASE Len(q) <= 1
  BY <1>1, <1>2, PlainIsCut DEF Slashed
<1>3. CASE Len(q) > 1
  <2>1. PICK m \in 2..Len(q) :
           /\ Ends(q, m) /\ Len(NormalPath(q)) = m
           /\ \A i \in 1..m : NormalPath(q)[i] = q[i]
    BY <1>3, PlainIsCut
  <2>2. Len(p) > 1
    <3> SUFFICES ASSUME Len(p) <= 1 PROVE FALSE
      BY <1>1
    <3>1. NormalPath(p) = p
      BY PlainIsCut
    <3> QED BY <1>1, <2>1, <3>1
  <2>3. PICK n \in 2..Len(p) :
           /\ Ends(p, n) /\ Len(NormalPath(p)) = n
           /\ \A i \in 1..n : NormalPath(p)[i] = p[i]
    BY <2>2, PlainIsCut
  <2>4. n = m
    BY <2>1, <2>3
  <2>5. \A i \in 1..Len(p) : q[i] = p[i]
    <3> SUFFICES ASSUME NEW i \in 1..Len(p) PROVE q[i] = p[i]
      OBVIOUS
    <3>1. CASE i <= n
      <4>1. i \in 1..n
        BY <1>1, <3>1
      <4> QED BY <2>1, <2>3, <2>4, <4>1
    <3>2. CASE i > n
      <4>1. i \in (n + 1)..Len(p) /\ i \in (n + 1)..Len(q)
        BY <1>1, <3>2
      <4> QED BY <2>1, <2>3, <2>4, <4>1 DEF Ends
    <3> QED BY <1>1, <3>1, <3>2
  <2>6. SubSeq(p, 1, Len(p)) = SubSeq(q, 1, Len(p))
    BY <1>1, <2>5, BeginsSame
  <2>7. \A i \in (Len(p) + 1)..Len(q) : q[i] = "/"
    <3>1. \A i \in (Len(p) + 1)..Len(q) : i \in (m + 1)..Len(q)
      BY <1>1, <2>3, <2>4
    <3> QED BY <2>1, <3>1 DEF Ends
  <2> QED BY <2>2, <2>6, <2>7 DEF Slashed, IsPrefix
<1> QED BY <1>1, <1>2, <1>3

(* Two plain paths have one canonical form exactly if one is the other with   *)
(* slashes at its end.                                                        *)
LEMMA PathsMeet ==
  ASSUME NEW p \in PlainPath, NEW q \in PlainPath
  PROVE  NormalPath(p) = NormalPath(q) <=> Slashed(p, q) \/ Slashed(q, p)
<1>1. Len(p) <= Len(q) \/ Len(q) <= Len(p)
  BY DEF PlainPath
<1> QED BY <1>1, SlashedMeet, MeetSlashed

----------------------------------------------------------------------------
(* Canonical URLs: queries.                                                   *)
Query == Seq([key : Nat, value : STRING])

(* The place of a pair among all, by key and then as they came.               *)
Place(q, i) == Cardinality(NotAfter(q, i))

Before(q, i, j) == q[i].key < q[j].key \/ (q[i].key = q[j].key /\ i < j)

LEMMA QueryType ==
  ASSUME NEW q \in Query
  PROVE  /\ Len(q) \in Nat /\ DOMAIN q = 1..Len(q)
         /\ \A i \in 1..Len(q) : i \in Nat /\ q[i] \in [key : Nat, value : STRING]
                                 /\ q[i].key \in Nat
<1>1. Len(q) \in Nat /\ DOMAIN q = 1..Len(q)
  BY DEF Query
<1>2. \A i \in 1..Len(q) : q[i] \in [key : Nat, value : STRING]
  BY ElementOfSeq DEF Query
<1> QED BY <1>1, <1>2

LEMMA PlacesFollow ==
  ASSUME NEW q \in Query, NEW i \in 1..Len(q), NEW j \in 1..Len(q), Before(q, i, j)
  PROVE  Place(q, i) < Place(q, j)
<1> DEFINE D == 1..Len(q)
<1>1. /\ Len(q) \in Nat /\ DOMAIN q = D /\ i \in Nat /\ j \in Nat
      /\ \A k \in D : k \in Nat /\ q[k].key \in Nat
  BY QueryType
<1>2. IsFiniteSet(D)
  BY <1>1, FS_Interval
<1>3. NotAfter(q, i) \in SUBSET D /\ NotAfter(q, j) \in SUBSET D /\ j \in NotAfter(q, j)
  BY <1>1 DEF NotAfter
<1>4. NotAfter(q, i) \in SUBSET (NotAfter(q, j) \ {j})
  <2> SUFFICES ASSUME NEW k \in NotAfter(q, i) PROVE k \in NotAfter(q, j) /\ k # j
    OBVIOUS
  <2>1. k \in D /\ (q[k].key < q[i].key \/ (q[k].key = q[i].key /\ k <= i))
    BY <1>1 DEF NotAfter
  <2>2. Before(q, k, j)
    BY <1>1, <2>1 DEF Before
  <2>3. k \in NotAfter(q, j)
    BY <1>1, <2>1, <2>2 DEF NotAfter, Before
  <2>4. k # j
    BY <1>1, <2>1, <2>2 DEF Before
  <2> QED BY <2>3, <2>4
<1>5. /\ IsFiniteSet(NotAfter(q, j) \ {j}) /\ Place(q, j) \in Nat
      /\ Cardinality(NotAfter(q, j) \ {j}) = Place(q, j) - 1
  BY <1>2, <1>3, FS_Subset, FS_RemoveElement, FS_CardinalityType DEF Place
<1>6. Place(q, i) \in Nat /\ Place(q, i) <= Place(q, j) - 1
  BY <1>4, <1>5, FS_Subset, FS_CardinalityType DEF Place
<1> QED BY <1>5, <1>6

(* Every pair has one place, and every place one pair.                        *)
LEMMA Places ==
  ASSUME NEW q \in Query
  PROVE  /\ \A i \in 1..Len(q) : Place(q, i) \in 1..Len(q)
         /\ \A i, j \in 1..Len(q) : Place(q, i) = Place(q, j) => i = j
         /\ \A n \in 1..Len(q) : \E i \in 1..Len(q) : Place(q, i) = n
<1> DEFINE D == 1..Len(q)
           f == [i \in D |-> Place(q, i)]
<1>1. /\ Len(q) \in Nat /\ DOMAIN q = D
      /\ \A k \in D : k \in Nat /\ q[k].key \in Nat
  BY QueryType
<1>2. IsFiniteSet(D) /\ Cardinality(D) = Len(q)
  <2>1. IsFiniteSet(D) /\ Cardinality(D) = IF 1 > Len(q) THEN 0 ELSE Len(q) - 1 + 1
    BY <1>1, FS_Interval
  <2> QED BY <1>1, <2>1
<1>3. ASSUME NEW i \in D PROVE Place(q, i) \in D
  <2>1. NotAfter(q, i) \in SUBSET D /\ i \in NotAfter(q, i)
    BY <1>1 DEF NotAfter
  <2>2. Place(q, i) \in Nat /\ Place(q, i) <= Len(q)
    BY <1>2, <2>1, FS_Subset, FS_CardinalityType DEF Place
  <2>3. Place(q, i) # 0
    BY <1>2, <2>1, FS_Subset, FS_EmptySet DEF Place
  <2> QED BY <1>1, <2>2, <2>3
<1>4. ASSUME NEW i \in D, NEW j \in D, Place(q, i) = Place(q, j) PROVE i = j
  <2>1. Place(q, i) \in Nat
    BY <1>1, <1>3
  <2>2. ~Before(q, i, j) /\ ~Before(q, j, i)
    BY <1>4, <2>1, PlacesFollow
  <2> QED BY <1>1, <2>2 DEF Before
<1>5. f \in Injection(D, D)
  BY <1>3, <1>4 DEF Injection, IsInjective
<1>6. f \in Surjection(D, D)
  BY <1>2, <1>5, FS_Injection
<1>7. \A n \in D : \E i \in D : Place(q, i) = n
  BY <1>6 DEF Surjection
<1> QED BY <1>3, <1>4, <1>7

LEMMA Sorts ==
  ASSUME NEW q \in Query
  PROVE  /\ SortedQuery(q) \in Query /\ Len(SortedQuery(q)) = Len(q)
         /\ \A i \in 1..Len(q) : SortedQuery(q)[Place(q, i)] = q[i]
<1> DEFINE D == 1..Len(q)
           r == SortedQuery(q)
           at(n) == CHOOSE i \in D : Cardinality(NotAfter(q, i)) = n
<1>1. /\ Len(q) \in Nat /\ DOMAIN q = D
      /\ \A k \in D : q[k] \in [key : Nat, value : STRING]
  BY QueryType
<1>2. ASSUME NEW n \in D PROVE at(n) \in D /\ Place(q, at(n)) = n
  <2>1. \E i \in D : Cardinality(NotAfter(q, i)) = n
    BY Places DEF Place
  <2> QED BY <2>1 DEF Place
<1>3. r = [n \in D |-> q[at(n)]]
  BY <1>1 DEF SortedQuery
<1> HIDE DEF at, r
<1>4. r \in [D -> [key : Nat, value : STRING]]
  BY <1>1, <1>2, <1>3
<1>5. r \in Query /\ Len(r) = Len(q)
  BY <1>1, <1>4 DEF Query
<1>6. ASSUME NEW i \in D PROVE r[Place(q, i)] = q[i]
  <2>1. Place(q, i) \in D
    BY Places
  <2>2. at(Place(q, i)) \in D /\ Place(q, at(Place(q, i))) = Place(q, i)
    BY <1>2, <2>1
  <2>3. at(Place(q, i)) = i
    BY <2>2, Places
  <2> QED BY <1>3, <2>1, <2>3
<1> QED BY <1>5, <1>6 DEF r

LEMMA QueryIsCanonical ==
  ASSUME NEW q \in Query
  PROVE  SortedQuery(SortedQuery(q)) = SortedQuery(q)
<1> DEFINE r == SortedQuery(q)
           D == 1..Len(q)
<1>1. r \in Query /\ Len(r) = Len(q) /\ \A i \in D : r[Place(q, i)] = q[i]
  BY Sorts
<1> HIDE DEF r
<1>2. /\ Len(q) \in Nat /\ DOMAIN r = D
      /\ \A n \in D : n \in Nat /\ r[n].key \in Nat /\ q[n].key \in Nat
  BY <1>1, QueryType
<1>3. ASSUME NEW m \in D, NEW n \in D, m < n PROVE r[m].key <= r[n].key
  <2>1. PICK i \in D : Place(q, i) = m
    BY Places
  <2>2. PICK j \in D : Place(q, j) = n
    BY Places
  <2>3. r[m] = q[i] /\ r[n] = q[j]
    BY <1>1, <2>1, <2>2
  <2>4. ~(q[j].key < q[i].key)
    <3> SUFFICES ASSUME q[j].key < q[i].key PROVE FALSE
      OBVIOUS
    <3>1. Place(q, j) < Place(q, i)
      BY PlacesFollow DEF Before
    <3> QED BY <1>2, <1>3, <2>1, <2>2, <3>1
  <2> QED BY <1>2, <2>3, <2>4
<1>4. ASSUME NEW n \in D PROVE Place(r, n) = n
  <2>1. NotAfter(r, n) = 1..n
    <3>1. ASSUME NEW k \in 1..n PROVE k \in NotAfter(r, n)
      <4>1. k \in D /\ k \in Nat /\ (k < n \/ k = n)
        BY <1>2
      <4>2. r[k].key <= r[n].key
        BY <1>2, <1>3, <4>1
      <4> QED BY <1>2, <4>1, <4>2 DEF NotAfter
    <3>2. ASSUME NEW k \in NotAfter(r, n) PROVE k \in 1..n
      <4>1. k \in D /\ (r[k].key < r[n].key \/ (r[k].key = r[n].key /\ k <= n))
        BY <1>2 DEF NotAfter
      <4>2. ~(n < k)
        BY <1>2, <1>3, <4>1
      <4> QED BY <1>2, <4>1, <4>2
    <3> QED BY <3>1, <3>2
  <2>2. n \in Nat \ {0}
    BY <1>2
  <2>3. Cardinality(1..n) = IF 1 > n THEN 0 ELSE n - 1 + 1
    BY <2>2, FS_Interval
  <2> QED BY <2>1, <2>2, <2>3 DEF Place
<1>5. /\ SortedQuery(r) \in Query /\ Len(SortedQuery(r)) = Len(r)
      /\ \A n \in D : SortedQuery(r)[n] = r[n]
  <2>1. \A n \in D : SortedQuery(r)[Place(r, n)] = r[n]
    BY <1>1, Sorts
  <2> QED BY <1>1, <1>4, <2>1, Sorts
<1>6. SortedQuery(r) = r
  BY <1>1, <1>5, SeqEqual DEF Query
<1> QED BY <1>6 DEF r

LEMMA ReorderedMeet ==
  ASSUME NEW p \in Query, NEW q \in Query, Reordered(p, q)
  PROVE  SortedQuery(p) = SortedQuery(q)
<1> DEFINE D == 1..Len(p)
           E == 1..Len(q)
<1>1. /\ Len(p) \in Nat /\ Len(q) \in Nat /\ DOMAIN p = D /\ DOMAIN q = E
      /\ \A i \in D : i \in Nat /\ p[i].key \in Nat
      /\ \A i \in E : i \in Nat /\ q[i].key \in Nat
  BY QueryType
<1>2. PICK place \in Bijection(D, E) :
        /\ \A i \in D : q[place[i]] = p[i]
        /\ \A i, j \in D : p[i].key = p[j].key /\ i < j => place[i] < place[j]
  BY <1>1 DEF Reordered
<1>3. /\ place \in [D -> E] /\ \A i, j \in D : place[i] = place[j] => i = j
      /\ \A k \in E : \E i \in D : place[i] = k
  <2>1. place \in Bijection(D, E)
    BY <1>2
  <2> HIDE DEF D, E
  <2>2. /\ place \in [D -> E]
        /\ \A a, b \in D : place[a] = place[b] => a = b
        /\ \A t \in E : \E s \in D : place[s] = t
    BY <2>1, Fun_BijectionProperties
  <2> QED BY <2>2
<1>4. /\ IsFiniteSet(D)
      /\ Cardinality(D) = IF 1 > Len(p) THEN 0 ELSE Len(p) - 1 + 1
  <2>1. 1 \in Int /\ Len(p) \in Int
    BY <1>1
  <2> QED BY <2>1, FS_Interval
<1>5. Len(p) = Len(q)
  <2>1. Cardinality(E) = Cardinality(D)
    BY <1>2, <1>4, FS_Bijection DEF ExistsBijection
  <2>2. 1 \in Int /\ Len(q) \in Int
    BY <1>1
  <2>3. Cardinality(E) = IF 1 > Len(q) THEN 0 ELSE Len(q) - 1 + 1
    BY <2>2, FS_Interval
  <2> HIDE DEF D, E
  <2> QED BY <1>1, <1>4, <2>1, <2>3
<1>6. ASSUME NEW i \in D PROVE Place(q, place[i]) = Place(p, i)
  <2> DEFINE P == NotAfter(p, i)
             Q == NotAfter(q, place[i])
             g == [j \in P |-> place[j]]
  <2>1. P = {j \in D : p[j].key < p[i].key \/ (p[j].key = p[i].key /\ j <= i)}
    BY <1>1 DEF NotAfter
  <2>2. Q = {k \in E : q[k].key < p[i].key \/ (q[k].key = p[i].key /\ k <= place[i])}
    BY <1>1, <1>2 DEF NotAfter
  <2>3. place[i] \in E /\ place[i] \in Nat /\ i \in Nat
    BY <1>1, <1>3
  <2> HIDE DEF P, Q
  <2>4. \A j \in P : place[j] \in Q
    <3> SUFFICES ASSUME NEW j \in P PROVE place[j] \in Q
      OBVIOUS
    <3>1. /\ j \in D /\ place[j] \in E /\ q[place[j]] = p[j] /\ place[j] \in Nat
          /\ p[j].key < p[i].key \/ (p[j].key = p[i].key /\ j <= i)
      BY <1>1, <1>2, <1>3, <2>1
    <3>2. CASE p[j].key < p[i].key
      BY <2>2, <3>1, <3>2
    <3>3. CASE p[j].key = p[i].key /\ j <= i
      <4>1. j = i \/ j < i
        BY <1>1, <3>1, <3>3
      <4>2. place[j] <= place[i]
        BY <1>2, <2>3, <3>1, <3>3, <4>1
      <4> QED BY <2>2, <3>1, <3>3, <4>2
    <3> QED BY <3>1, <3>2, <3>3
  <2>5. \A k \in Q : \E j \in P : place[j] = k
    <3> SUFFICES ASSUME NEW k \in Q PROVE \E j \in P : place[j] = k
      OBVIOUS
    <3>1. k \in E /\ (q[k].key < p[i].key \/ (q[k].key = p[i].key /\ k <= place[i]))
      BY <2>2
    <3>2. PICK j \in D : place[j] = k
      BY <1>3, <3>1
    <3>3. p[j].key < p[i].key \/ (p[j].key = p[i].key /\ place[j] <= place[i])
      BY <1>2, <3>1, <3>2
    <3>4. CASE p[j].key < p[i].key
      BY <2>1, <3>2, <3>4
    <3>5. CASE p[j].key = p[i].key /\ place[j] <= place[i]
      <4>1. ~(i < j)
        <5>1. place[i] \in Nat /\ place[j] \in Nat
          BY <1>1, <1>3, <2>3
        <5>2. i < j => place[i] < place[j]
          BY <1>2, <3>5
        <5> QED BY <3>5, <5>1, <5>2
      <4>2. j <= i
        BY <1>1, <4>1
      <4> QED BY <2>1, <3>2, <3>5, <4>2
    <3> QED BY <3>3, <3>4, <3>5
  <2>6. g \in Bijection(P, Q)
    <3>1. g \in [P -> Q]
      BY <2>4
    <3>2. P \subseteq D
      BY <2>1
    <3>3. \A a, b \in P : g[a] = g[b] => a = b
      BY <1>3, <3>2
    <3>4. \A k \in Q : \E j \in P : g[j] = k
      BY <2>5
    <3> QED BY <3>1, <3>3, <3>4, Fun_IsBij
  <2>7. IsFiniteSet(P)
    <3>1. P \in SUBSET D
      BY <2>1
    <3> QED BY <1>4, <3>1, FS_Subset
  <2>8. Cardinality(Q) = Cardinality(P)
    BY <2>6, <2>7, FS_Bijection DEF ExistsBijection
  <2> QED BY <2>8 DEF Place, P, Q
<1>7. /\ SortedQuery(p) \in Query /\ Len(SortedQuery(p)) = Len(p)
      /\ SortedQuery(q) \in Query /\ Len(SortedQuery(q)) = Len(q)
  BY Sorts
<1>8. \A n \in D : SortedQuery(p)[n] = SortedQuery(q)[n]
  <2> SUFFICES ASSUME NEW n \in D PROVE SortedQuery(p)[n] = SortedQuery(q)[n]
    OBVIOUS
  <2>1. PICK i \in D : Place(p, i) = n
    BY Places
  <2>2. place[i] \in E /\ Place(q, place[i]) = n
    BY <1>3, <1>6, <2>1
  <2>3. SortedQuery(p)[n] = p[i]
    BY <2>1, Sorts
  <2>4. SortedQuery(q)[n] = q[place[i]]
    BY <2>2, Sorts
  <2> QED BY <1>2, <2>3, <2>4
<1> QED BY <1>5, <1>7, <1>8, SeqEqual DEF Query

LEMMA MeetReordered ==
  ASSUME NEW p \in Query, NEW q \in Query, SortedQuery(p) = SortedQuery(q)
  PROVE  Reordered(p, q)
<1> DEFINE D == 1..Len(p)
           r == SortedQuery(p)
           place == [i \in D |-> CHOOSE j \in D : Place(q, j) = Place(p, i)]
<1>1. Len(q) = Len(p)
  BY Sorts
<1>2. /\ DOMAIN p = D /\ DOMAIN q = D
      /\ \A i \in D : i \in Nat /\ p[i].key \in Nat /\ q[i].key \in Nat
  BY <1>1, QueryType
<1>3. /\ \A i \in D : Place(p, i) \in D /\ Place(q, i) \in D
      /\ \A i, j \in D : Place(p, i) = Place(p, j) => i = j
      /\ \A i, j \in D : Place(q, i) = Place(q, j) => i = j
      /\ \A n \in D : \E i \in D : Place(p, i) = n
      /\ \A n \in D : \E i \in D : Place(q, i) = n
  BY <1>1, Places
<1>4. \A i \in D : r[Place(p, i)] = p[i] /\ r[Place(q, i)] = q[i]
  BY <1>1, Sorts
<1>5. ASSUME NEW i \in D PROVE place[i] \in D /\ Place(q, place[i]) = Place(p, i)
  <2>1. \E j \in D : Place(q, j) = Place(p, i)
    BY <1>3
  <2> QED BY <2>1
<1> HIDE DEF r
<1>6. place \in [D -> D]
  BY <1>5
<1> HIDE DEF place
<1>7. \A i \in D : q[place[i]] = p[i]
  BY <1>4, <1>5
<1>8. \A i, j \in D : place[i] = place[j] => i = j
  BY <1>3, <1>5
<1>9. ASSUME NEW k \in D PROVE \E i \in D : place[i] = k
  <2>1. PICK i \in D : Place(p, i) = Place(q, k)
    BY <1>3
  <2>2. place[i] \in D /\ Place(q, place[i]) = Place(q, k)
    BY <1>5, <2>1
  <2> QED BY <1>3, <2>2
<1>10. place \in Bijection(D, D)
  BY <1>6, <1>8, <1>9, Fun_IsBij
<1>11. ASSUME NEW i \in D, NEW j \in D, p[i].key = p[j].key, i < j
       PROVE  place[i] < place[j]
  <2>1. Place(p, i) < Place(p, j)
    BY <1>11, PlacesFollow DEF Before
  <2>2. place[i] \in D /\ place[j] \in D /\ place[i] # place[j]
    BY <1>2, <1>5, <1>8, <1>11
  <2>3. ~(place[j] < place[i])
    <3> SUFFICES ASSUME place[j] < place[i] PROVE FALSE
      OBVIOUS
    <3>1. Before(q, place[j], place[i])
      BY <1>7, <1>11 DEF Before
    <3>2. Place(q, place[j]) < Place(q, place[i])
      BY <1>1, <2>2, <3>1, PlacesFollow
    <3> QED BY <1>2, <1>3, <1>5, <2>1, <3>2
  <2> QED BY <1>2, <2>2, <2>3
<1> QED BY <1>2, <1>7, <1>10, <1>11 DEF Reordered

----------------------------------------------------------------------------
(* Canonical URLs: the whole of them.                                         *)
LEMMA URLType ==
  ASSUME NEW u \in ParsedURL
  PROVE  /\ u.path \in Seq(Chars) /\ u.query \in Query
         /\ Named(u) => Decoded(u.path) \in PlainPath
         /\ Plain(u) => Named(u) /\ Decoded(u.path) = u.path
<1>1. /\ u.path \in Seq(Chars) /\ u.query \in Query
      /\ u.path # <<>> => u.path[1] = "/"
  BY DEF ParsedURL, Query
<1> DEFINE d == Decoded(u.path)
<1>2. /\ d \in Seq(Chars) /\ Len(d) = Len(u.path)
      /\ \A i \in 1..Len(u.path) : d[i] = Default[u.path[i]]
      /\ ByDefault(d)
      /\ ByDefault(u.path) => d = u.path
  BY <1>1, DecodesTo
<1> HIDE DEF d
<1>3. ASSUME Named(u) PROVE d \in PlainPath
  <2>1. d # <<>> => d[1] = "/"
    BY <1>1, <1>2, CharsAssumption
  <2>2. Len(d) > 1 => \E i \in DOMAIN d : d[i] # "/"
    BY <1>1, <1>2, <1>3 DEF Named
  <2> QED BY <1>2, <2>1, <2>2 DEF PlainPath
<1>4. ASSUME Plain(u) PROVE Named(u) /\ d = u.path
  BY <1>1, <1>2, <1>4 DEF Plain, ByDefault
<1> QED BY <1>1, <1>3, <1>4 DEF d

(* What is normal stays as it is, for every URL and whatever is escaped in    *)
(* its path (util/url.go:18; rule 3 of url_fuzz_test.go:29).                  *)
THEOREM NormalisesOnce ==
  ASSUME NEW u \in ParsedURL
  PROVE  Normalise(Normalise(u)) = Normalise(u)
<1>1. u.path \in Seq(Chars) /\ u.query \in Query
  BY URLType
<1>2. NormalPath(NormalPath(u.path)) = NormalPath(u.path)
  BY <1>1, PathIsCanonical
<1>3. SortedQuery(SortedQuery(u.query)) = SortedQuery(u.query)
  BY <1>1, QueryIsCanonical
<1>4. \A s : ToLower(ToLower(s)) = ToLower(s)
  BY DEF ToLower
<1> QED BY <1>2, <1>3, <1>4 DEF Normalise

LEMMA NormaliseParts ==
  ASSUME NEW u, NEW v
  PROVE  Normalise(u) = Normalise(v) <=>
            /\ ToLower(u.scheme) = ToLower(v.scheme)
            /\ ToLower(u.host) = ToLower(v.host)
            /\ u.rest = v.rest
            /\ NormalPath(u.path) = NormalPath(v.path)
            /\ SortedQuery(u.query) = SortedQuery(v.query)
BY DEF Normalise

(* Two URLs have one normal form only if they are spellings of one address,   *)
(* whatever is escaped in their paths: normalising joins no two addresses     *)
(* (util/url.go:10).                                                          *)
THEOREM AddressesStayApart ==
  ASSUME NEW u \in ParsedURL, NEW v \in ParsedURL, Named(u), Named(v),
         Normalise(u) = Normalise(v)
  PROVE  SameAddress(u, v)
<1>1. /\ u.path \in Seq(Chars) /\ u.query \in Query
      /\ v.path \in Seq(Chars) /\ v.query \in Query
      /\ Decoded(u.path) \in PlainPath /\ Decoded(v.path) \in PlainPath
  BY URLType
<1>2. /\ ToLower(u.scheme) = ToLower(v.scheme) /\ ToLower(u.host) = ToLower(v.host)
      /\ u.rest = v.rest /\ NormalPath(u.path) = NormalPath(v.path)
      /\ SortedQuery(u.query) = SortedQuery(v.query)
  BY NormaliseParts
<1>3. Reordered(u.query, v.query)
  BY <1>1, <1>2, MeetReordered
<1>4. NormalPath(Decoded(u.path)) = NormalPath(Decoded(v.path))
  BY <1>1, <1>2, NormalDecodes
<1>5. \/ Slashed(Decoded(u.path), Decoded(v.path))
      \/ Slashed(Decoded(v.path), Decoded(u.path))
  BY <1>1, <1>4, PathsMeet
<1> QED BY <1>2, <1>3, <1>5 DEF SameAddress

(* Two URLs whose paths are in default spelling have one normal form exactly  *)
(* if they are spellings of one address: the form is canonical, it neither    *)
(* splits an address nor joins two (util/url.go:10).                          *)
THEOREM SameIsSameAddress ==
  ASSUME NEW u \in ParsedURL, NEW v \in ParsedURL, Plain(u), Plain(v)
  PROVE  Normalise(u) = Normalise(v) <=> SameAddress(u, v)
<1>1. /\ u.query \in Query /\ u.path \in PlainPath /\ Decoded(u.path) = u.path
      /\ v.query \in Query /\ v.path \in PlainPath /\ Decoded(v.path) = v.path
  BY URLType
<1>2. SortedQuery(u.query) = SortedQuery(v.query) <=> Reordered(u.query, v.query)
  BY <1>1, ReorderedMeet, MeetReordered
<1>3. NormalPath(u.path) = NormalPath(v.path)
         <=> Slashed(u.path, v.path) \/ Slashed(v.path, u.path)
  BY <1>1, PathsMeet
<1> QED BY <1>1, <1>2, <1>3, NormaliseParts DEF SameAddress

----------------------------------------------------------------------------
(* Canonical URLs: what requests to shorten store.                            *)
CanonOf(w) ==
    writer[w].kind = "shorten" /\ writer[w].pc # "idle" =>
        /\ writer[w].url \in RawURLs
        /\ writer[w].pc # "400" => Supported(writer[w].url)
        /\ \A l \in Made(w) : row[l].url = Normalise(writer[w].url)

ByWriters == \A l \in Links : ~Unused(l) => row[l].by \in Writers

CanonInv == ByWriters /\ \A w \in Writers : CanonOf(w)

LEMMA InsertedByWriter ==
  ASSUME TableInv, ByWriters, NEW w \in Writers, NEW c, NEW url, Inserted(w, c, url)
  PROVE  ByWriters'
<1>1. PICK l \in Links : row' = [row EXCEPT ![l] = NewRow(w, c, url)]
  BY DEF Inserted
<1>2. NewRow(w, c, url).by = w
  BY DEF NewRow
<1>3. row'[l] = NewRow(w, c, url) /\ \A m \in Links \ {l} : row'[m] = row[m]
  BY <1>1 DEF TableInv
<1> QED BY <1>2, <1>3 DEF ByWriters, Unused

(* The requests that do not move.                                             *)
LEMMA OthersCanon ==
  ASSUME CanonInv, NEW v \in Writers, writer'[v] = writer[v], Made(v)' = Made(v),
         \A m \in Links : ~Unused(m) => row'[m] = row[m]
  PROVE  CanonOf(v)'
<1>1. \A m \in Made(v) : row'[m] = row[m]
  BY DEF Made
<1> QED BY <1>1 DEF CanonInv, CanonOf

LEMMA ShortenCanon ==
  ASSUME TableInv, OnceInv, CanonInv, NEW w \in Writers, NEW c,
         \/ \E u \in Users, url \in RawURLs : BeginShorten(w, u, url)
         \/ Created(w, c) \/ Collided(w, c) \/ CreateFails(w, c)
  PROVE  CanonOf(w)'
<1> WriterType /\ OnceOf(w) /\ CanonOf(w)
  BY DEF OnceInv, CanonInv
<1>1. CASE \E u \in Users, url \in RawURLs : BeginShorten(w, u, url)
  <2>1. PICK u \in Users, url \in RawURLs, pc \in {"draw", "400"} :
           /\ writer[w].pc = "idle" /\ UNCHANGED row
           /\ pc # "400" => Supported(url)
           /\ Set(w, [pc |-> pc, kind |-> "shorten", user |-> u, url |-> url])
    BY <1>1 DEF BeginShorten
  <2>2. writer'[w].url = url /\ writer'[w].pc = pc
    BY <2>1, SetEffect DEF Fields
  <2>3. Made(w)' = {}
    BY <2>1, SameMade DEF OnceOf
  <2> QED BY <2>1, <2>2, <2>3 DEF CanonOf
<1>2. CASE Created(w, c) \/ Collided(w, c) \/ CreateFails(w, c)
  <2> DEFINE url == writer[w].url
  <2>1. writer[w].pc = "draw" /\ Made(w) = {} /\ url \in RawURLs /\ Supported(url)
    BY <1>2 DEF OnceOf, CanonOf, Created, Collided, CreateFails
  <2>2. PICK next : Set(w, next) /\ "url" \notin DOMAIN next
    <3>1. CASE Created(w, c)
      <4>1. Set(w, [pc |-> "201", code |-> c])
        BY <3>1 DEF Created
      <4> QED BY <4>1
    <3>2. CASE Collided(w, c)
      <4>1. PICK pc \in {"draw", "no code"} :
               Set(w, [attempts |-> writer[w].attempts + 1, pc |-> pc])
        BY <3>2 DEF Collided
      <4> DEFINE next == [attempts |-> writer[w].attempts + 1, pc |-> pc]
      <4>2. DOMAIN next = {"attempts", "pc"}
        OBVIOUS
      <4>3. Set(w, next)
        BY <4>1
      <4> HIDE DEF next
      <4> QED BY <4>2, <4>3
    <3>3. CASE CreateFails(w, c)
      <4>1. Set(w, [pc |-> "500"])
        BY <3>3 DEF CreateFails
      <4> QED BY <4>1
    <3> QED BY <1>2, <3>1, <3>2, <3>3
  <2>3. writer'[w].url = url
    BY <2>2, SetEffect DEF Fields
  <2>4. UNCHANGED row \/ Inserted(w, c, Normalise(url))
    BY <1>2 DEF Created, Collided, CreateFails, Failed
  <2>5. \A l \in Made(w)' : row'[l].url = Normalise(url)
    <3>1. CASE UNCHANGED row
      BY <2>1, <3>1, SameMade
    <3>2. CASE Inserted(w, c, Normalise(url))
      <4>1. \E l \in Links : Made(w)' = Made(w) \cup {l} /\ row'[l].url = Normalise(url)
        BY <3>2, InsertedMakes
      <4> QED BY <2>1, <4>1
    <3> QED BY <2>4, <3>1, <3>2
  <2> QED BY <2>1, <2>3, <2>5 DEF CanonOf
<1> QED BY <1>1, <1>2

LEMMA NextCanon == Inv /\ OnceInv /\ CanonInv /\ [Next]_vars => CanonInv'
<1> SUFFICES ASSUME Inv, OnceInv, CanonInv, [Next]_vars PROVE CanonInv'
  OBVIOUS
<1>1. TableInv /\ WriterType
  BY DEF Inv, OnceInv
<1>2. CASE UNCHANGED <<row, writer>>
  <2>1. \A w \in Writers : CanonOf(w)'
    BY <1>2, SameMade, OthersCanon
  <2>2. ByWriters'
    BY <1>2 DEF CanonInv, ByWriters, Unused
  <2> QED BY <2>1, <2>2 DEF CanonInv
<1>3. ASSUME NEW w \in Writers, WriterStep(w) PROVE CanonInv'
  <2>1. CanonOf(w)'
    <3>1. CASE \E u \in Users, url \in RawURLs : BeginShorten(w, u, url)
      BY <1>1, <3>1, ShortenCanon
    <3>2. CASE \E c \in Codes : Created(w, c) \/ Collided(w, c) \/ CreateFails(w, c)
      BY <1>1, <3>2, ShortenCanon
    <3>3. CASE \/ \E u \in Users, file \in Files : BeginImport(w, u, file)
               \/ \E u \in Users : ImportRefused(w, u)
               \/ SkipRow(w) \/ ReadRow(w) \/ UnreadableRow(w) \/ EndOfFile(w)
      BY <1>1, <3>3, ImportKeeps DEF CanonOf
    <3>4. CASE \E c \in Codes : CreateRow(w, c) \/ CreateRowFails(w, c)
      BY <1>1, <3>4, ImportKeeps DEF CanonOf
    <3> QED BY <1>3, <3>1, <3>2, <3>3, <3>4 DEF WriterStep
  <2>2. UNCHANGED row \/ \E c, url : Inserted(w, c, url)
    BY <1>3 DEF WriterStep, BeginShorten, BeginImport, ImportRefused, Created, Collided,
       CreateFails, CreateRow, CreateRowFails, Failed, SkipRow, ReadRow, UnreadableRow, EndOfFile
  <2>3. /\ \A v \in Writers \ {w} : Made(v)' = Made(v)
        /\ \A m \in Links : ~Unused(m) => row'[m] = row[m]
    BY <1>1, <2>2, SameMade, InsertedMakes
  <2>4. \A v \in Writers \ {w} : writer'[v] = writer[v]
    <3>1. \E next : Set(w, next)
      BY <1>3 DEF WriterStep, BeginShorten, BeginImport, ImportRefused, Created, Collided,
         CreateFails, CreateRow, CreateRowFails, SkipRow, ReadRow, UnreadableRow, EndOfFile
    <3> QED BY <1>1, <3>1, SetEffect
  <2>5. \A v \in Writers : CanonOf(v)'
    BY <2>1, <2>3, <2>4, OthersCanon
  <2>6. ByWriters'
    <3>1. CASE UNCHANGED row
      BY <3>1 DEF CanonInv, ByWriters, Unused
    <3> QED BY <1>1, <2>2, <3>1, InsertedByWriter DEF CanonInv
  <2> QED BY <2>5, <2>6 DEF CanonInv
<1> QED BY <1>2, <1>3, AccountStepLeavesRows DEF Next, Finished, vars

(* Whatever is sent and however requests interleave, ShortenURL stores        *)
(* canonical URLs: normalising one again changes nothing, no two addresses    *)
(* are stored as one URL, and one address is stored as one if its path is in  *)
(* default spelling, for URLs of any length (util/url.go:18,                  *)
(* url_fuzz_test.go:29).                                                      *)
THEOREM ShortenedStayCanonical == Spec => []ShortenedAreCanonical
<1>1. Init => OnceInv /\ CanonInv
  <2> SUFFICES ASSUME Init PROVE CanonInv
    BY InitOnce
  <2>1. \A w \in Writers : writer[w].pc = "idle"
    BY DEF Init, Idle
  <2>2. ByWriters
    BY DEF Init, AccountsInit, ByWriters, Unused
  <2> QED BY <2>1, <2>2 DEF CanonInv, CanonOf
<1>2. OnceInv /\ CanonInv => ShortenedAreCanonical
  <2> SUFFICES ASSUME OnceInv, CanonInv PROVE ShortenedAreCanonical
    OBVIOUS
  <2> DEFINE shortened == {l \in Links : ~Unused(l) /\ writer[row[l].by].kind = "shorten"}
             raw(l) == writer[row[l].by].url
  <2>1. ASSUME NEW l \in shortened
        PROVE  raw(l) \in ParsedURL /\ row[l].url = Normalise(raw(l))
    <3>1. row[l].by \in Writers /\ l \in Made(row[l].by)
      BY DEF CanonInv, ByWriters, Made
    <3>2. PICK w \in Writers : w = row[l].by
      BY <3>1
    <3>3. writer[w].kind = "shorten" /\ l \in Made(w)
      BY <3>1, <3>2
    <3>4. writer[w].pc \notin {"idle", "400"}
      BY <3>3 DEF OnceInv, OnceOf
    <3>5. /\ writer[w].url \in RawURLs /\ Supported(writer[w].url)
          /\ row[l].url = Normalise(writer[w].url)
      BY <3>3, <3>4 DEF CanonInv, CanonOf
    <3> QED BY <3>2, <3>5, URLsAssumption
  <2>2. \A l \in shortened : Normalise(row[l].url) = row[l].url
    BY <2>1, NormalisesOnce
  <2>3. \A l, m \in shortened : Named(raw(l)) /\ Named(raw(m)) =>
           (row[l].url = row[m].url => SameAddress(raw(l), raw(m)))
    BY <2>1, AddressesStayApart
  <2>4. \A l, m \in shortened : Plain(raw(l)) /\ Plain(raw(m)) =>
           (SameAddress(raw(l), raw(m)) => row[l].url = row[m].url)
    BY <2>1, SameIsSameAddress
  <2> QED BY <2>2, <2>3, <2>4 DEF ShortenedAreCanonical
<1> QED BY <1>1, <1>2, NextOnce, NextCanon, Invariance, PTL DEF Spec

----------------------------------------------------------------------------
(* The tables do what LinkStore allows them.                                  *)
RowsInv == \A l \in Links : ~Unused(l) => row[l].owner \in Users /\ row[l].code \in Codes

StoreInv == Inv /\ LinksInv /\ RowsInv

LEMMA NextRows == Inv /\ RowsInv /\ [Next]_vars => RowsInv'
<1> SUFFICES ASSUME Inv, RowsInv, [Next]_vars PROVE RowsInv'
  OBVIOUS
<1>1. CASE UNCHANGED row
  BY <1>1 DEF RowsInv, Unused
<1>2. ASSUME NEW l \in Links, NEW r, NewLink(l, r) PROVE RowsInv'
  <2>1. /\ row'[l] = r /\ \A m \in Links \ {l} : row'[m] = row[m]
        /\ r.owner \in Users /\ r.code \in Codes
    BY <1>2 DEF Inv, TableInv, NewLink
  <2> QED BY <2>1 DEF RowsInv, Unused
<1> QED BY <1>1, <1>2, WriterEffect, AccountStepLeavesRows DEF Next, Finished

LEMMA StoreInvariance == Spec => []StoreInv
<1>1. Init => LinksInv /\ RowsInv
  BY DEF Init, AccountsInit, LinksInv, RowsInv, Unused
<1> QED BY <1>1, NextLinks, NextRows, Invariance, PTL DEF Spec, StoreInv

(* An insert is one of the store's.                                           *)
LEMMA NewLinkIsCreated ==
  ASSUME StoreInv, NEW l \in Links, NEW r, NewLink(l, r), UNCHANGED <<account, accounts>>
  PROVE  Store!StoreNext
<1> TableInv
  BY DEF StoreInv, Inv
<1>1. /\ Unused(l) /\ l \notin stored /\ row'[l] = r /\ r.owner # None
      /\ \A m \in Links \ {l} : row'[m] = row[m]
      /\ stored' = stored \cup {l}
      /\ r.owner \in accounts /\ r.owner \in Users /\ r.code \in Codes
      /\ \A m \in stored : row[m].code # r.code
  BY NoneAssumption DEF TableInv, NewLink, CodeTaken
<1>2. StoreAccounts' = StoreAccounts /\ r.owner \in StoreAccounts
  BY <1>1 DEF StoreAccounts
<1> DEFINE new == [code |-> r.code, owner |-> r.owner, expires |-> None, created |-> 0]
<1>3. StoreLink[l] = None /\ StoreLink' = [StoreLink EXCEPT ![l] = new]
  BY <1>1 DEF StoreLink, Unused
<1>4. StoreDeletedAt' = StoreDeletedAt
  BY <1>1 DEF StoreDeletedAt, Unused
<1>5. \A m \in Links : ~(Store!Stored(m) /\ StoreLink[m].code = r.code)
  <2> SUFFICES ASSUME NEW m \in Links, Store!Stored(m) PROVE StoreLink[m].code # r.code
    OBVIOUS
  <2>1. ~Unused(m) /\ m \in stored
    BY StoreNoneAssumption DEF Store!Stored, StoreLink, StoreDeletedAt
  <2> QED BY <1>1, <2>1 DEF StoreLink
<1>6. Store!RowsOf(r.code) = {}
  BY <1>5 DEF Store!RowsOf
<1>7. Store!Create(l, r.code, r.owner, None)
  BY <1>2, <1>3, <1>4, <1>6 DEF Store!Create
<1> QED BY <1>1, <1>7 DEF Store!StoreNext, Store!Shorten, Store!ShortenURL

(* A commit that takes effect is the store's deletion of the user.            *)
LEMMA CommitIsDeletion ==
  ASSUME StoreInv, NEW u \in Users, account[u] # None,
         UNCHANGED <<account, row>>,
         stored' = stored \ LinksOf(u), accounts' = accounts \ {u}
  PROVE  Store!StoreNext \/ UNCHANGED Store!storeVars
<1> TableInv /\ LinksInv /\ RowsInv
  BY DEF StoreInv, Inv
<1>1. StoreLink' = StoreLink
  BY DEF StoreLink, Unused
<1>2. CASE u \in accounts
  <2>1. u \in StoreAccounts /\ StoreAccounts' = StoreAccounts \ {u}
    BY <1>2 DEF StoreAccounts
  <2>2. \A l \in Links : Store!Stored(l) <=> l \in stored
    <3>1. \A l \in Links : ~Unused(l) => StoreLink[l] # None
      <4> SUFFICES ASSUME NEW l \in Links, ~Unused(l) PROVE StoreLink[l] # None
        OBVIOUS
      <4>1. StoreLink[l] \in Store!Link
        BY DEF RowsInv, StoreLink, Store!Link, Store!Time
      <4> QED BY <4>1, StoreNoneAssumption
    <3>2. \A l \in Links : StoreDeletedAt[l] = None <=> Unused(l) \/ l \in stored
      BY StoreNoneAssumption DEF StoreDeletedAt
    <3> QED BY <3>1, <3>2 DEF Store!Stored, StoreLink, TableInv
  <2>3. StoreDeletedAt' = [l \in Links |-> IF Store!Stored(l) /\ StoreLink[l].owner = u
                                            THEN 0 ELSE StoreDeletedAt[l]]
    BY <2>2 DEF StoreDeletedAt, StoreLink, LinksOf, Unused, TableInv
  <2> QED BY <1>1, <2>1, <2>3 DEF Store!StoreNext, Store!RemoveUser, Store!DeleteUser
<1>3. CASE u \notin accounts
  <2>1. LinksOf(u) = {}
    BY <1>3 DEF LinksInv, LinksOf
  <2>2. UNCHANGED <<accounts, stored>>
    BY <1>3, <2>1
  <2> QED BY <1>1, <2>2 DEF Store!storeVars, StoreAccounts, StoreDeletedAt, Unused
<1> QED BY <1>2, <1>3

(* The insert of an account is no step of the store.                          *)
LEMMA SignupIsStutter ==
  ASSUME StoreInv, UNCHANGED <<row, stored>>,
         \/ UNCHANGED <<account, accounts>>
         \/ \E u \in Users, e \in Emails : AddAccount(u, e)
  PROVE  UNCHANGED Store!storeVars
<1> TableInv
  BY DEF StoreInv, Inv
<1>1. StoreLink' = StoreLink /\ StoreDeletedAt' = StoreDeletedAt
  BY DEF StoreLink, StoreDeletedAt, Unused
<1>2. StoreAccounts' = StoreAccounts
  <2>1. CASE UNCHANGED <<account, accounts>>
    BY <2>1 DEF StoreAccounts
  <2>2. ASSUME NEW u \in Users, NEW e \in Emails, AddAccount(u, e)
        PROVE  StoreAccounts' = StoreAccounts
    <3>1. /\ account[u] = None /\ account'[u] # None /\ accounts' = accounts \cup {u}
          /\ \A v \in Users \ {u} : account'[v] = account[v]
      BY <2>2, NoneAssumption DEF AddAccount, TableInv
    <3> QED BY <3>1 DEF StoreAccounts
  <2> QED BY <2>1, <2>2
<1> QED BY <1>1, <1>2 DEF Store!storeVars

LEMMA NextIsStores ==
  ASSUME StoreInv, [Next]_vars
  PROVE  [Store!StoreNext]_Store!storeVars
<1>1. CASE \E w \in Writers : WriterStep(w) /\ UNCHANGED accountVars
  <2>1. UNCHANGED <<account, accounts>>
    BY <1>1 DEF accountVars
  <2> QED BY <1>1, <2>1, WriterEffect, NewLinkIsCreated, SignupIsStutter
<1>2. CASE \E s \in Signups :
             \/ \E e \in Emails : CheckEmail(s, e)
             \/ CheckFails(s) \/ InsertAccount(s) \/ InsertAccountFails(s)
  <2>1. PICK s \in Signups : \/ \E e \in Emails : CheckEmail(s, e)
                             \/ CheckFails(s) \/ InsertAccount(s) \/ InsertAccountFails(s)
    BY <1>2
  <2>2. signup[s].pc = "insert" => signup[s].email \in Emails
    BY DEF StoreInv, Inv, SignupInv
  <2>3. UNCHANGED <<row, stored>>
    BY <2>1 DEF CheckEmail, CheckFails, InsertAccount, InsertAccountFails
  <2>4. \/ UNCHANGED <<account, accounts>>
        \/ \E u \in Users, e \in Emails : AddAccount(u, e)
    BY <2>1, <2>2 DEF CheckEmail, CheckFails, InsertAccount, InsertAccountFails
  <2> QED BY <2>3, <2>4, SignupIsStutter
<1>3. CASE (\E u \in Users : BeginDelete(u)) \/ DeleteLinks \/ DeleteAccount \/ UNCHANGED vars
  <2>1. UNCHANGED <<account, accounts, row, stored>>
    BY <1>3 DEF BeginDelete, DeleteLinks, DeleteAccount, vars
  <2> QED BY <2>1, SignupIsStutter
<1>4. CASE CommitDelete \/ DeleteFails
  <2>1. /\ UNCHANGED <<account, row>>
        /\ deletion.pc \in {"links", "user", "commit"}
    BY <1>4 DEF CommitDelete, DeleteFails
  <2>2. deletion.user \in Users /\ account[deletion.user] # None
    BY <2>1 DEF StoreInv, Inv, DeletionInv
  <2> QED BY <1>4, <2>1, <2>2, DeletionEnds, CommitIsDeletion, SignupIsStutter DEF StoreInv
<1> QED BY <1>1, <1>2, <1>3, <1>4 DEF Next, AccountStep, Finished

(* The signups, the transaction of DeleteUser statement by statement, the     *)
(* retries and the imports implement LinkStore, in which a link comes by one  *)
(* insert and a user goes with its links in one step (admin_service.go:124).  *)
THEOREM WritersImplementStore == Spec => ImplementsStore
<1>1. Init => Store!StoreInit
  BY DEF Init, AccountsInit, Store!StoreInit, StoreAccounts, StoreLink, StoreDeletedAt, Unused
<1>2. StoreInv /\ [Next]_vars => [Store!StoreNext]_Store!storeVars
  BY NextIsStores
<1> QED BY <1>1, <1>2, StoreInvariance, PTL DEF Spec, ImplementsStore, Store!StoreSpec

=============================================================================
