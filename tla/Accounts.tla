------------------------------ MODULE Accounts ------------------------------
(***************************************************************************)
(* The accounts and keys of a tenant (auth.rs): one file written whole     *)
(* before memory adopts the change, a policy decided under the store's     *)
(* lock, and handlers that check, wait for a password hash, and then act.  *)
(* A step of a handler between two locks is an action of its own.          *)
(***************************************************************************)
EXTENDS Naturals, FiniteSets

CONSTANTS Handlers, Emails,
          MaxIds,                 \* bound: accounts and keys ever created
          None

VARIABLES
    allow,       \* the configuration: sign-up stays open after the first account
    db, file,    \* [users, keys] in memory and on disk
    nextId,
    tokens,      \* ids that a session token was signed for
    req          \* handler |-> its request under way, or None

avars == <<allow, db, file, nextId, tokens, req>>

Empty == [users |-> {}, keys |-> {}]
User(id, email, role) == [id |-> id, email |-> email, role |-> role]

AInit ==
    /\ allow \in BOOLEAN
    /\ db = Empty /\ file = Empty /\ nextId = 1 /\ tokens = {}
    /\ req = [h \in Handlers |-> None]

Ids(users)  == {u.id : u \in users}
ById(id)    == CHOOSE u \in db.users : u.id = id
ByEmail(e)  == {u \in db.users : u.email = e}
(* require_auth: a token is good while its account exists.                 *)
Callers     == tokens \cap Ids(db.users)
Admins      == {id \in Callers : ById(id).role = "admin"}

Idle(h)     == req[h] = None
Goes(h, r)  == req' = [req EXCEPT ![h] = r]
Answers(h)  == Goes(h, None)

(* Disk first; memory only if the write succeeded.                         *)
Persist(next) ==
    \/ file' = next /\ db' = next
    \/ UNCHANGED <<file, db>>

---------------------------------------------------------------------------
(* signup: refused early when visibly closed, decided again after the hash *)
SignUp(h) ==
    /\ Idle(h) /\ (allow \/ db.users = {})
    /\ \E e \in Emails :
          Goes(h, [op |-> "signup", email |-> e, first |-> db.users = {}])
    /\ UNCHANGED <<db, file, nextId, tokens>>

CreateUser(h) ==
    /\ Idle(h) /\ Admins # {}
    /\ \E e \in Emails : Goes(h, [op |-> "create", email |-> e, first |-> FALSE])
    /\ UNCHANGED <<db, file, nextId, tokens>>

Role_Early(r) == IF r.op = "signup" /\ r.first THEN "admin" ELSE "user"
Role(r) == IF r.op = "signup" /\ db.users = {} THEN "admin" ELSE "user"

(* create, and the session that a sign-up answers with.                    *)
Create(h) ==
    /\ ~Idle(h) /\ req[h].op \in {"signup", "create"}
    /\ LET r == req[h]
           open == r.op = "create" \/ allow \/ db.users = {}
       IN  IF ~open \/ ByEmail(r.email) # {} \/ nextId > MaxIds
           THEN UNCHANGED <<db, file, nextId, tokens>>
           ELSE /\ nextId' = nextId + 1
                /\ Persist([db EXCEPT !.users = @ \cup {User(nextId, r.email, Role(r))}])
                /\ tokens' = IF r.op = "signup" /\ db' # db
                             THEN tokens \cup {nextId} ELSE tokens
    /\ Answers(h)

(* login: the account is read, the password verified, the token signed.    *)
Login(h) ==
    /\ Idle(h)
    /\ \E u \in db.users : Goes(h, [op |-> "login", id |-> u.id])
    /\ UNCHANGED <<db, file, nextId, tokens>>

LoggedIn(h) ==
    /\ ~Idle(h) /\ req[h].op = "login"
    /\ tokens' \in {tokens, tokens \cup {req[h].id}}       \* the password is right, or not
    /\ Answers(h)
    /\ UNCHANGED <<db, file, nextId>>

(* delete_user: never one's own account.                                   *)
DeleteUser(h) ==
    /\ Idle(h)
    /\ \E me \in Admins, id \in 1 .. MaxIds :
          id # me /\ Goes(h, [op |-> "delete", id |-> id])
    /\ UNCHANGED <<db, file, nextId, tokens>>

(* create_key and delete_key, the administrator's as well.                 *)
ChangeKey(h) ==
    /\ Idle(h) /\ Admins # {}
    /\ \E id \in {0} \cup db.keys : Goes(h, [op |-> "key", id |-> id])
    /\ UNCHANGED <<db, file, nextId, tokens>>

Act(h) ==
    /\ ~Idle(h) /\ req[h].op \in {"delete", "key"}
    /\ LET r == req[h]
       IN  CASE r.op = "delete" ->
                  /\ Persist([db EXCEPT !.users = {u \in @ : u.id # r.id}])
                  /\ UNCHANGED nextId
             [] r.op = "key" /\ r.id # 0 ->
                  /\ Persist([db EXCEPT !.keys = @ \ {r.id}])
                  /\ UNCHANGED nextId
             [] OTHER ->
                  IF nextId > MaxIds THEN UNCHANGED <<db, file, nextId>>
                  ELSE /\ Persist([db EXCEPT !.keys = @ \cup {nextId}])
                       /\ nextId' = nextId + 1
    /\ Answers(h)
    /\ UNCHANGED tokens

(* A crash; a write it cut short left the previous file (temp, rename).    *)
Restart ==
    /\ db' = file /\ req' = [h \in Handlers |-> None]
    /\ UNCHANGED <<file, nextId, tokens>>

ANext ==
    /\ UNCHANGED allow
    /\ \/ \E h \in Handlers : \/ SignUp(h) \/ CreateUser(h) \/ Create(h) \/ Login(h)
                              \/ LoggedIn(h) \/ DeleteUser(h) \/ ChangeKey(h) \/ Act(h)
       \/ Restart

ASpec == AInit /\ [][ANext]_avars

---------------------------------------------------------------------------
(* A tenant with accounts has exactly one administrator, on disk and in    *)
(* memory, and no two accounts of one email: whatever sign-ups race the    *)
(* first one, whatever is deleted, whichever writes fail.                  *)
OneAdmin ==
    /\ db = file
    /\ db.users # {} => Cardinality({u \in db.users : u.role = "admin"}) = 1
    /\ \A u, v \in db.users : u.email = v.email => u = v

==============================================================================
