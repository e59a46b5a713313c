---------------------------- MODULE Parts_proofs -----------------------------
(***************************************************************************)
(* What the parts of the server promise, for every value of the constants: *)
(* for each part an invariant that its initial states satisfy, that each   *)
(* of its actions preserves, and that implies its property.                *)
(***************************************************************************)
EXTENDS Parts, FiniteSetTheorems, Extremes, TLAPS

-----------------------------------------------------------------------------
(* The accounts.  The first account is the administrator, and from then on *)
(* the accounts are never empty again, since the only one who may delete   *)
(* is the administrator and no request to delete names it: ids are not     *)
(* handed out twice, so a request decided long ago still does not.         *)
Admin(u) == u.role = "admin"

IdsUsed ==
    /\ nextId \in Nat
    /\ \A u \in db.users : u.id \in Nat /\ u.id < nextId
    /\ \A u, v \in db.users : u.id = v.id => u = v

EmailsApart == \A u, v \in db.users : u.email = v.email => u = v

OneOfThem ==
    db.users # {} => \E a \in db.users : Admin(a) /\ \A u \in db.users : Admin(u) => u = a

(* An administrator's request was accepted when there was one, and a       *)
(* deletion does not name it.                                              *)
Fair(r) ==
    /\ r # None /\ r.op \in {"create", "delete"} => db.users # {}
    /\ r # None /\ r.op = "delete" => \A u \in db.users : Admin(u) => u.id # r.id

Spared == \A h \in Handlers : Fair(req[h])

AInv ==
    /\ db = file
    /\ db = [users |-> db.users, keys |-> db.keys]
    /\ req = [h \in Handlers |-> req[h]]
    /\ IdsUsed /\ EmailsApart /\ OneOfThem /\ Spared

(* A step that leaves the accounts alone and whose requests are fair.      *)
LEMMA SameUsers ==
    ASSUME AInv, db' = file', db' = [users |-> db.users, keys |-> db'.keys],
           nextId' \in Nat, nextId <= nextId',
           req' = [h \in Handlers |-> req'[h]],
           \A h \in Handlers : Fair(req'[h])
    PROVE  AInv'
<1>1. db'.users = db.users /\ nextId \in Nat
    BY DEF AInv, IdsUsed
<1>2. IdsUsed'
    BY <1>1 DEF AInv, IdsUsed
<1>3. EmailsApart' /\ OneOfThem'
    BY <1>1 DEF AInv, EmailsApart, OneOfThem, Admin
<1>4. Spared'
    BY <1>1 DEF Spared, Fair, Admin
<1>5. QED
    BY <1>1, <1>2, <1>3, <1>4 DEF AInv

(* A tenant begins with no account and no request.                         *)
LEMMA AccountsBegin == Accounts!AInit => AInv
BY DEF Accounts!AInit, Accounts!Empty, AInv, IdsUsed, EmailsApart, OneOfThem, Spared, Fair

(* A handler that only takes up a request, or ends one.                    *)
LEMMA Asks ==
    ASSUME AInv, NEW h \in Handlers, NEW r, Accounts!Goes(h, r), Fair(r),
           UNCHANGED <<db, file, nextId>>
    PROVE  AInv'
<1>1. nextId \in Nat /\ db = [users |-> db.users, keys |-> db.keys] /\ db = file
    BY DEF AInv, IdsUsed
<1>2. req' = [g \in Handlers |-> req'[g]]
    BY DEF AInv, Accounts!Goes
<1>3. \A g \in Handlers : req'[g] = IF g = h THEN r ELSE req[g]
    BY DEF AInv, Accounts!Goes
<1>4. \A g \in Handlers : Fair(req'[g])
    BY <1>3 DEF AInv, Spared
<1>5. nextId <= nextId' /\ nextId' \in Nat
    BY <1>1
<1>6. db' = file' /\ db' = [users |-> db.users, keys |-> db'.keys]
    BY <1>1
<1>7. QED
    BY <1>2, <1>4, <1>5, <1>6, SameUsers

(* Whoever may administer exists and is the administrator.                 *)
LEMMA OnlyAdmin ==
    ASSUME AInv, NEW me \in Accounts!Admins
    PROVE  \E a \in db.users : a.id = me /\ Admin(a) /\ \A u \in db.users : Admin(u) => u = a
<1>1. PICK a \in db.users : a.id = me
    BY DEF Accounts!Admins, Accounts!Callers, Accounts!Ids
<1>2. Accounts!ById(me) = a
    BY <1>1 DEF Accounts!ById, AInv, IdsUsed
<1>3. Admin(a)
    BY <1>2 DEF Accounts!Admins, Admin
<1>4. QED
    BY <1>1, <1>3 DEF AInv, OneOfThem

(* The requests of anyone but an administrator are fair at once.           *)
LEMMA AccountsTakes ==
    ASSUME AInv, NEW h \in Handlers,
           Accounts!SignUp(h) \/ Accounts!CreateUser(h) \/ Accounts!Login(h) \/ Accounts!LoggedIn(h) \/ Accounts!DeleteUser(h) \/ Accounts!ChangeKey(h)
    PROVE  AInv'
<1>1. CASE Accounts!SignUp(h)
  <2>1. PICK e \in Emails : Accounts!Goes(h, [op |-> "signup", email |-> e, first |-> db.users = {}])
    BY <1>1 DEF Accounts!SignUp
  <2>2. Fair([op |-> "signup", email |-> e, first |-> db.users = {}])
    BY DEF Fair
  <2>3. QED
    BY <1>1, <2>1, <2>2, Asks DEF Accounts!SignUp
<1>2. CASE Accounts!CreateUser(h)
  <2>1. PICK e \in Emails : Accounts!Goes(h, [op |-> "create", email |-> e, first |-> FALSE])
    BY <1>2 DEF Accounts!CreateUser
  <2>2. db.users # {}
    BY <1>2, OnlyAdmin DEF Accounts!CreateUser
  <2>3. Fair([op |-> "create", email |-> e, first |-> FALSE])
    BY <2>2 DEF Fair
  <2>4. QED
    BY <1>2, <2>1, <2>3, Asks DEF Accounts!CreateUser
<1>3. CASE Accounts!Login(h)
  <2>1. PICK u \in db.users : Accounts!Goes(h, [op |-> "login", id |-> u.id])
    BY <1>3 DEF Accounts!Login
  <2>2. Fair([op |-> "login", id |-> u.id])
    BY DEF Fair
  <2>3. QED
    BY <1>3, <2>1, <2>2, Asks DEF Accounts!Login
<1>4. CASE Accounts!LoggedIn(h)
  <2>1. Fair(None)
    BY DEF Fair
  <2>2. QED
    BY <1>4, <2>1, Asks DEF Accounts!LoggedIn, Accounts!Answers
<1>5. CASE Accounts!DeleteUser(h)
  <2>1. PICK me \in Accounts!Admins, id \in 1 .. MaxIds : id # me /\ Accounts!Goes(h, [op |-> "delete", id |-> id])
    BY <1>5 DEF Accounts!DeleteUser
  <2>2. PICK a \in db.users : a.id = me /\ Admin(a) /\ \A u \in db.users : Admin(u) => u = a
    BY OnlyAdmin
  <2>3. Fair([op |-> "delete", id |-> id])
    BY <2>1, <2>2 DEF Fair
  <2>4. QED
    BY <1>5, <2>1, <2>3, Asks DEF Accounts!DeleteUser
<1>6. CASE Accounts!ChangeKey(h)
  <2>1. PICK id \in {0} \cup db.keys : Accounts!Goes(h, [op |-> "key", id |-> id])
    BY <1>6 DEF Accounts!ChangeKey
  <2>2. Fair([op |-> "key", id |-> id])
    BY DEF Fair
  <2>3. QED
    BY <1>6, <2>1, <2>2, Asks DEF Accounts!ChangeKey
<1>7. QED
    BY <1>1, <1>2, <1>3, <1>4, <1>5, <1>6

(* The end of a request leaves the others as they are.                     *)
LEMMA AccountsRest ==
    ASSUME AInv, NEW h \in Handlers, Accounts!Answers(h)
    PROVE  /\ req' = [g \in Handlers |-> req'[g]]
           /\ \A g \in Handlers : req'[g] = None \/ req'[g] = req[g]
           /\ \A g \in Handlers : Fair(req'[g])
<1>1. /\ req' = [g \in Handlers |-> req'[g]]
      /\ \A g \in Handlers : req'[g] = None \/ req'[g] = req[g]
    BY DEF AInv, Accounts!Answers, Accounts!Goes
<1>2. ASSUME NEW g \in Handlers PROVE Fair(req'[g])
  <2>1. Fair(None)
    BY DEF Fair
  <2>2. Fair(req[g])
    BY DEF AInv, Spared
  <2>3. QED
    BY <1>1, <2>1, <2>2
<1>3. QED
    BY <1>1, <1>2

(* A creation adds the administrator to an empty tenant, anyone else to    *)
(* one that has accounts, always of an address and an id not yet used.     *)
LEMMA AccountsCreates ==
    ASSUME AInv, NEW h \in Handlers, Accounts!Create(h)
    PROVE  AInv'
<1> DEFINE r == req[h]
           u == Accounts!User(nextId, r.email, Accounts!Role(r))
<1>1. Accounts!Answers(h) /\ nextId \in Nat
    BY DEF Accounts!Create, AInv, IdsUsed
<1>2. /\ req' = [g \in Handlers |-> req'[g]]
      /\ \A g \in Handlers : req'[g] = None \/ req'[g] = req[g]
      /\ \A g \in Handlers : Fair(req'[g])
    BY <1>1, AccountsRest
<1>3. r # None /\ r.op \in {"signup", "create"} /\ Fair(r)
    BY DEF Accounts!Create, Accounts!Idle, AInv, Spared
<1>4. CASE UNCHANGED <<db, file>> /\ nextId' \in {nextId, nextId + 1}
  <2>1. db' = file' /\ db' = [users |-> db.users, keys |-> db'.keys]
    BY <1>4 DEF AInv
  <2>2. nextId' \in Nat /\ nextId <= nextId'
    BY <1>1, <1>4
  <2>3. QED
    BY <1>2, <2>1, <2>2, SameUsers
<1>5. CASE /\ db' = [db EXCEPT !.users = @ \cup {u}] /\ file' = db'
           /\ nextId' = nextId + 1 /\ Accounts!ByEmail(r.email) = {}
  <2>1. db' = [users |-> db.users \cup {u}, keys |-> db.keys]
    BY <1>5 DEF AInv
  <2>2. u.id = nextId /\ u.email = r.email /\ u.role = Accounts!Role(r)
    BY DEF Accounts!User
  <2> HIDE DEF u, r
  <2>3. IdsUsed'
    BY <2>1, <2>2, <1>1, <1>5 DEF AInv, IdsUsed
  <2>4. EmailsApart'
    BY <2>1, <2>2, <1>5 DEF AInv, EmailsApart, Accounts!ByEmail
  <2>5. Admin(u) <=> db.users = {}
    <3>1. db.users = {} => r.op = "signup"
        BY <1>3 DEF Fair
    <3>2. QED
        BY <2>2, <3>1 DEF Admin, Accounts!Role
  <2>6. OneOfThem'
    BY <2>1, <2>5 DEF AInv, OneOfThem, Admin
  <2>7. Spared'
    <3> SUFFICES ASSUME NEW g \in Handlers PROVE Fair(req[g])'
        BY DEF Spared
    <3>1. Fair(req'[g])
        BY <1>2
    <3>2. QED
        BY <3>1, <2>1, <2>5 DEF Fair, Admin
  <2>8. QED
    BY <2>1, <2>3, <2>4, <2>6, <2>7, <1>2, <1>5 DEF AInv
<1>6. QED
    BY <1>4, <1>5 DEF Accounts!Create, Accounts!Persist

(* A deletion takes someone else than the administrator; keys are apart.   *)
LEMMA AccountsActs ==
    ASSUME AInv, NEW h \in Handlers, Accounts!Act(h)
    PROVE  AInv'
<1> DEFINE r == req[h]
           left == {u \in db.users : u.id # r.id}
<1>1. Accounts!Answers(h) /\ nextId \in Nat /\ db = file
    BY DEF Accounts!Act, AInv, IdsUsed
<1>2. /\ req' = [g \in Handlers |-> req'[g]]
      /\ \A g \in Handlers : req'[g] = None \/ req'[g] = req[g]
      /\ \A g \in Handlers : Fair(req'[g])
    BY <1>1, AccountsRest
<1>3. r # None /\ r.op \in {"delete", "key"} /\ Fair(r)
    BY DEF Accounts!Act, Accounts!Idle, AInv, Spared
<1>4. CASE /\ db' = [users |-> db.users, keys |-> db'.keys] /\ db' = file'
           /\ nextId' \in {nextId, nextId + 1}
  <2>1. nextId' \in Nat /\ nextId <= nextId'
    BY <1>1, <1>4
  <2>2. QED
    BY <1>2, <1>4, <2>1, SameUsers
<1>5. CASE /\ r.op = "delete" /\ db' = [db EXCEPT !.users = left]
           /\ db' = file' /\ nextId' = nextId
  <2>1. db' = [users |-> left, keys |-> db.keys]
    BY <1>5 DEF AInv
  <2>2. PICK a \in db.users : Admin(a) /\ \A u \in db.users : Admin(u) => u = a
    BY <1>3, <1>5 DEF Fair, AInv, OneOfThem
  <2>3. a \in left
    BY <1>3, <1>5, <2>2 DEF Fair
  <2>4. IdsUsed' /\ EmailsApart'
    BY <2>1, <1>5 DEF AInv, IdsUsed, EmailsApart
  <2>5. OneOfThem'
    BY <2>1, <2>2, <2>3 DEF OneOfThem, Admin
  <2>6. Spared'
    <3> SUFFICES ASSUME NEW g \in Handlers PROVE Fair(req[g])'
        BY DEF Spared
    <3>1. Fair(req'[g])
        BY <1>2
    <3>2. db'.users # {} /\ db'.users \subseteq db.users
        BY <2>1, <2>3
    <3>3. QED
        BY <3>1, <3>2 DEF Fair, Admin
  <2>7. QED
    BY <2>1, <2>4, <2>5, <2>6, <1>2, <1>5 DEF AInv
<1>6. CASE r.op = "delete"
    BY <1>1, <1>4, <1>5, <1>6 DEF Accounts!Act, Accounts!Persist, AInv
<1>7. CASE r.op = "key"
  <2>1. \/ nextId' = nextId /\ Accounts!Persist([db EXCEPT !.keys = @ \ {r.id}])
        \/ UNCHANGED <<db, file, nextId>>
        \/ nextId' = nextId + 1 /\ Accounts!Persist([db EXCEPT !.keys = @ \cup {nextId}])
    <3>1. CASE r.id # 0
        BY <1>7, <3>1 DEF Accounts!Act
    <3>2. CASE r.id = 0
        BY <1>7, <3>2 DEF Accounts!Act
    <3>3. QED
        BY <3>1, <3>2
  <2>2. ASSUME NEW ks, Accounts!Persist([db EXCEPT !.keys = ks])
        PROVE  db' = [users |-> db.users, keys |-> db'.keys] /\ db' = file'
    BY <2>2 DEF Accounts!Persist, AInv
  <2>3. db' = [users |-> db.users, keys |-> db'.keys] /\ db' = file'
    BY <2>1, <2>2 DEF AInv
  <2>4. nextId' \in {nextId, nextId + 1}
    BY <2>1
  <2>5. QED
    BY <1>4, <2>3, <2>4
<1>8. QED
    BY <1>3, <1>6, <1>7

(* A restart reads what is on disk, which memory never differs from.       *)
LEMMA AccountsRestarts == ASSUME AInv, Accounts!Restart PROVE AInv'
<1>1. db' = db /\ file' = file /\ nextId' = nextId /\ nextId \in Nat
    BY DEF Accounts!Restart, AInv, IdsUsed
<1>2. /\ req' = [h \in Handlers |-> req'[h]]
      /\ \A h \in Handlers : Fair(req'[h])
    BY DEF Accounts!Restart, Fair
<1>3. db' = file' /\ db' = [users |-> db.users, keys |-> db'.keys]
    BY <1>1 DEF AInv
<1>4. QED
    BY <1>1, <1>2, <1>3, SameUsers

(* The property, from the administrator that the accounts have.            *)
LEMMA AccountsImply == AInv => Accounts!OneAdmin
<1> SUFFICES ASSUME AInv PROVE Accounts!OneAdmin
    OBVIOUS
<1>1. ASSUME db.users # {} PROVE Accounts!Cardinality({u \in db.users : u.role = "admin"}) = 1
  <2>1. PICK a \in db.users : Admin(a) /\ \A u \in db.users : Admin(u) => u = a
    BY <1>1 DEF AInv, OneOfThem
  <2>2. {u \in db.users : u.role = "admin"} = {a}
    BY <2>1 DEF Admin
  <2>3. Accounts!Cardinality({a}) = 1
    BY FS_Singleton DEF Accounts!Cardinality, Cardinality
  <2>4. QED
    BY <2>2, <2>3
<1>2. QED
    BY <1>1 DEF Accounts!OneAdmin, AInv, EmailsApart

(* The step.                                                               *)
LEMMA AccountsStepKeeps == ASSUME AInv, [Accounts!ANext]_accountsVars PROVE AInv'
<1>1. CASE UNCHANGED accountsVars
  BY <1>1 DEF accountsVars, AInv, IdsUsed, EmailsApart, OneOfThem, Spared, Fair, Admin
<1>2. CASE Accounts!Restart
  BY <1>2, AccountsRestarts
<1>3. ASSUME NEW h \in Handlers, Accounts!Create(h) PROVE AInv'
  BY <1>3, AccountsCreates
<1>4. ASSUME NEW h \in Handlers, Accounts!Act(h) PROVE AInv'
  BY <1>4, AccountsActs
<1>5. ASSUME NEW h \in Handlers,
             \/ Accounts!SignUp(h) \/ Accounts!CreateUser(h) \/ Accounts!Login(h)
             \/ Accounts!LoggedIn(h) \/ Accounts!DeleteUser(h) \/ Accounts!ChangeKey(h)
      PROVE  AInv'
  BY <1>5, AccountsTakes
<1>6. QED
  BY <1>1, <1>2, <1>3, <1>4, <1>5 DEF Accounts!ANext

-----------------------------------------------------------------------------
(* The payloads on disk.  A slot that gave up its payload has a location   *)
(* that can be read and is no older than what the slot shows.              *)
Loc  == Nat \X Nat
Slot == [loc : Loc, res : Nat \cup {None}, ver : Nat]
Work == [op : {"rest", "locate", "seal", "apply", "relocate"}, id : Payloads!Concepts \cup {None}, ver : Nat,
         part : Nat, rolled : BOOLEAN, dropped : BOOLEAN, todo : SUBSET Payloads!Concepts]
Look == [id : Payloads!Concepts \cup {None}, loc : Loc \cup {None}, floor : Nat, got : Nat \cup {None},
         moved : BOOLEAN]

PayloadTypes ==
    /\ slots \in [Payloads!Concepts -> Slot \cup {None}]
    /\ pendingLocs \in [Payloads!Concepts -> Loc \cup {None}]
    /\ work \in Work /\ look \in Look
    /\ actives \in Nat /\ writes \in Nat

(* A slot: what is located is no older than what is shown, and what is not *)
(* resident can be read.                                                   *)
SlotOk(i) ==
    slots[i] # None =>
        /\ slots[i].ver \in 1 .. writes
        /\ slots[i].res \in {None, slots[i].ver}
        /\ slots[i].loc[2] >= slots[i].ver
        /\ slots[i].res = None => slots[i].loc[1] \in segIndex

(* A location waits only for a payload that is not there.                  *)
WaitOk(i) == pendingLocs[i] # None /\ slots[i] # None => slots[i].res = None

(* The write under way is the newest, and its partition, once sealed, can  *)
(* be read.                                                                *)
Here == <<work.part, work.ver>>
WriteOk ==
    work.op \in {"locate", "seal", "apply"} =>
        /\ work.id \in Payloads!Concepts /\ work.ver = writes /\ work.ver # 0
        /\ work.part \in sealedSeen => work.part \in segIndex
        /\ work.rolled => work.part < actives /\ work.part \in segIndex
        /\ work.op = "seal" => work.rolled
        /\ work.op # "locate" /\ ~work.dropped =>
              \/ pendingLocs[work.id] = Here
              \/ pendingLocs[work.id] = None /\ slots[work.id] # None /\ slots[work.id].loc = Here

(* A compaction has put what it moved where it can be read.                *)
MoveOk ==
    work.op = "relocate" =>
        /\ work.part = actives + 1 /\ work.part \in segIndex /\ ~work.dropped
        /\ \A i \in work.todo : slots[i] # None
        /\ \A i \in Payloads!Concepts \ work.todo :
              slots[i] # None => slots[i].res = None /\ slots[i].loc[1] = work.part

(* What a reader took with it.                                             *)
LookOk ==
    /\ look.loc # None => /\ look.loc[2] >= look.floor /\ look.loc[2] # 0
                          /\ look.loc[1] \in segIndex \/ look.moved
    /\ look.got # None => IF look.got = 0 THEN look.moved ELSE look.got >= look.floor

TInv ==
    /\ PayloadTypes
    /\ \A i \in Payloads!Concepts : SlotOk(i) /\ WaitOk(i)
    /\ \A p \in sealedSeen : p \in Nat /\ p < actives
    /\ WriteOk /\ MoveOk /\ LookOk

LEMMA PayloadsBegin == ASSUME Payloads!TInit PROVE TInv
BY NoneAssumption
   DEF Payloads!TInit, Payloads!Resting, Payloads!Looking, Payloads!Concepts, TInv, PayloadTypes, Slot, Loc, Work,
       Look, SlotOk, WaitOk, WriteOk, MoveOk, LookOk

LEMMA PayloadsAppend == ASSUME TInv, Payloads!Append PROVE TInv'
<1>1. PICK i \in Payloads!Concepts, rolls \in BOOLEAN :
        /\ work.op = "rest"
        /\ writes' = writes + 1
        /\ work' = [Payloads!Resting EXCEPT !.op = "locate", !.id = i, !.ver = writes', !.part = actives,
                                            !.rolled = rolls]
        /\ segIndex' = IF rolls THEN segIndex \cup {actives} ELSE segIndex
        /\ actives' = IF rolls THEN actives + 1 ELSE actives
        /\ UNCHANGED <<slots, pendingLocs, sealedSeen, sealable, swaps, look>>
    BY DEF Payloads!Append
<1>2. work' = [op |-> "locate", id |-> i, ver |-> writes', part |-> actives, rolled |-> rolls, dropped |-> FALSE,
               todo |-> {}]
    BY <1>1 DEF Payloads!Resting
<1>3. PayloadTypes'
  <2>1. actives \in Nat /\ writes' \in Nat /\ actives' \in Nat
    BY <1>1 DEF TInv, PayloadTypes
  <2>2. work' \in Work
    BY <1>2, <2>1 DEF Work
  <2>. QED  BY <1>1, <2>1, <2>2 DEF TInv, PayloadTypes
<1>4. \A j \in Payloads!Concepts : SlotOk(j)' /\ WaitOk(j)'
    BY <1>1 DEF TInv, PayloadTypes, Slot, SlotOk, WaitOk
<1>5. \A p \in sealedSeen' : p \in Nat /\ p < actives'
    BY <1>1 DEF TInv, PayloadTypes
<1>6. WriteOk'
    BY <1>1, <1>2, <1>3 DEF TInv, PayloadTypes, WriteOk
<1>7. MoveOk' /\ LookOk'
    BY <1>1, <1>2 DEF TInv, MoveOk, LookOk
<1>. QED  BY <1>3, <1>4, <1>5, <1>6, <1>7 DEF TInv

LEMMA SlotAt == ASSUME NEW s \in Slot, NEW l PROVE [s EXCEPT !.loc = l] = [loc |-> l, res |-> s.res, ver |-> s.ver]
BY DEF Slot

LEMMA SlotEvicted == ASSUME NEW s \in Slot PROVE [s EXCEPT !.res = None] = [loc |-> s.loc, res |-> None, ver |-> s.ver]
BY DEF Slot

LEMMA SlotMoved ==
    ASSUME NEW s \in Slot, NEW l \in Loc
    PROVE  [s EXCEPT !.loc = l, !.res = None] = [loc |-> l, res |-> None, ver |-> s.ver]
<1>1. PICK t : t = [s EXCEPT !.loc = l]
    OBVIOUS
<1>2. t \in Slot /\ t.loc = l /\ t.ver = s.ver
    BY <1>1, SlotAt DEF Slot
<1>3. [t EXCEPT !.res = None] = [loc |-> l, res |-> None, ver |-> s.ver]
    BY <1>2, SlotEvicted
<1>. QED  BY <1>1, <1>3

(* A location told by the store, of a payload in memory or not.            *)
LEMMA TellsLoc ==
    ASSUME TInv, NEW i \in Payloads!Concepts, NEW l \in Loc, NEW resident \in BOOLEAN,
           Payloads!SetLoc(i, l, resident),
           l[1] \in sealedSeen \/ ~resident => l[1] \in segIndex,
           slots[i] # None => l[2] >= slots[i].ver,
           ~resident => slots[i] # None
    PROVE  /\ slots' \in [Payloads!Concepts -> Slot \cup {None}]
           /\ pendingLocs' \in [Payloads!Concepts -> Loc \cup {None}]
           /\ \A j \in Payloads!Concepts \ {i} : slots'[j] = slots[j] /\ pendingLocs'[j] = pendingLocs[j]
           /\ slots'[i] # None <=> slots[i] # None
           /\ slots[i] # None =>
                 /\ slots'[i].ver = slots[i].ver
                 /\ slots'[i].res \in {None, slots[i].ver}
                 /\ slots'[i].loc[2] >= slots[i].ver
                 /\ slots'[i].res = None => slots'[i].loc[1] \in segIndex
                 /\ pendingLocs'[i] # None => slots'[i].res = None
           /\ resident => \/ pendingLocs'[i] = l
                          \/ pendingLocs'[i] = None /\ slots'[i] # None /\ slots'[i].loc = l
           /\ ~resident => slots'[i].res = None /\ slots'[i].loc = l
<1>. USE DEF Loc
<1>1. PayloadTypes /\ SlotOk(i) /\ WaitOk(i) /\ l # None
    BY NoneAssumption DEF TInv
<1>2. CASE Payloads!Waits(i, resident)
  <2>1. UNCHANGED slots /\ pendingLocs' = [pendingLocs EXCEPT ![i] = l]
    BY <1>2 DEF Payloads!SetLoc
  <2>2. resident
    BY <1>2, <1>1 DEF Payloads!Waits, Payloads!Live
  <2>3. slots[i] # None => slots[i].res = None
    BY <1>2 DEF Payloads!Waits, Payloads!Live
  <2>. QED  BY <1>1, <2>1, <2>2, <2>3 DEF PayloadTypes, SlotOk, Slot
<1>3. CASE ~Payloads!Waits(i, resident)
  <2>1. UNCHANGED pendingLocs /\ slots[i] # None /\ (resident => slots[i].res # None)
    BY <1>3 DEF Payloads!SetLoc, Payloads!Waits, Payloads!Live
  <2>6. resident => pendingLocs[i] = None
    BY <2>1, <1>1 DEF WaitOk
  <2>2. slots[i] \in Slot /\ slots \in [Payloads!Concepts -> Slot \cup {None}]
    BY <1>1, <2>1 DEF PayloadTypes
  <2>3. CASE resident /\ l[1] \notin sealedSeen
    <3>1. slots' = [slots EXCEPT ![i].loc = l]
        BY <1>3, <2>3 DEF Payloads!SetLoc, Payloads!SealablePush
    <3>2. slots' = [slots EXCEPT ![i] = [loc |-> l, res |-> slots[i].res, ver |-> slots[i].ver]]
        BY <3>1, <2>2, SlotAt
    <3>4. slots[i].res \in {None, slots[i].ver} /\ slots[i].ver \in Nat
        BY <1>1, <2>1, <2>2 DEF SlotOk, Slot
    <3>5. [loc |-> l, res |-> slots[i].res, ver |-> slots[i].ver] \in Slot
        BY <3>4 DEF Slot
    <3>6. slots'[i] \in Slot /\ slots'[i] # None /\ slots'[i].loc = l /\ slots'[i].res = slots[i].res /\ slots'[i].ver = slots[i].ver
        BY <3>2, <3>5, <2>2, NoneAssumption DEF Slot
    <3>7. slots' \in [Payloads!Concepts -> Slot \cup {None}]
        BY <3>2, <3>5, <2>2
    <3>8. pendingLocs[i] = None \/ slots'[i].res = None
        BY <3>6, <1>1, <2>1 DEF WaitOk
    <3>. QED  BY <1>1, <2>1, <2>2, <2>3, <3>2, <3>4, <3>6, <3>7, <3>8 DEF PayloadTypes
  <2>4. CASE resident /\ l[1] \in sealedSeen
    <3>1. slots' = [[slots EXCEPT ![i].loc = l] EXCEPT ![i].res = None]
        BY <1>3, <2>4, <2>2, SlotAt DEF Payloads!SetLoc, Payloads!SealablePush
    <3>2. slots' = [slots EXCEPT ![i] = [slots[i] EXCEPT !.loc = l, !.res = None]]
        BY <3>1, <2>2
    <3>3. slots' = [slots EXCEPT ![i] = [loc |-> l, res |-> None, ver |-> slots[i].ver]]
        BY <3>2, <2>2, SlotMoved
    <3>4. slots[i].res \in {None, slots[i].ver} /\ slots[i].ver \in Nat
        BY <1>1, <2>1, <2>2 DEF SlotOk, Slot
    <3>5. [loc |-> l, res |-> None, ver |-> slots[i].ver] \in Slot
        BY <3>4 DEF Slot
    <3>6. slots'[i] \in Slot /\ slots'[i] # None /\ slots'[i].loc = l /\ slots'[i].res = None /\ slots'[i].ver = slots[i].ver
        BY <3>3, <3>5, <2>2, NoneAssumption DEF Slot
    <3>7. slots' \in [Payloads!Concepts -> Slot \cup {None}]
        BY <3>3, <3>5, <2>2
    <3>8. pendingLocs[i] = None \/ slots'[i].res = None
        BY <3>6, <1>1, <2>1 DEF WaitOk
    <3>. QED  BY <1>1, <2>1, <2>6, <2>2, <2>4, <3>3, <3>4, <3>6, <3>7, <3>8 DEF PayloadTypes
  <2>5. CASE ~resident
    <3>1. slots' = [slots EXCEPT ![i].loc = l, ![i].res = None]
        BY <1>3, <2>5 DEF Payloads!SetLoc
    <3>2. slots' = [slots EXCEPT ![i] = [slots[i] EXCEPT !.loc = l, !.res = None]]
        BY <3>1, <2>2
    <3>3. slots' = [slots EXCEPT ![i] = [loc |-> l, res |-> None, ver |-> slots[i].ver]]
        BY <3>2, <2>2, SlotMoved
    <3>4. slots[i].res \in {None, slots[i].ver} /\ slots[i].ver \in Nat
        BY <1>1, <2>1, <2>2 DEF SlotOk, Slot
    <3>5. [loc |-> l, res |-> None, ver |-> slots[i].ver] \in Slot
        BY <3>4 DEF Slot
    <3>6. slots'[i] \in Slot /\ slots'[i] # None /\ slots'[i].loc = l /\ slots'[i].res = None /\ slots'[i].ver = slots[i].ver
        BY <3>3, <3>5, <2>2, NoneAssumption DEF Slot
    <3>7. slots' \in [Payloads!Concepts -> Slot \cup {None}]
        BY <3>3, <3>5, <2>2
    <3>8. pendingLocs[i] = None \/ slots'[i].res = None
        BY <3>6, <1>1, <2>1 DEF WaitOk
    <3>. QED  BY <1>1, <2>1, <2>2, <2>5, <3>3, <3>4, <3>6, <3>7, <3>8 DEF PayloadTypes
  <2>. QED  BY <2>3, <2>4, <2>5
<1>. QED  BY <1>2, <1>3

(* A step of the write or the compaction under way, and of nothing else.   *)
LEMMA PayloadsLocate == ASSUME TInv, Payloads!Locate PROVE TInv'
<1>1. /\ PayloadTypes /\ WriteOk /\ LookOk /\ work.op = "locate"
      /\ Payloads!SetLoc(work.id, Here, TRUE)
      /\ work' = [work EXCEPT !.op = IF work.rolled THEN "seal" ELSE "apply"]
      /\ UNCHANGED <<sealedSeen, segIndex, actives, writes, look>>
    BY DEF TInv, Payloads!Locate, Here
<1>2. work.id \in Payloads!Concepts /\ Here \in Loc /\ Here[1] = work.part /\ Here[2] = work.ver /\ work.ver = writes
    BY <1>1 DEF WriteOk, Here, Loc, PayloadTypes, Work
<1>3. work' \in Work
    BY <1>1 DEF PayloadTypes, Work
<1>4. slots[work.id] # None => Here[2] >= slots[work.id].ver
    BY <1>2, <1>1 DEF TInv, SlotOk
<1>5. Here[1] \in sealedSeen \/ ~TRUE => Here[1] \in segIndex
    BY <1>1, <1>2 DEF WriteOk
<1>6. /\ slots' \in [Payloads!Concepts -> Slot \cup {None}]
      /\ pendingLocs' \in [Payloads!Concepts -> Loc \cup {None}]
      /\ \A j \in Payloads!Concepts \ {work.id} : slots'[j] = slots[j] /\ pendingLocs'[j] = pendingLocs[j]
      /\ slots'[work.id] # None <=> slots[work.id] # None
      /\ slots[work.id] # None =>
            /\ slots'[work.id].ver = slots[work.id].ver
            /\ slots'[work.id].res \in {None, slots[work.id].ver}
            /\ slots'[work.id].loc[2] >= slots[work.id].ver
            /\ slots'[work.id].res = None => slots'[work.id].loc[1] \in segIndex
            /\ pendingLocs'[work.id] # None => slots'[work.id].res = None
      /\ \/ pendingLocs'[work.id] = Here
         \/ pendingLocs'[work.id] = None /\ slots'[work.id] # None /\ slots'[work.id].loc = Here
    BY <1>1, <1>2, <1>4, <1>5, TellsLoc
<1>7. \A j \in Payloads!Concepts : SlotOk(j)' /\ WaitOk(j)'
    BY <1>1, <1>6 DEF TInv, SlotOk, WaitOk
<1>8. work'.id = work.id /\ work'.ver = work.ver /\ work'.part = work.part /\ work'.rolled = work.rolled
      /\ work'.dropped = work.dropped /\ work'.op = IF work.rolled THEN "seal" ELSE "apply"
    BY <1>1 DEF PayloadTypes, Work
<1>9. WriteOk'
    BY <1>1, <1>6, <1>8, <1>2 DEF WriteOk, Here
<1>10. MoveOk'
    BY <1>8 DEF MoveOk
<1>. QED  BY <1>1, <1>3, <1>6, <1>7, <1>9, <1>10 DEF TInv, PayloadTypes, LookOk

LEMMA PayloadsSealed == ASSUME TInv, Payloads!PartitionSealed PROVE TInv'
<1>1. /\ PayloadTypes /\ WriteOk /\ LookOk /\ work.op = "seal"
      /\ sealedSeen' = sealedSeen \cup {work.part}
      /\ slots' = [i \in Payloads!Concepts |->
                      IF i \in sealable[work.part] \cap Payloads!Live /\ slots[i].loc[1] = work.part
                      THEN [slots[i] EXCEPT !.res = None] ELSE slots[i]]
      /\ work' = [work EXCEPT !.op = "apply"]
      /\ UNCHANGED <<pendingLocs, segIndex, actives, writes, look>>
    BY DEF TInv, Payloads!PartitionSealed
<1>2. work.part < actives /\ work.part \in segIndex /\ work.part \in Nat
    BY <1>1 DEF WriteOk, PayloadTypes, Work
<1>3. work' \in Work
    BY <1>1 DEF PayloadTypes, Work
<1>4. ASSUME NEW i \in Payloads!Concepts
      PROVE  /\ slots'[i] \in Slot \cup {None} /\ SlotOk(i)' /\ WaitOk(i)'
             /\ slots'[i] # None <=> slots[i] # None
             /\ slots[i] # None => slots'[i].loc = slots[i].loc
  <2>1. CASE ~(i \in sealable[work.part] \cap Payloads!Live /\ slots[i].loc[1] = work.part)
    <3>1. slots'[i] = slots[i]
        BY <1>1, <2>1
    <3>. QED  BY <3>1, <1>1 DEF TInv, PayloadTypes, SlotOk, WaitOk
  <2>2. CASE i \in sealable[work.part] \cap Payloads!Live /\ slots[i].loc[1] = work.part
    <3>1. slots[i] \in Slot /\ slots[i] # None /\ slots[i].loc[1] = work.part
        BY <1>1, <2>2 DEF PayloadTypes, Payloads!Live
    <3>2. slots'[i] = [loc |-> slots[i].loc, res |-> None, ver |-> slots[i].ver]
        BY <1>1, <2>2, <3>1, SlotEvicted
    <3>3. slots'[i] \in Slot /\ slots'[i] # None
        BY <3>1, <3>2, NoneAssumption DEF Slot, Loc
    <3>. QED  BY <3>1, <3>2, <3>3, <1>1, <1>2 DEF TInv, SlotOk, WaitOk
  <2>. QED  BY <2>1, <2>2
<1>5. slots' \in [Payloads!Concepts -> Slot \cup {None}]
    BY <1>1, <1>4
<1>6. work'.id = work.id /\ work'.ver = work.ver /\ work'.part = work.part /\ work'.rolled = work.rolled
      /\ work'.dropped = work.dropped /\ work'.op = "apply"
    BY <1>1 DEF PayloadTypes, Work
<1>7. WriteOk'
  <2>1. work.id \in Payloads!Concepts /\ work.ver = writes /\ work.ver # 0 /\ work.rolled
        /\ (~work.dropped => \/ pendingLocs[work.id] = Here
                             \/ pendingLocs[work.id] = None /\ slots[work.id] # None /\ slots[work.id].loc = Here)
    BY <1>1 DEF WriteOk
  <2>2. slots[work.id] # None => slots'[work.id] # None /\ slots'[work.id].loc = slots[work.id].loc
    BY <1>4, <2>1
  <2>3. Here' = Here
    BY <1>6 DEF Here
  <2>. QED  BY <1>1, <1>2, <1>6, <2>1, <2>2, <2>3 DEF WriteOk
<1>8. MoveOk'
    BY <1>6 DEF MoveOk
<1>9. \A p \in sealedSeen' : p \in Nat /\ p < actives'
    BY <1>1, <1>2 DEF TInv
<1>. QED  BY <1>1, <1>3, <1>4, <1>5, <1>7, <1>8, <1>9 DEF TInv, PayloadTypes, LookOk

LEMMA PayloadsCancel == ASSUME TInv, Payloads!Cancel PROVE TInv'
<1>1. /\ PayloadTypes /\ WriteOk /\ work.op \in {"locate", "seal"}
      /\ work' = [work EXCEPT !.dropped = TRUE]
      /\ UNCHANGED <<slots, pendingLocs, sealedSeen, segIndex, actives, writes, look>>
    BY DEF TInv, Payloads!Cancel
<1>2. work' \in Work /\ work'.id = work.id /\ work'.ver = work.ver /\ work'.part = work.part
      /\ work'.rolled = work.rolled /\ work'.dropped /\ work'.op = work.op
    BY <1>1 DEF PayloadTypes, Work
<1>3. WriteOk' /\ MoveOk'
    BY <1>1, <1>2 DEF WriteOk, MoveOk
<1>. QED  BY <1>1, <1>2, <1>3 DEF TInv, PayloadTypes, SlotOk, WaitOk, LookOk

LEMMA PayloadsApply == ASSUME TInv, Payloads!Apply PROVE TInv'
<1>1. /\ PayloadTypes /\ WriteOk /\ work.op = "apply" /\ work' = Payloads!Resting
      /\ UNCHANGED <<sealedSeen, segIndex, actives, writes, look>>
    BY DEF TInv, Payloads!Apply
<1>2. work' \in Work /\ WriteOk' /\ MoveOk'
    BY <1>1 DEF Payloads!Resting, Work, WriteOk, MoveOk
<1>3. CASE work.dropped
    BY <1>1, <1>2, <1>3 DEF Payloads!Apply, TInv, PayloadTypes, SlotOk, WaitOk, LookOk
<1>4. CASE ~work.dropped
  <2> DEFINE i == work.id
             pend == pendingLocs[i]
             s == [slots EXCEPT ![i] =
                      [ver |-> work.ver, res |-> work.ver,
                       loc |-> IF pend # None THEN pend ELSE IF i \in Payloads!Live THEN slots[i].loc ELSE None]]
             r == [ver |-> work.ver, res |-> work.ver, loc |-> Here]
  <2>1. /\ pendingLocs' = [pendingLocs EXCEPT ![i] = None]
        /\ IF pend = None THEN slots' = s ELSE Payloads!SealablePush(s, i, pend)
    BY <1>1, <1>4 DEF Payloads!Apply
  <2>2. i \in Payloads!Concepts /\ work.ver = writes /\ work.ver # 0 /\ work.ver \in Nat /\ Here \in Loc
        /\ Here[1] = work.part /\ Here[2] = work.ver /\ Here # None
    BY <1>1, NoneAssumption DEF WriteOk, PayloadTypes, Work, Here, Loc
  <2>3. s = [slots EXCEPT ![i] = r]
    BY <1>1, <1>4, <2>2 DEF WriteOk, Payloads!Live
  <2>4. r \in Slot /\ r # None
    BY <2>2, NoneAssumption DEF Slot, Loc
  <2>5. \/ slots' = [slots EXCEPT ![i] = r]
        \/ slots' = [slots EXCEPT ![i] = [loc |-> Here, res |-> None, ver |-> work.ver]] /\ work.part \in segIndex
    <3>1. CASE pend = None
        BY <2>1, <2>3, <3>1
    <3>2. CASE pend # None /\ pend[1] \notin sealedSeen
        BY <2>1, <2>3, <3>2 DEF Payloads!SealablePush
    <3>3. CASE pend # None /\ pend[1] \in sealedSeen
      <4>1. pend = Here
        BY <1>1, <1>4, <3>3 DEF WriteOk
      <4>2. s[i] = r /\ s[i].loc = pend /\ s \in [Payloads!Concepts -> Slot \cup {None}]
        BY <1>1, <2>2, <2>3, <2>4, <4>1 DEF PayloadTypes
      <4>3. slots' = [s EXCEPT ![i].res = None]
        BY <2>1, <3>3, <4>2 DEF Payloads!SealablePush
      <4>4. [r EXCEPT !.res = None] = [loc |-> Here, res |-> None, ver |-> work.ver]
        BY <2>4, SlotEvicted
      <4>5. slots' = [slots EXCEPT ![i] = [loc |-> Here, res |-> None, ver |-> work.ver]]
        BY <4>2, <4>3, <4>4, <2>3, <1>1 DEF PayloadTypes
      <4>6. work.part \in segIndex
        BY <1>1, <2>2, <3>3, <4>1 DEF WriteOk
      <4>. QED  BY <4>5, <4>6
    <3>. QED  BY <3>1, <3>2, <3>3
  <2>6. /\ slots' \in [Payloads!Concepts -> Slot \cup {None}]
        /\ \A j \in Payloads!Concepts \ {i} : slots'[j] = slots[j] /\ pendingLocs'[j] = pendingLocs[j]
        /\ slots'[i].ver = work.ver /\ slots'[i].loc = Here
        /\ slots'[i].res = work.ver \/ (slots'[i].res = None /\ work.part \in segIndex)
    <3>1. PICK q : /\ slots' = [slots EXCEPT ![i] = q]
                   /\ q = r \/ (q = [loc |-> Here, res |-> None, ver |-> work.ver] /\ work.part \in segIndex)
        BY <2>5
    <3>2. /\ q \in Slot /\ q.ver = work.ver /\ q.loc = Here
          /\ q.res = work.ver \/ (q.res = None /\ work.part \in segIndex)
        BY <3>1, <2>2 DEF Slot
    <3>. QED  BY <3>1, <3>2, <2>1, <2>2, <1>1 DEF PayloadTypes
  <2>7. pendingLocs' \in [Payloads!Concepts -> Loc \cup {None}] /\ pendingLocs'[i] = None
    BY <2>1, <2>2, <1>1 DEF PayloadTypes
  <2> HIDE DEF i, pend, s, r
  <2>8. ASSUME NEW j \in Payloads!Concepts PROVE SlotOk(j)' /\ WaitOk(j)'
    <3>1. CASE j = i
        BY <1>1, <2>2, <2>6, <2>7, <3>1, NoneAssumption DEF SlotOk, WaitOk
    <3>2. CASE j # i
        BY <1>1, <2>6, <3>2 DEF TInv, SlotOk, WaitOk
    <3>. QED  BY <3>1, <3>2
  <2>. QED  BY <1>1, <1>2, <2>6, <2>7, <2>8 DEF TInv, PayloadTypes, LookOk
<1>. QED  BY <1>3, <1>4

LEMMA PayloadsRemove == ASSUME TInv, Payloads!Remove PROVE TInv'
<1>1. PICK i \in Payloads!Concepts :
        /\ slots[i] # None /\ (work.op = "rest" \/ work.dropped)
        /\ slots' = [slots EXCEPT ![i] = None]
        /\ UNCHANGED <<pendingLocs, sealedSeen, segIndex, actives, work, writes, look>>
    BY DEF Payloads!Remove, Payloads!Live
<1>2. PayloadTypes /\ slots' \in [Payloads!Concepts -> Slot \cup {None}]
    BY <1>1 DEF TInv, PayloadTypes
<1>3. \A j \in Payloads!Concepts : SlotOk(j)' /\ WaitOk(j)'
    BY <1>1, <1>2 DEF TInv, PayloadTypes, SlotOk, WaitOk
<1>4. WriteOk' /\ MoveOk'
    BY <1>1 DEF TInv, WriteOk, MoveOk, Here
<1>. QED  BY <1>1, <1>2, <1>3, <1>4 DEF TInv, PayloadTypes, LookOk

LEMMA PayloadsSwap == ASSUME TInv, Payloads!Swap PROVE TInv'
<1>1. /\ PayloadTypes /\ work.op = "rest"
      /\ work' = [Payloads!Resting EXCEPT !.op = "relocate", !.part = actives + 1, !.todo = Payloads!Live]
      /\ segIndex' = segIndex \cup {actives + 1}
      /\ UNCHANGED <<slots, pendingLocs, sealedSeen, actives, writes, look>>
    BY DEF TInv, Payloads!Swap
<1>2. work' = [op |-> "relocate", id |-> None, ver |-> 0, part |-> actives + 1, rolled |-> FALSE, dropped |-> FALSE,
               todo |-> Payloads!Live]
    BY <1>1 DEF Payloads!Resting
<1>3. work' \in Work
  <2>1. PICK t \in SUBSET Payloads!Concepts : t = Payloads!Live
    BY DEF Payloads!Live
  <2>2. PICK n \in Nat : n = actives + 1
    BY <1>1 DEF PayloadTypes
  <2>3. work' = [op |-> "relocate", id |-> None, ver |-> 0, part |-> n, rolled |-> FALSE, dropped |-> FALSE, todo |-> t]
    BY <1>2, <2>1, <2>2
  <2>. QED  BY <2>3 DEF Work
<1>5. work'.op = "relocate" /\ work'.part = actives' + 1 /\ ~work'.dropped /\ work'.todo = Payloads!Live
  <2>1. actives' = actives
    BY <1>1
  <2>. QED  BY <1>2, <2>1, Zenon
<1>6. WriteOk'
    BY <1>5 DEF WriteOk
<1>4. MoveOk'
    BY <1>1, <1>5 DEF MoveOk, Payloads!Live
<1>. QED  BY <1>1, <1>3, <1>4, <1>6 DEF TInv, PayloadTypes, SlotOk, WaitOk, LookOk

LEMMA PayloadsRelocate == ASSUME TInv, Payloads!Relocate PROVE TInv'
<1>1. PICK i \in work.todo :
        /\ work.op = "relocate"
        /\ Payloads!SetLoc(i, <<work.part, slots[i].ver>>, FALSE)
        /\ work' = [work EXCEPT !.todo = @ \ {i}]
        /\ UNCHANGED <<sealedSeen, segIndex, actives, writes, look>>
    BY DEF Payloads!Relocate
<1>2. /\ PayloadTypes /\ i \in Payloads!Concepts /\ slots[i] # None /\ slots[i] \in Slot
      /\ work.part \in segIndex /\ work.part = actives + 1 /\ ~work.dropped /\ actives \in Nat
    BY <1>1 DEF TInv, MoveOk, PayloadTypes, Work
<1>4. slots[i].ver \in Nat
    BY <1>2 DEF Slot
<1>3. PICK l \in Loc : l = <<work.part, slots[i].ver>> /\ l[1] = work.part /\ l[2] = slots[i].ver
  <2>1. work.part \in Nat
    BY <1>2
  <2>2. <<work.part, slots[i].ver>> \in Loc
    BY <2>1, <1>4 DEF Loc
  <2>. QED  BY <2>2
<1>5. /\ slots' \in [Payloads!Concepts -> Slot \cup {None}]
      /\ pendingLocs' \in [Payloads!Concepts -> Loc \cup {None}]
      /\ \A j \in Payloads!Concepts \ {i} : slots'[j] = slots[j] /\ pendingLocs'[j] = pendingLocs[j]
      /\ slots'[i] # None
      /\ slots'[i].ver = slots[i].ver
      /\ slots'[i].res = None /\ slots'[i].loc = l
      /\ pendingLocs'[i] # None => slots'[i].res = None
  <2>3. Payloads!SetLoc(i, l, FALSE)
    BY <1>1, <1>3, Zenon
  <2>4. l[1] \in segIndex
    BY <1>2, <1>3, Zenon
  <2>1. l[2] >= slots[i].ver
    BY <1>3, <1>4
  <2>2. TInv
    OBVIOUS
  <2>. QED  BY <2>1, <2>2, <2>3, <2>4, <1>2, TellsLoc
<1>6. work' \in Work /\ work'.op = "relocate" /\ work'.part = work.part /\ work'.dropped = work.dropped
      /\ work'.todo = work.todo \ {i}
    BY <1>1, <1>2 DEF PayloadTypes, Work
<1>7. ASSUME NEW j \in Payloads!Concepts PROVE SlotOk(j)' /\ WaitOk(j)'
  <2>1. CASE j = i
    BY <1>1, <1>2, <1>3, <1>4, <1>5, <2>1 DEF TInv, SlotOk, WaitOk
  <2>2. CASE j # i
    BY <1>1, <1>5, <2>2 DEF TInv, SlotOk, WaitOk
  <2>. QED  BY <2>1, <2>2
<1>9. WriteOk'
    BY <1>6 DEF WriteOk
<1>10. MoveOk
    BY DEF TInv
<1>11. \A j \in work'.todo : slots'[j] # None
    BY <1>1, <1>2, <1>5, <1>6, <1>10 DEF MoveOk, PayloadTypes, Work
<1>12. ASSUME NEW j \in Payloads!Concepts \ work'.todo, slots'[j] # None
       PROVE  slots'[j].res = None /\ slots'[j].loc[1] = work'.part
  <2>1. CASE j = i
    BY <1>3, <1>5, <1>6, <2>1
  <2>2. CASE j # i
    BY <1>1, <1>5, <1>6, <1>10, <1>12, <2>2 DEF MoveOk
  <2>. QED  BY <2>1, <2>2
<1>8. MoveOk'
    BY <1>1, <1>2, <1>6, <1>11, <1>12 DEF MoveOk
<1>. QED  BY <1>1, <1>2, <1>5, <1>6, <1>7, <1>8, <1>9 DEF TInv, PayloadTypes, LookOk

LEMMA PayloadsDropOld == ASSUME TInv, Payloads!DropOld PROVE TInv'
<1>1. /\ PayloadTypes /\ LookOk /\ work.op = "relocate" /\ work.todo = {}
      /\ segIndex' = {work.part} /\ actives' = work.part + 1 /\ work' = Payloads!Resting
      /\ look' = [look EXCEPT !.moved = TRUE]
      /\ UNCHANGED <<slots, pendingLocs, sealedSeen, writes>>
    BY DEF TInv, Payloads!DropOld
<1>2. work.part = actives + 1 /\ actives \in Nat
    BY <1>1 DEF TInv, MoveOk, PayloadTypes
<1>3. look' \in Look /\ look'.moved /\ look'.loc = look.loc /\ look'.floor = look.floor /\ look'.got = look.got
    BY <1>1 DEF PayloadTypes, Look
<1>4. LookOk'
    BY <1>1, <1>3 DEF LookOk
<1>5. ASSUME NEW j \in Payloads!Concepts PROVE SlotOk(j)' /\ WaitOk(j)'
    BY <1>1 DEF TInv, SlotOk, WaitOk, MoveOk
<1>6. work' \in Work /\ WriteOk' /\ MoveOk'
    BY <1>1 DEF Payloads!Resting, Work, WriteOk, MoveOk
<1>7. \A p \in sealedSeen' : p \in Nat /\ p < actives'
    BY <1>1, <1>2 DEF TInv
<1>. QED  BY <1>1, <1>2, <1>3, <1>4, <1>5, <1>6, <1>7 DEF TInv, PayloadTypes

LEMMA PayloadsGet == ASSUME TInv, Payloads!Get PROVE TInv'
<1>1. PICK i \in Payloads!Concepts :
        /\ slots[i] # None
        /\ look' = [Payloads!Looking EXCEPT !.id = i, !.floor = slots[i].ver, !.got = slots[i].res,
                                            !.loc = IF slots[i].res = None THEN slots[i].loc ELSE None]
        /\ UNCHANGED <<slots, pendingLocs, sealedSeen, segIndex, actives, work, writes>>
    BY DEF Payloads!Get, Payloads!Live
<1>2. slots[i] \in Slot /\ SlotOk(i) /\ PayloadTypes
    BY <1>1 DEF TInv, PayloadTypes
<1>3. look' = [id |-> i, loc |-> IF slots[i].res = None THEN slots[i].loc ELSE None, floor |-> slots[i].ver,
               got |-> slots[i].res, moved |-> FALSE]
    BY <1>1 DEF Payloads!Looking
<1>4. look' \in Look
    BY <1>2, <1>3 DEF Look, Slot
<1>5. LookOk'
    BY <1>1, <1>2, <1>3 DEF LookOk, SlotOk, Slot, Loc
<1>. QED  BY <1>1, <1>2, <1>4, <1>5 DEF TInv, PayloadTypes, SlotOk, WaitOk, WriteOk, MoveOk, Here

LEMMA PayloadsRead == ASSUME TInv, Payloads!ReadPayload PROVE TInv'
<1>1. /\ PayloadTypes /\ LookOk /\ look.loc # None
      /\ look' = [look EXCEPT !.loc = None, !.got = IF look.loc[1] \in segIndex THEN look.loc[2] ELSE Payloads!Failed]
      /\ UNCHANGED <<slots, pendingLocs, sealedSeen, segIndex, actives, work, writes>>
    BY DEF TInv, Payloads!ReadPayload
<1>2. look' \in Look /\ look'.loc = None /\ look'.floor = look.floor /\ look'.moved = look.moved
      /\ look'.got = (IF look.loc[1] \in segIndex THEN look.loc[2] ELSE 0)
    BY <1>1 DEF PayloadTypes, Look, Loc, Payloads!Failed
<1>3. LookOk'
    BY <1>1, <1>2 DEF LookOk
<1>. QED  BY <1>1, <1>2, <1>3 DEF TInv, PayloadTypes, SlotOk, WaitOk, WriteOk, MoveOk, Here

(* Every step.                                                             *)
LEMMA PayloadsStepKeeps == ASSUME TInv, [Payloads!TNext]_payloadsVars PROVE TInv'
<1>1. CASE UNCHANGED payloadsVars
    BY <1>1 DEF payloadsVars, TInv, PayloadTypes, SlotOk, WaitOk, WriteOk, MoveOk, Here, LookOk
<1>. QED
    BY <1>1, PayloadsAppend, PayloadsLocate, PayloadsSealed, PayloadsCancel, PayloadsApply, PayloadsRemove,
       PayloadsSwap, PayloadsRelocate, PayloadsDropOld, PayloadsGet, PayloadsRead
    DEF Payloads!TNext


LEMMA PayloadsImply == TInv => Payloads!ReadsCurrent
BY DEF Payloads!ReadsCurrent, Payloads!Failed, TInv, LookOk

-----------------------------------------------------------------------------
(* The review.  Whatever the disk holds, a replay accepts.  Until the      *)
(* record of the schema is written the types on disk are the baseline,     *)
(* which a rollback goes back to, and all that is served besides is on     *)
(* disk; the types served are others only if the report says that one was  *)
(* created.                                                                *)
RInv ==
    /\ pos \in 0 .. 8
    /\ pos \in {1, 2} => "schema" \notin DOMAIN report
    /\ Review!Grounded(disk)
    /\ refs \subseteq disk \cap Review!Concepts
    /\ broken \/ disk \subseteq live
    /\ live \ disk \subseteq Review!Types
    /\ ~Review!Typing => live \subseteq disk
    /\ Review!Typing => /\ baseline \subseteq disk /\ (broken \/ disk \cap Review!Types \subseteq baseline)
                        /\ Review!Changed \/ live \subseteq disk
                        /\ DOMAIN report \subseteq live \cap Review!Types
    /\ "schema" \in DOMAIN report => DOMAIN report \ {"schema"} \subseteq live \cap disk

LEMMA ReviewBegin == ASSUME Review!RInit PROVE RInv
<1>1. /\ live \in {{}, {"type"}, {"type", "c2"}} /\ disk = live /\ pos = 0 /\ refs = {} /\ DOMAIN report = {}
    BY DEF Review!RInit
<1>2. ~Review!Typing
    BY <1>1 DEF Review!Typing, Review!SchemaDue
<1>3. Review!Grounded(disk)
    BY <1>1 DEF Review!Grounded, Review!Concepts
<1>. QED  BY <1>1, <1>2, <1>3 DEF RInv

LEMMA ItemsAre ==
    ASSUME NEW n \in 1 .. 7
    PROVE  /\ Review!Items[n] \in {"type", "rtype", "c1", "c2", "link", "rule", "act"}
           /\ Review!Items[n] \in Review!Types <=> n \in {1, 2}
           /\ Review!Items[n] # "schema"
BY DEF Review!Items, Review!Types

LEMMA SevenItems == Len(Review!Items) = 7
BY DEF Review!Items

(* What an instance was prepared on is on disk.                            *)
LEMMA GroundedWith ==
    ASSUME RInv, ~Review!Typing, NEW merge \in BOOLEAN, Review!Prepared(merge),
           Review!Item \in {"c1", "c2", "link", "rule", "act"}
    PROVE  Review!Grounded(disk \cup {Review!Item})
<1>1. live \subseteq disk /\ refs \subseteq disk /\ Review!Grounded(disk)
    BY DEF RInv
<1>2. Review!Item \in Review!Concepts => "type" \in disk
    BY <1>1 DEF Review!Prepared
<1>3. Review!Item = "link" => "rtype" \in disk /\ "c1" \in disk /\ "c2" \in disk
    BY <1>1 DEF Review!Prepared, Review!Concepts, Review!Ends, Review!Resolves
<1>4. Review!Item = "act" => "c1" \in disk
    BY <1>1 DEF Review!Prepared, Review!Concepts, Review!Ends, Review!Resolves
<1>5. PICK it : it = Review!Item
    OBVIOUS
<1>6. Review!Item \in {"link", "act"} => "type" \in disk
    BY <1>1, <1>3, <1>4 DEF Review!Grounded, Review!Concepts
<1>7. ASSUME NEW i \in disk \cup {it}, i \in Review!Concepts \cup {"link", "act"} PROVE "type" \in disk \cup {it}
  <2>1. CASE i \in disk
    BY <1>1, <1>7, <2>1 DEF Review!Grounded
  <2>2. CASE i = it
    BY <1>2, <1>5, <1>6, <1>7, <2>2
  <2>. QED  BY <2>1, <2>2
<1>8. "link" \in disk \cup {it} => "rtype" \in disk \cup {it} /\ Review!Concepts \subseteq disk \cup {it}
    BY <1>1, <1>3, <1>5 DEF Review!Grounded, Review!Concepts
<1>9. "act" \in disk \cup {it} => "c1" \in disk \cup {it}
    BY <1>1, <1>4, <1>5 DEF Review!Grounded
<1>. QED  BY <1>5, <1>7, <1>8, <1>9 DEF Review!Grounded

(* The record of the schema takes no type away that is in use.             *)
LEMMA GroundedSchema ==
    ASSUME Review!Grounded(disk), disk \subseteq live
    PROVE  Review!Grounded(Review!SchemaOf(live) \cup (disk \ Review!Types))
<1>1. disk \subseteq Review!SchemaOf(live) \cup (disk \ Review!Types)
    BY DEF Review!SchemaOf
<1>2. \A i \in Review!SchemaOf(live) \cup (disk \ Review!Types) : i \in disk \/ i \in {"type", "rtype"}
    BY DEF Review!SchemaOf, Review!Types
<1>. QED  BY <1>1, <1>2 DEF Review!Grounded, Review!Concepts

LEMMA ReviewApply == ASSUME RInv, Review!Apply PROVE RInv'
<1>1. /\ pos = 0 /\ pos' = 1 /\ refs' = {} /\ DOMAIN report' = {} /\ baseline' = live \cap Review!Types
      /\ UNCHANGED <<live, disk, broken>>
    BY DEF Review!Apply, Review!SchemaOf
<1>2. live \subseteq disk
    BY <1>1 DEF RInv, Review!Typing, Review!SchemaDue
<1>3. Review!Grounded(disk)'
    BY <1>1 DEF RInv, Review!Grounded
<1>. QED  BY <1>1, <1>2, <1>3 DEF RInv

(* An item that leaves the graph, the disk and the refs as they are, and   *)
(* is not reported as written.                                             *)
LEMMA ReviewPasses ==
    ASSUME RInv, Review!Running, NEW outcome \in {"skipped", "failed"}, Review!Answer(outcome),
           Review!Advance \/ (Review!Finish /\ pos > 2), broken => broken', UNCHANGED <<live, disk, refs, baseline>>
    PROVE  RInv'
<1>1. pos \in 1 .. 7 /\ ~Review!SchemaDue
    BY SevenItems DEF Review!Running
<1>2. report' = report
    BY DEF Review!Answer
<1>3. pos' \in 0 .. 8 /\ (Review!Typing' <=> Review!Typing) /\ (pos' \in {1, 2} => pos = 1)
    BY <1>1, <1>2 DEF Review!Advance, Review!Finish, Review!Typing, Review!SchemaDue, RInv
<1>4. (Review!Changed' <=> Review!Changed) /\ (Review!Grounded(disk)' <=> Review!Grounded(disk))
    BY <1>2 DEF Review!Changed, Review!Grounded
<1>. QED  BY <1>2, <1>3, <1>4 DEF RInv

(* The types taken back: what is served is on disk.                        *)
LEMMA RollsBack ==
    ASSUME RInv, Review!Typing
    PROVE  Review!RolledBack \subseteq disk /\ (broken \/ disk \subseteq Review!RolledBack)
BY DEF RInv, Review!RolledBack

(* A refusal; among the types a strict one takes the schema back.          *)
LEMMA ReviewRefuses == ASSUME RInv, Review!Running, Review!Refuse PROVE RInv'
<1>1. /\ pos \in 1 .. 7 /\ ~Review!SchemaDue /\ Review!Answer("failed")
      /\ IF strict THEN Review!Finish ELSE Review!Advance
      /\ live' = IF strict /\ Review!Item \in Review!Types THEN Review!RolledBack ELSE live
      /\ UNCHANGED <<disk, broken, refs, baseline>>
    BY SevenItems DEF Review!Running, Review!Refuse
<1>2. Review!Item \in Review!Types <=> pos \in {1, 2}
    BY <1>1, ItemsAre DEF Review!Item
<1>3. CASE strict /\ Review!Item \in Review!Types
  <2>1. pos' = 0 /\ live' = Review!RolledBack /\ report' = report
    BY <1>1, <1>3 DEF Review!Finish, Review!Answer
  <2>2. live' \subseteq disk /\ (broken \/ disk \subseteq live')
    BY <1>2, <1>3, <2>1, RollsBack DEF Review!Typing
  <2>3. ~Review!Typing' /\ "schema" \notin DOMAIN report'
    BY <1>2, <1>3, <2>1 DEF RInv, Review!Typing, Review!SchemaDue
  <2>4. Review!Grounded(disk)'
    BY <1>1 DEF RInv, Review!Grounded
  <2>. QED  BY <1>1, <2>1, <2>2, <2>3, <2>4 DEF RInv
<1>4. CASE ~(strict /\ Review!Item \in Review!Types)
  <2>1. Review!Advance \/ (Review!Finish /\ pos > 2)
    BY <1>1, <1>2, <1>4
  <2>2. UNCHANGED <<live, disk, broken, refs, baseline>>
    BY <1>1, <1>4
  <2>. QED  BY <1>1, <2>1, <2>2, ReviewPasses
<1>. QED  BY <1>3, <1>4

LEMMA ReviewDeclares == ASSUME RInv, Review!DeclareType PROVE RInv'
<1>1. Review!Running /\ Review!Item \in Review!Types
    BY DEF Review!DeclareType
<1>2. pos \in {1, 2} /\ Review!Item \in {"type", "rtype"} /\ Review!Item # "schema"
    BY <1>1, ItemsAre, SevenItems DEF Review!Running, Review!Item, Review!Types
<1>3. CASE /\ live' = live \cup {Review!Item} /\ Review!Answer("created") /\ Review!Advance
           /\ UNCHANGED <<disk, broken, strict, refs, baseline, served>>
  <2>1. /\ pos' \in 1 .. 3
        /\ DOMAIN report' = DOMAIN report \cup {Review!Item}
        /\ report'[Review!Item] = "created"
    BY <1>1, <1>2, <1>3 DEF Review!Advance, Review!Answer
  <2>2. Review!Changed'
    BY <1>1, <2>1 DEF Review!Changed
  <2>3. Review!Typing /\ "schema" \notin DOMAIN report'
    BY <1>2, <2>1 DEF RInv, Review!Typing
  <2>4. Review!Typing'
    BY <2>1, <2>3 DEF Review!Typing, Review!SchemaDue
  <2>5. Review!Grounded(disk)'
    BY <1>3 DEF RInv, Review!Grounded
  <2>. QED  BY <1>1, <1>3, <2>1, <2>2, <2>3, <2>4, <2>5 DEF RInv
<1>4. CASE Review!Refuse
    BY <1>1, <1>4, ReviewRefuses
<1>. QED  BY <1>3, <1>4 DEF Review!DeclareType

(* The schema's record: memory and disk agree again, whether it is written *)
(* or the types are taken back, unless it is in the file all the same.     *)
LEMMA ReviewJournals == ASSUME RInv, Review!Journal PROVE RInv'
<1> DEFINE written == Review!SchemaOf(live) \cup (disk \ Review!Types)
<1>1. pos = 3 /\ "schema" \notin DOMAIN report /\ UNCHANGED <<refs, baseline>> /\ Review!Typing
    BY DEF Review!Journal, Review!SchemaDue, Review!Typing
<1>2. /\ Review!Grounded(disk) /\ refs \subseteq disk \cap Review!Concepts /\ live \ disk \subseteq Review!Types
      /\ baseline \subseteq disk /\ (Review!Changed \/ live \subseteq disk) /\ DOMAIN report \subseteq live \cap Review!Types
      /\ broken \/ disk \subseteq live
    BY <1>1 DEF RInv
<1>3. ASSUME ~broken
      PROVE  /\ Review!Grounded(written) /\ written \subseteq live /\ live \subseteq written /\ disk \subseteq written
  <2>1. disk \subseteq live
    BY <1>2, <1>3
  <2>2. Review!Grounded(written)
    BY <1>2, <2>1, GroundedSchema
  <2>. QED  BY <1>2, <2>1, <2>2 DEF Review!SchemaOf
<1>4. CASE /\ Review!Changed => ~broken
           /\ disk' = IF Review!Changed THEN written ELSE disk
           /\ DOMAIN report' = DOMAIN report \cup {"schema"}
           /\ UNCHANGED <<live, broken, pos>>
  <2>1. /\ Review!Grounded(disk') /\ live \subseteq disk' /\ disk \subseteq disk' /\ (broken \/ disk' \subseteq live)
    BY <1>2, <1>3, <1>4
  <2>2. ~Review!Typing'
    BY <1>1, <1>4 DEF Review!Typing, Review!SchemaDue
  <2>3. Review!Grounded(disk)'
    BY <2>1 DEF Review!Grounded
  <2>. QED  BY <1>1, <1>2, <1>4, <2>1, <2>2, <2>3 DEF RInv
<1>5. CASE Review!AppendFails(written) /\ live' = Review!RolledBack /\ report' = << >> /\ pos' = 0
  <2>1. live' \subseteq disk /\ (broken \/ disk \subseteq live')
    BY <1>1, <1>5, RollsBack
  <2>2. \/ disk' = disk /\ (broken => broken')
        \/ ~broken /\ broken' = TRUE /\ disk' = written
    BY <1>5 DEF Review!AppendFails
  <2>3. Review!Grounded(disk') /\ disk \subseteq disk' /\ (broken' \/ disk' \subseteq live')
    BY <1>2, <1>3, <2>1, <2>2
  <2>4. Review!Grounded(disk)'
    BY <2>3 DEF Review!Grounded
  <2>5. ~Review!Typing' /\ DOMAIN report' = {}
    BY <1>5 DEF Review!Typing, Review!SchemaDue
  <2>. QED  BY <1>1, <1>2, <1>5, <2>1, <2>3, <2>4, <2>5 DEF RInv
<1>6. \/ /\ Review!Changed => ~broken
         /\ disk' = IF Review!Changed THEN written ELSE disk
         /\ DOMAIN report' = DOMAIN report \cup {"schema"}
         /\ UNCHANGED <<live, broken, pos>>
      \/ Review!AppendFails(written) /\ live' = Review!RolledBack /\ report' = << >> /\ pos' = 0
    BY DEF Review!Journal, Review!Finish
<1>. QED  BY <1>4, <1>5, <1>6

(* The record of an instance is on disk with what it needs before it is    *)
(* live.                                                                   *)
LEMMA ReviewWrites ==
    ASSUME RInv, Review!Running, Review!Item \notin Review!Types, NEW merge \in BOOLEAN, Review!Prepared(merge),
           disk' = disk \cup {Review!Item}, live' = live \cup {Review!Item},
           refs' = IF Review!Item \in Review!Concepts THEN refs \cup {Review!Item} ELSE refs,
           NEW outcome \in {"merged", "created"}, Review!Answer(outcome),
           Review!Advance, UNCHANGED <<broken, baseline>>
    PROVE  RInv'
<1>1. pos \in 3 .. 7 /\ ~Review!Typing /\ pos' = pos + 1
    BY SevenItems, ItemsAre DEF Review!Running, Review!Item, RInv, Review!Typing, Review!SchemaDue, Review!Advance
<1>2. live \subseteq disk /\ Review!Item \in {"c1", "c2", "link", "rule", "act"}
    BY <1>1, ItemsAre DEF RInv, Review!Item, Review!Types
<1>3. DOMAIN report' = DOMAIN report \cup {Review!Item}
    BY DEF Review!Answer
<1>4. ~Review!Typing' /\ pos' \in 0 .. 8 /\ pos' > 3
    BY <1>1 DEF Review!Typing, Review!SchemaDue
<1>5. Review!Grounded(disk \cup {Review!Item})
    BY <1>1, <1>2, GroundedWith
<1>6. Review!Grounded(disk)'
    BY <1>5 DEF Review!Grounded
<1>7. PICK it : it = Review!Item
    OBVIOUS
<1>8. live' \subseteq disk' /\ (broken \/ disk' \subseteq live') /\ refs' \subseteq disk' \cap Review!Concepts
    BY <1>2 DEF RInv
<1>9. "schema" \in DOMAIN report' => DOMAIN report' \ {"schema"} \subseteq live' \cap disk'
    BY <1>2, <1>3, <1>7 DEF RInv
<1>. QED  BY <1>4, <1>6, <1>8, <1>9 DEF RInv

(* An append that fails may yet leave the record.                          *)
LEMMA ReviewLoses ==
    ASSUME RInv, Review!Running, Review!Item \notin Review!Types, NEW merge \in BOOLEAN, Review!Prepared(merge),
           Review!AppendFails(disk \cup {Review!Item}), Review!Answer("failed"),
           IF strict THEN Review!Finish ELSE Review!Advance, UNCHANGED <<live, refs, baseline>>
    PROVE  RInv'
<1>1. pos \in 3 .. 7 /\ ~Review!Typing
    BY SevenItems, ItemsAre DEF Review!Running, Review!Item, RInv, Review!Typing, Review!SchemaDue
<1>2. Review!Item \in {"c1", "c2", "link", "rule", "act"}
    BY <1>1, ItemsAre DEF Review!Item, Review!Types
<1>3. CASE UNCHANGED disk /\ broken' \in {broken, TRUE}
  <2>1. broken => broken'
    BY <1>3, Zenon
  <2>2. Review!Advance \/ (Review!Finish /\ pos > 2)
    BY <1>1
  <2>. QED  BY <1>3, <2>1, <2>2, ReviewPasses
<1>4. CASE ~broken /\ broken' = TRUE /\ disk' = disk \cup {Review!Item}
  <2>1. Review!Grounded(disk \cup {Review!Item})
    BY <1>1, <1>2, GroundedWith
  <2>2. Review!Grounded(disk)'
    BY <1>4, <2>1 DEF Review!Grounded
  <2>3. report' = report /\ pos' \in 0 .. 8 /\ pos' \notin {1, 2} /\ ~Review!Typing'
    BY <1>1 DEF Review!Answer, Review!Finish, Review!Advance, Review!Typing, Review!SchemaDue
  <2>4. disk \subseteq disk'
    BY <1>4
  <2>. QED  BY <1>1, <1>4, <2>2, <2>3, <2>4 DEF RInv
<1>. QED  BY <1>3, <1>4 DEF Review!AppendFails

LEMMA ReviewInstance == ASSUME RInv, Review!WriteInstance PROVE RInv'
<1>1. Review!Running /\ Review!Item \notin Review!Types /\ pos > 2
    BY SevenItems, ItemsAre DEF Review!WriteInstance, Review!Running, Review!Item
<1>2. CASE Review!Refuse
    BY <1>1, <1>2, ReviewRefuses
<1>3. ASSUME NEW merge \in BOOLEAN, Review!Prepared(merge),
             disk' = disk \cup {Review!Item}, live' = live \cup {Review!Item},
             refs' = IF Review!Item \in Review!Concepts THEN refs \cup {Review!Item} ELSE refs,
             Review!Answer(IF merge /\ Review!Item \in Review!Concepts \cap live THEN "merged" ELSE "created"),
             Review!Advance, UNCHANGED <<broken, baseline>>
      PROVE  RInv'
  <2>1. PICK outcome \in {"merged", "created"} :
           outcome = IF merge /\ Review!Item \in Review!Concepts \cap live THEN "merged" ELSE "created"
    OBVIOUS
  <2>2. Review!Answer(outcome)
    BY <1>3, <2>1
  <2>. QED  BY <1>1, <1>3, <2>2, ReviewWrites
<1>4. ASSUME NEW merge \in BOOLEAN, Review!Prepared(merge), Review!AppendFails(disk \cup {Review!Item}),
             Review!Answer("failed"), IF strict THEN Review!Finish ELSE Review!Advance, UNCHANGED <<live, refs, baseline>>
      PROVE  RInv'
    BY <1>1, <1>4, ReviewLoses
<1>. QED  BY <1>2, <1>3, <1>4 DEF Review!WriteInstance

LEMMA ReviewRestarts == ASSUME RInv, Review!Restart PROVE RInv'
<1>1. /\ live' = disk /\ disk' = disk /\ pos' = 0 /\ refs' = {} /\ DOMAIN report' = {}
    BY DEF Review!Restart, Review!Finish
<1>2. ~Review!Typing'
    BY <1>1 DEF Review!Typing, Review!SchemaDue
<1>3. Review!Grounded(disk)'
    BY <1>1 DEF RInv, Review!Grounded
<1>. QED  BY <1>1, <1>2, <1>3 DEF RInv

LEMMA ReviewEnds == ASSUME RInv, Review!End PROVE RInv'
<1>1. pos = 8 /\ pos' = 0 /\ UNCHANGED <<live, disk, broken, refs, baseline, report>>
    BY SevenItems DEF Review!End, Review!Finish
<1>2. ~Review!Typing /\ ~Review!Typing'
    BY <1>1 DEF Review!Typing, Review!SchemaDue
<1>3. Review!Grounded(disk)'
    BY <1>1 DEF RInv, Review!Grounded
<1>. QED  BY <1>1, <1>2, <1>3 DEF RInv

LEMMA ReviewStepKeeps == ASSUME RInv, [Review!RNext]_reviewVars PROVE RInv'
<1>1. CASE UNCHANGED reviewVars
  <2>1. UNCHANGED <<live, disk, broken, pos, refs, baseline, report>>
    BY <1>1 DEF reviewVars
  <2>2. Review!Grounded(disk)' /\ (Review!Changed' <=> Review!Changed) /\ (Review!Typing' <=> Review!Typing)
    BY <2>1 DEF RInv, Review!Grounded, Review!Changed, Review!Typing, Review!SchemaDue
  <2>. QED  BY <2>1, <2>2 DEF RInv
<1>2. CASE Review!Skip
    BY <1>2, ReviewPasses DEF Review!Skip
<1>. QED  BY <1>1, <1>2, ReviewApply, ReviewDeclares, ReviewJournals, ReviewInstance, ReviewEnds, ReviewRestarts DEF Review!RNext

LEMMA ReviewImply == RInv => Review!ReviewDurable
BY DEF RInv, Review!ReviewDurable

-----------------------------------------------------------------------------
(* The settings.  The client kept is the one its fingerprint stands for; a *)
(* call holds settings that were in force since it began; and as long as   *)
(* no two patches met, the one under way writes the settings in memory,    *)
(* and the file holds them unless its last write failed.                   *)
Config == [active : Providers, key : Nat, model : Nat]
Patching == [snap : Config, at : {"persist", "write"}]

CallsOk ==
    /\ clientCache # None => clientCache.client = Settings!ClientFor(clientCache.fp)
    /\ \A c \in Clients : calling[c] # None => calling[c].llm \in calling[c].inForce
    /\ answeredBy # None => answeredBy.client \in {Settings!ClientFor(s) : s \in answeredBy.inForce}

FileOk ==
    ~crossed =>
        /\ \A c, d \in Clients : patching[c] # None /\ patching[d] # None => c = d
        /\ \A c \in Clients : patching[c] # None =>
              /\ patching[c].snap = settings
              /\ patching[c].at = "write" => onFile = Settings!Torn
        /\ ~unsaved /\ (\A c \in Clients : patching[c] = None) => onFile.s = settings

MInv ==
    /\ settings \in Config /\ onFile \in [state : {"absent", "torn", "whole"}, s : Config]
    /\ crossed \in BOOLEAN
    /\ patching \in [Clients -> Patching \cup {None}]
    /\ CallsOk /\ FileOk

LEMMA DefaultsAre == Settings!Defaults \in Config
<1>1. "default" \in Providers
    BY DEF Providers
<1>2. 0 \in Nat /\ 1 \in Nat
    OBVIOUS
<1>. QED  BY <1>1, <1>2, Zenon DEF Settings!Defaults, Config

LEMMA FileIs ==
    ASSUME NEW s \in Config, NEW state \in {"absent", "torn", "whole"}
    PROVE  /\ [state |-> state, s |-> s] \in [state : {"absent", "torn", "whole"}, s : Config]
           /\ [state |-> state, s |-> s].s = s
OBVIOUS

LEMMA SettingsBegin == ASSUME Settings!MInit PROVE MInv
<1>1. /\ settings = Settings!Defaults /\ onFile = [state |-> "absent", s |-> Settings!Defaults] /\ crossed = FALSE
      /\ patching = [c \in Clients |-> None] /\ calling = [c \in Clients |-> None]
      /\ clientCache = None /\ answeredBy = None
    BY DEF Settings!MInit
<1>2. onFile \in [state : {"absent", "torn", "whole"}, s : Config] /\ onFile.s = settings
    BY <1>1, DefaultsAre, FileIs
<1>3. CallsOk
    BY <1>1 DEF CallsOk
<1>4. FileOk
    BY <1>1, <1>2 DEF FileOk
<1>. QED  BY <1>1, <1>2, <1>3, <1>4, DefaultsAre DEF MInv

LEMMA SettingsPatch == ASSUME MInv, NEW c \in Clients, Settings!Patch(c) PROVE MInv'
<1>1. PICK p \in Patches :
        settings' = [f \in DOMAIN settings |-> IF f \in DOMAIN p THEN p[f] ELSE settings[f]]
    BY DEF Settings!Patch
<1>2. /\ patching[c] = None
      /\ patching' = [patching EXCEPT ![c] = [snap |-> settings', at |-> "persist"]]
      /\ calling' = [d \in Clients |-> IF calling[d] = None THEN None
                                        ELSE [calling[d] EXCEPT !.inForce = @ \cup {settings'}]]
      /\ crossed' = (crossed \/ \E d \in Clients : patching[d] # None)
      /\ UNCHANGED <<onFile, unsaved, clientCache, answeredBy>>
    BY <1>1 DEF Settings!Patch, Settings!Free
<1>3. settings' \in Config
    BY <1>1, PatchesAssumption DEF MInv, Config, Providers
<1>4. PICK q \in Patching : q = [snap |-> settings', at |-> "persist"]
    BY <1>3 DEF Patching
<1>5. q # None /\ q.snap = settings' /\ q.at = "persist"
    BY <1>4, NoneAssumption DEF Patching, Config
<1>6. patching' = [patching EXCEPT ![c] = q] /\ patching' \in [Clients -> Patching \cup {None}]
    BY <1>2, <1>4 DEF MInv
<1>7. ASSUME NEW d \in Clients, calling'[d] # None PROVE calling'[d].llm \in calling'[d].inForce
  <2>1. calling[d] # None /\ calling'[d] = [calling[d] EXCEPT !.inForce = @ \cup {settings'}]
    BY <1>2, <1>7
  <2>2. calling'[d].llm = calling[d].llm /\ calling[d].inForce \subseteq calling'[d].inForce
    BY <2>1
  <2>. QED  BY <2>1, <2>2 DEF MInv, CallsOk
<1>8. CallsOk'
    BY <1>2, <1>7 DEF MInv, CallsOk
<1>9. crossed' \in BOOLEAN
    BY <1>2 DEF MInv
<1>10. ASSUME ~crossed' PROVE \A d \in Clients : patching[d] = None
    BY <1>2, <1>10
<1>11. FileOk'
    BY <1>2, <1>5, <1>6, <1>10 DEF MInv, FileOk
<1>. QED  BY <1>2, <1>3, <1>6, <1>8, <1>9, <1>11 DEF MInv

LEMMA PatchingAt == ASSUME NEW q \in Patching PROVE [q EXCEPT !.at = "write"] = [snap |-> q.snap, at |-> "write"]
BY DEF Patching

(* A patch whose write fails is over; the file stays, or is torn.          *)
LEMMA SettingsUnsaved ==
    ASSUME MInv, NEW c \in Clients, onFile' \in {onFile, Settings!Torn}, unsaved' = TRUE,
           patching' = [patching EXCEPT ![c] = None],
           UNCHANGED <<settings, crossed, clientCache, calling, answeredBy>>
    PROVE  MInv'
<1>1. onFile' \in [state : {"absent", "torn", "whole"}, s : Config]
    BY DefaultsAre, FileIs DEF MInv, Settings!Torn
<1>2. patching' \in [Clients -> Patching \cup {None}]
    BY DEF MInv
<1>3. \A d \in Clients : patching'[d] # None => d # c /\ patching'[d] = patching[d]
    BY DEF MInv
<1>4. FileOk'
  <2>1. ASSUME ~crossed, NEW d \in Clients, patching'[d] # None, patching[d].at = "write" PROVE onFile' = Settings!Torn
    <3>1. onFile = Settings!Torn
      BY <1>3, <2>1 DEF MInv, FileOk
    <3>. QED  BY <3>1
  <2>. QED  BY <1>3, <2>1 DEF MInv, FileOk
<1>. QED  BY <1>1, <1>2, <1>4 DEF MInv, CallsOk

LEMMA SettingsTruncate == ASSUME MInv, NEW c \in Clients, Settings!Truncate(c) PROVE MInv'
<1>1. CASE unsaved' = TRUE /\ patching' = [patching EXCEPT ![c] = None] /\ UNCHANGED onFile
    BY <1>1, SettingsUnsaved DEF Settings!Truncate
<1>2. CASE /\ onFile' = Settings!Torn /\ UNCHANGED unsaved
           /\ patching' = [patching EXCEPT ![c].at = "write"]
  <2>1. /\ patching[c] # None /\ patching[c] \in Patching
        /\ patching' = [patching EXCEPT ![c] = [snap |-> patching[c].snap, at |-> "write"]]
        /\ UNCHANGED <<settings, crossed, clientCache, calling, answeredBy>>
    <3>1. patching[c] # None /\ patching[c] \in Patching
      BY DEF Settings!Truncate, MInv
    <3>2. patching' = [patching EXCEPT ![c] = [patching[c] EXCEPT !.at = "write"]]
      BY <1>2 DEF MInv
    <3>. QED  BY <3>1, <3>2, PatchingAt DEF Settings!Truncate
  <2>2. PICK q \in Patching : q = [snap |-> patching[c].snap, at |-> "write"]
    BY <2>1 DEF Patching
  <2>3. q # None /\ q.snap = patching[c].snap
    BY <2>2, NoneAssumption DEF Patching, Config
  <2>4. patching' = [patching EXCEPT ![c] = q] /\ patching' \in [Clients -> Patching \cup {None}]
    BY <2>1, <2>2 DEF MInv
  <2>5. onFile' \in [state : {"absent", "torn", "whole"}, s : Config]
    BY <1>2, DefaultsAre, FileIs DEF Settings!Torn
  <2>6. FileOk'
    BY <1>2, <2>1, <2>3, <2>4 DEF MInv, FileOk
  <2>. QED  BY <2>1, <2>4, <2>5, <2>6 DEF MInv, CallsOk
<1>. QED  BY <1>1, <1>2 DEF Settings!Truncate

LEMMA SettingsWriteOut == ASSUME MInv, NEW c \in Clients, Settings!WriteOut(c) PROVE MInv'
<1>1. /\ patching[c] # None /\ patching[c] \in Patching /\ patching[c].at = "write"
      /\ patching' = [patching EXCEPT ![c] = None]
      /\ UNCHANGED <<settings, crossed, clientCache, calling, answeredBy>>
    BY DEF Settings!WriteOut, MInv
<1>2. CASE onFile' \in {onFile, Settings!Torn} /\ unsaved' = TRUE
    BY <1>1, <1>2, SettingsUnsaved
<1>3. CASE /\ onFile' \in {Settings!Whole(patching[c].snap)} \cup (IF onFile # Settings!Torn THEN {Settings!Torn} ELSE {})
           /\ unsaved' = FALSE
  <2>1. patching[c].snap \in Config
    BY <1>1 DEF Patching
  <2>2. onFile' \in [state : {"absent", "torn", "whole"}, s : Config]
    BY <1>3, <2>1, DefaultsAre, FileIs DEF Settings!Torn, Settings!Whole
  <2>3. patching' \in [Clients -> Patching \cup {None}]
    BY <1>1 DEF MInv
  <2>4. ~crossed => onFile'.s = settings
    BY <1>1, <1>3 DEF MInv, FileOk, Settings!Whole
  <2>5. FileOk'
    BY <1>1, <2>4 DEF MInv, FileOk
  <2>. QED  BY <1>1, <2>2, <2>3, <2>5 DEF MInv, CallsOk
<1>. QED  BY <1>2, <1>3 DEF Settings!WriteOut

LEMMA SettingsRead == ASSUME MInv, NEW c \in Clients, Settings!ReadSettings(c) PROVE MInv'
<1>1. /\ calling' = [calling EXCEPT ![c] = [llm |-> settings, inForce |-> {settings}]]
      /\ UNCHANGED <<settings, onFile, patching, crossed, unsaved, clientCache, answeredBy>>
    BY DEF Settings!ReadSettings
<1>2. ASSUME NEW d \in Clients, calling'[d] # None PROVE calling'[d].llm \in calling'[d].inForce
    BY <1>1, <1>2 DEF MInv, CallsOk
<1>. QED  BY <1>1, <1>2 DEF MInv, CallsOk, FileOk

LEMMA SettingsTake == ASSUME MInv, NEW c \in Clients, Settings!TakeClient(c) PROVE MInv'
<1> DEFINE llm    == calling[c].llm
           built == Settings!ClientFor(llm)
           known  == clientCache # None /\ clientCache.fp = llm
           chosen   == IF built = Settings!Fallback THEN built
                     ELSE IF llm.key # 0 /\ known THEN clientCache.client ELSE built
<1>1. /\ calling[c] # None
      /\ answeredBy' = [client |-> chosen, inForce |-> calling[c].inForce]
      /\ clientCache' = IF chosen \in {Settings!Fallback, Settings!Failure} \/ known THEN clientCache
                        ELSE [fp |-> llm, client |-> chosen]
      /\ calling' = [calling EXCEPT ![c] = None]
      /\ UNCHANGED <<settings, onFile, patching, crossed, unsaved>>
    BY DEF Settings!TakeClient, Settings!Fingerprint
<1>2. chosen = Settings!ClientFor(llm)
    BY DEF MInv, CallsOk
<1>3. llm \in calling[c].inForce
    BY <1>1 DEF MInv, CallsOk
<1>4. answeredBy'.client \in {Settings!ClientFor(s) : s \in answeredBy'.inForce}
    BY <1>1, <1>2, <1>3
<1>5. clientCache' # None => clientCache'.client = Settings!ClientFor(clientCache'.fp)
    BY <1>1, <1>2 DEF MInv, CallsOk
<1>6. \A d \in Clients : calling'[d] # None => calling'[d].llm \in calling'[d].inForce
    BY <1>1 DEF MInv, CallsOk
<1>. QED  BY <1>1, <1>4, <1>5, <1>6 DEF MInv, CallsOk, FileOk

LEMMA SettingsRestart == ASSUME MInv, Settings!Restart PROVE MInv'
BY DEF Settings!Restart, Settings!Load, MInv, CallsOk, FileOk

LEMMA SettingsStepKeeps == ASSUME MInv, [Settings!MNext]_settingsVars PROVE MInv'
<1>1. CASE UNCHANGED settingsVars
    BY <1>1 DEF settingsVars, MInv, CallsOk, FileOk
<1>. QED
    BY <1>1, SettingsRestart, SettingsPatch, SettingsTruncate, SettingsWriteOut, SettingsRead, SettingsTake
    DEF Settings!MNext

LEMMA SettingsImply == MInv => Settings!SettingsServed
BY DEF MInv, CallsOk, FileOk, Settings!SettingsServed, Settings!Load

-----------------------------------------------------------------------------
(* The registries.  The bucket: since any request that was let through,    *)
(* the requests and what the bucket still holds are no more than a full    *)
(* bucket and the refill since.                                            *)
QueriesOk ==
    /\ nextQuery \in Nat
    /\ DOMAIN queries \cap gone = {} /\ DOMAIN queries \cup gone = 1 .. nextQuery

SamplesOk ==
    /\ samples \in Seq(Nat) /\ Len(samples) <= Capacity
    /\ \A i \in 2 .. Len(samples) : samples[i] - samples[i - 1] >= Spacing

Drawn(n, from, to) == from <= to /\ n * Window <= MaxRequests * Window + (to - from) * MaxRequests

BucketOk ==
    /\ bucket \in [tokens : Nat, last : Nat] /\ bucket.last <= clock
    /\ bucket.tokens <= MaxRequests * Window
    /\ admitted \in Seq(Nat)
    /\ \A i \in 1 .. Len(admitted) :
          /\ admitted[i] <= bucket.last
          /\ (Len(admitted) - i + 1) * Window + bucket.tokens
                <= MaxRequests * Window + (bucket.last - admitted[i]) * MaxRequests
    /\ \A j \in 1 .. Len(admitted) : \A i \in 1 .. j : Drawn(j - i + 1, admitted[i], admitted[j])

NInv == clock \in Nat /\ QueriesOk /\ SamplesOk /\ BucketOk

LEMMA RegistriesBegin == ASSUME Registries!NInit PROVE NInv
BY LimitsAssumption DEF Registries!NInit, Registries!Full, NInv, QueriesOk, SamplesOk, BucketOk

(* The saved queries: no step gives back an id that was deleted.           *)
LEMMA RegistriesQueries ==
    ASSUME NInv, Registries!SaveQuery \/ Registries!DropQuery \/ Registries!RunQuery \/ Registries!TouchRun
    PROVE  NInv'
<1>1. clock' = clock /\ UNCHANGED <<bucket, admitted, samples>>
    BY DEF Registries!SaveQuery, Registries!DropQuery, Registries!RunQuery, Registries!TouchRun
<1>2. SamplesOk' /\ BucketOk'
    BY <1>1 DEF NInv, SamplesOk, BucketOk, Drawn
<1>0. QueriesOk
    BY DEF NInv
<1>3. CASE Registries!SaveQuery
  <2>1. nextQuery' = nextQuery + 1 /\ gone' = gone /\ DOMAIN queries' = DOMAIN queries \cup {nextQuery + 1}
    BY <1>3 DEF Registries!SaveQuery
  <2>2. nextQuery \in Nat /\ nextQuery + 1 \notin gone /\ 1 .. nextQuery + 1 = (1 .. nextQuery) \cup {nextQuery + 1}
    BY <1>0 DEF QueriesOk
  <2>3. QueriesOk'
    BY <1>0, <2>1, <2>2 DEF QueriesOk
  <2>. QED  BY <1>1, <1>2, <2>3 DEF NInv
<1>4. CASE Registries!DropQuery
  <2>1. PICK q \in DOMAIN queries :
          gone' = gone \cup {q} /\ nextQuery' = nextQuery /\ queries' = [r \in DOMAIN queries \ {q} |-> queries[r]]
    BY <1>4 DEF Registries!DropQuery
  <2>2. DOMAIN queries' = DOMAIN queries \ {q}
    BY <2>1
  <2>3. QueriesOk'
    BY <1>0, <2>1, <2>2 DEF QueriesOk
  <2>. QED  BY <1>1, <1>2, <2>3 DEF NInv
<1>5. CASE Registries!RunQuery \/ Registries!TouchRun
  <2>1. DOMAIN queries' = DOMAIN queries /\ UNCHANGED <<gone, nextQuery>>
    BY <1>5 DEF Registries!RunQuery, Registries!TouchRun
  <2>2. QueriesOk'
    BY <1>0, <2>1 DEF QueriesOk
  <2>. QED  BY <1>1, <1>2, <2>2 DEF NInv
<1>. QED  BY <1>3, <1>4, <1>5

LEMMA RegistriesTick == ASSUME NInv, Registries!Tick PROVE NInv'
<1>1. clock' = clock + 1 /\ UNCHANGED <<queries, nextQuery, gone, bucket, admitted, samples>>
    BY DEF Registries!Tick
<1>2. clock' \in Nat /\ QueriesOk' /\ SamplesOk'
    BY <1>1 DEF NInv, QueriesOk, SamplesOk
<1>3. bucket'.last <= clock'
    BY <1>1 DEF NInv, BucketOk
<1>. QED  BY <1>1, <1>2, <1>3 DEF NInv, BucketOk, Drawn

LEMMA RegistriesSample == ASSUME NInv, Registries!Sample PROVE NInv'
<1> DEFINE all == Append(samples, clock)
<1>1. /\ samples # << >> => clock - samples[Len(samples)] >= Spacing
      /\ samples' = IF Len(all) > Capacity THEN Tail(all) ELSE all
      /\ UNCHANGED <<clock, queries, nextQuery, gone, bucket, admitted>>
    BY DEF Registries!Sample
<1>2. /\ all \in Seq(Nat) /\ Len(all) = Len(samples) + 1 /\ all[Len(all)] = clock
      /\ \A i \in 1 .. Len(samples) : all[i] = samples[i]
    BY DEF NInv, SamplesOk
<1>3. ASSUME NEW i \in 2 .. Len(all) PROVE all[i] - all[i - 1] >= Spacing
  <2>1. CASE i = Len(all)
    <3>1. samples # << >> /\ all[i - 1] = samples[Len(samples)]
        BY <1>2, <2>1 DEF NInv, SamplesOk
    <3>. QED  BY <1>1, <1>2, <2>1, <3>1
  <2>2. CASE i # Len(all)
    <3>1. i \in 2 .. Len(samples) /\ i - 1 \in 1 .. Len(samples)
        BY <1>2, <2>2 DEF NInv, SamplesOk
    <3>2. all[i] = samples[i] /\ all[i - 1] = samples[i - 1]
        BY <1>2, <3>1
    <3>. QED  BY <3>1, <3>2 DEF NInv, SamplesOk
  <2>. QED  BY <2>1, <2>2
<1> HIDE DEF all
<1>4. CASE Len(all) <= Capacity
  <2>1. samples' = all
    BY <1>1, <1>2, <1>4, LimitsAssumption
  <2>2. SamplesOk'
    BY <1>2, <1>3, <1>4, <2>1 DEF SamplesOk
  <2>. QED  BY <1>1, <2>2 DEF NInv, QueriesOk, BucketOk, Drawn
<1>5. CASE Len(all) > Capacity
  <2>1. samples' = Tail(all) /\ all # << >>
    BY <1>1, <1>2, <1>5 DEF NInv, SamplesOk
  <2>2. samples' \in Seq(Nat) /\ Len(samples') = Len(all) - 1 /\ \A i \in 1 .. Len(samples') : samples'[i] = all[i + 1]
    BY <1>2, <2>1
  <2>3. Len(samples') <= Capacity
    BY <1>2, <2>2 DEF NInv, SamplesOk
  <2>4. ASSUME NEW i \in 2 .. Len(samples') PROVE samples'[i] - samples'[i - 1] >= Spacing
    <3>1. i \in 1 .. Len(samples') /\ i - 1 \in 1 .. Len(samples') /\ i + 1 \in 2 .. Len(all) /\ (i - 1) + 1 = i
        BY <2>2
    <3>2. samples'[i] = all[i + 1] /\ samples'[i - 1] = all[i]
        BY <2>2, <3>1
    <3>3. all[i + 1] - all[(i + 1) - 1] >= Spacing
        BY <1>3, <3>1
    <3>. QED  BY <3>2, <3>3
  <2>5. SamplesOk'
    BY <2>2, <2>3, <2>4 DEF SamplesOk
  <2>. QED  BY <1>1, <2>5 DEF NInv, QueriesOk, BucketOk, Drawn
<1>. QED  BY <1>2, <1>4, <1>5, LimitsAssumption DEF NInv, SamplesOk

(* A request, let through or not: the bucket is refilled for the time gone *)
(* by, never above full.                                                   *)
LEMMA Refill ==
    ASSUME NEW k \in Nat, NEW t \in Nat, NEW a \in Nat, NEW from \in Nat, NEW to \in Nat, from <= to,
           k * Window + t <= MaxRequests * Window + (from - a) * MaxRequests
    PROVE  k * Window + (t + (to - from) * MaxRequests) <= MaxRequests * Window + (to - a) * MaxRequests
<1>1. (to - a) * MaxRequests = (from - a) * MaxRequests + (to - from) * MaxRequests
    BY LimitsAssumption
<1>2. /\ k * Window \in Int /\ MaxRequests * Window \in Int
      /\ (from - a) * MaxRequests \in Int /\ (to - from) * MaxRequests \in Int
    BY LimitsAssumption
<1>. QED  BY <1>1, <1>2

LEMMA Products == \A a, b \in Int : a * b \in Int /\ (a \in Nat /\ b \in Nat => a * b \in Nat)
OBVIOUS

LEMMA OneMore == \A k \in Nat : (k + 1) * Window = k * Window + Window /\ k * Window \in Nat
BY LimitsAssumption

LEMMA RegistriesAllow == ASSUME NInv, Registries!Allow PROVE NInv'
<1> DEFINE full == MaxRequests * Window
           grown == bucket.tokens + (clock - bucket.last) * MaxRequests
           refilled == IF full < grown THEN full ELSE grown
<1>1. /\ bucket' = [tokens |-> IF refilled >= Window THEN refilled - Window ELSE refilled, last |-> clock]
      /\ admitted' = IF refilled >= Window THEN Append(admitted, clock) ELSE admitted
      /\ UNCHANGED <<clock, queries, nextQuery, gone, samples>>
    BY DEF Registries!Allow, Registries!Full, Registries!Smaller
<1>2. /\ clock \in Nat /\ bucket.tokens \in Nat /\ bucket.last \in Nat /\ bucket.last <= clock
      /\ Window \in Nat \ {0} /\ MaxRequests \in Nat /\ admitted \in Seq(Nat)
    BY LimitsAssumption DEF NInv, BucketOk
<1>3. full \in Nat /\ grown \in Nat
  <2>1. clock - bucket.last \in Nat
    BY <1>2
  <2>2. (clock - bucket.last) * MaxRequests \in Nat /\ MaxRequests * Window \in Nat
    BY <1>2, <2>1, Products
  <2>. QED  BY <1>2, <2>2
<1>4. refilled \in Nat /\ refilled <= full /\ refilled <= grown
    BY <1>3
<1>5. ASSUME NEW i \in 1 .. Len(admitted)
      PROVE  /\ admitted[i] \in Nat /\ admitted[i] <= clock /\ Len(admitted) - i + 1 \in Nat
             /\ (Len(admitted) - i + 1) * Window + refilled <= full + (clock - admitted[i]) * MaxRequests
  <2>1. /\ admitted[i] \in Nat /\ admitted[i] <= bucket.last /\ Len(admitted) - i + 1 \in Nat
        /\ (Len(admitted) - i + 1) * Window + bucket.tokens
              <= MaxRequests * Window + (bucket.last - admitted[i]) * MaxRequests
    <3>1. \A x \in 1 .. Len(admitted) :
             /\ admitted[x] <= bucket.last
             /\ (Len(admitted) - x + 1) * Window + bucket.tokens
                   <= MaxRequests * Window + (bucket.last - admitted[x]) * MaxRequests
        BY Zenon DEF NInv, BucketOk
    <3>2. admitted[i] \in Nat /\ Len(admitted) - i + 1 \in Nat
        BY <1>2
    <3>. QED  BY <3>1, <3>2, Zenon
  <2>2. (Len(admitted) - i + 1) * Window + grown <= full + (clock - admitted[i]) * MaxRequests
    BY <1>2, <2>1, Refill
  <2>3. (Len(admitted) - i + 1) * Window \in Nat /\ (clock - admitted[i]) * MaxRequests \in Int
    <3>1. clock - admitted[i] \in Int /\ MaxRequests \in Int /\ Window \in Nat
          /\ (Len(admitted) - i + 1) \in Int /\ Window \in Int
        BY <1>2, <2>1
    <3>. QED  BY <2>1, <3>1, Products, Zenon
  <2>4. admitted[i] <= clock
    BY <1>2, <2>1
  <2>5. ASSUME NEW p \in Nat, NEW q \in Int, p + grown <= full + q PROVE p + refilled <= full + q
    BY <1>3, <1>4, <2>5
  <2>. QED  BY <2>1, <2>2, <2>3, <2>4, <2>5
<1> HIDE DEF full, grown, refilled
<1>6. QueriesOk' /\ SamplesOk' /\ clock' \in Nat
    BY <1>1, <1>2 DEF NInv, QueriesOk, SamplesOk
<1>7. CASE refilled < Window
  <2>1. bucket' = [tokens |-> refilled, last |-> clock] /\ admitted' = admitted
    BY <1>1, <1>2, <1>4, <1>7
  <2>2. /\ bucket' \in [tokens : Nat, last : Nat] /\ bucket'.tokens = refilled /\ bucket'.last = clock
        /\ clock' = clock /\ admitted' = admitted
    BY <1>1, <1>2, <1>4, <2>1
  <2>3. \A i \in 1 .. Len(admitted) :
          /\ admitted[i] <= clock
          /\ (Len(admitted) - i + 1) * Window + refilled <= MaxRequests * Window + (clock - admitted[i]) * MaxRequests
    BY <1>5, Zenon DEF full
  <2>4. \A j \in 1 .. Len(admitted) : \A i \in 1 .. j : Drawn(j - i + 1, admitted[i], admitted[j])
    BY Zenon DEF NInv, BucketOk
  <2>5. refilled <= MaxRequests * Window /\ clock <= clock
    BY <1>2, <1>4 DEF full
  <2>6. BucketOk'
    <3>1. \A i \in 1 .. Len(admitted') :
            /\ admitted'[i] <= bucket'.last
            /\ (Len(admitted') - i + 1) * Window + bucket'.tokens
                  <= MaxRequests * Window + (bucket'.last - admitted'[i]) * MaxRequests
      BY <2>2, <2>3, Zenon
    <3>2. \A j \in 1 .. Len(admitted') : \A i \in 1 .. j : Drawn(j - i + 1, admitted'[i], admitted'[j])
      BY <2>2, <2>4, Zenon
    <3>3. admitted' \in Seq(Nat) /\ bucket'.last <= clock' /\ bucket'.tokens <= MaxRequests * Window
      BY <1>2, <2>2, <2>5, Zenon
    <3>. QED  BY <2>2, <3>1, <3>2, <3>3, Zenon DEF BucketOk, Drawn
  <2>. QED  BY <1>6, <2>6 DEF NInv
<1>8. CASE refilled >= Window
  <2> DEFINE n == Len(admitted)
  <2>1. bucket' = [tokens |-> refilled - Window, last |-> clock] /\ admitted' = Append(admitted, clock)
    BY <1>1, <1>2, <1>4, <1>8
  <2>2. /\ admitted' \in Seq(Nat) /\ Len(admitted') = n + 1 /\ admitted'[n + 1] = clock
        /\ \A i \in 1 .. n : admitted'[i] = admitted[i]
    BY <1>2, <2>1
  <2>3. refilled - Window \in Nat /\ refilled - Window <= full
    BY <1>2, <1>3, <1>4, <1>8
  <2>4. ASSUME NEW i \in 1 .. n + 1
        PROVE  /\ admitted'[i] <= clock
               /\ (n + 1 - i + 1) * Window + (refilled - Window) <= full + (clock - admitted'[i]) * MaxRequests
    <3>1. CASE i = n + 1
        <4>1. (n + 1 - i + 1) * Window = Window /\ (clock - clock) * MaxRequests = 0
            BY <1>2, <3>1
        <4>. QED  BY <1>2, <1>3, <1>4, <2>2, <3>1, <4>1
    <3>2. CASE i # n + 1
        <4>1. i \in 1 .. n /\ n - i + 1 \in Nat
            BY <1>2, <3>2
        <4>2. (n + 1 - i + 1) * Window = (n - i + 1) * Window + Window /\ (n - i + 1) * Window \in Nat
            BY <4>1, <1>2, OneMore
        <4>3. (n - i + 1) * Window + refilled <= full + (clock - admitted[i]) * MaxRequests
            BY <1>5, <4>1
        <4>4. (clock - admitted[i]) * MaxRequests \in Int /\ admitted[i] <= clock
            BY <1>2, <1>5, <4>1
        <4>. QED  BY <1>2, <1>3, <1>4, <2>2, <4>1, <4>2, <4>3, <4>4
    <3>. QED  BY <3>1, <3>2
  <2>5. ASSUME NEW j \in 1 .. n + 1, NEW i \in 1 .. j PROVE Drawn(j - i + 1, admitted'[i], admitted'[j])
    <3>1. CASE j = n + 1
        <4>1. i \in 1 .. n + 1 /\ j - i + 1 = n + 1 - i + 1 /\ admitted'[j] = clock
            BY <1>2, <2>2, <3>1
        <4>2. (j - i + 1) * Window + (refilled - Window) <= full + (clock - admitted'[i]) * MaxRequests
            BY <2>4, <4>1
        <4>3. (j - i + 1) * Window \in Int /\ (clock - admitted'[i]) * MaxRequests \in Int
            BY <1>2, <2>2, <4>1
        <4>4. (j - i + 1) * Window <= full + (clock - admitted'[i]) * MaxRequests
            BY <1>3, <2>3, <4>2, <4>3
        <4>5. admitted'[i] <= clock
            BY <2>4, <4>1
        <4>. QED  BY <4>1, <4>4, <4>5 DEF Drawn, full
    <3>2. CASE j # n + 1
        <4>1. j \in 1 .. n /\ i \in 1 .. n
            BY <1>2, <3>2
        <4>. QED  BY <2>2, <4>1 DEF NInv, BucketOk
    <3>. QED  BY <3>1, <3>2
  <2>6. /\ bucket' \in [tokens : Nat, last : Nat] /\ bucket'.tokens = refilled - Window /\ bucket'.last = clock
        /\ clock' = clock /\ Len(admitted') = n + 1
    BY <1>1, <1>2, <2>1, <2>2, <2>3
  <2>7. BucketOk'
    <3>1. \A i \in 1 .. Len(admitted') :
            /\ admitted'[i] <= bucket'.last
            /\ (Len(admitted') - i + 1) * Window + bucket'.tokens
                  <= MaxRequests * Window + (bucket'.last - admitted'[i]) * MaxRequests
      <4>1. \A i \in 1 .. n + 1 :
              /\ admitted'[i] <= clock
              /\ (n + 1 - i + 1) * Window + (refilled - Window)
                    <= MaxRequests * Window + (clock - admitted'[i]) * MaxRequests
        BY <2>4, Zenon DEF full
      <4>2. ASSUME NEW i \in 1 .. Len(admitted')
            PROVE  /\ admitted'[i] <= bucket'.last
                   /\ (Len(admitted') - i + 1) * Window + bucket'.tokens
                         <= MaxRequests * Window + (bucket'.last - admitted'[i]) * MaxRequests
        <5>1. i \in 1 .. n + 1 /\ Len(admitted') - i + 1 = n + 1 - i + 1
          BY <2>6
        <5>2. /\ admitted'[i] <= clock
              /\ (n + 1 - i + 1) * Window + (refilled - Window)
                    <= MaxRequests * Window + (clock - admitted'[i]) * MaxRequests
          BY <4>1, <5>1
        <5>. QED  BY <2>6, <5>1, <5>2
      <4>. QED  BY <4>2
    <3>2. \A j \in 1 .. Len(admitted') : \A i \in 1 .. j : Drawn(j - i + 1, admitted'[i], admitted'[j])
      BY <2>5, <2>6, Zenon
    <3>3. bucket'.last <= clock' /\ bucket'.tokens <= MaxRequests * Window
      <4>1. clock <= clock
        BY <1>2
      <4>. QED  BY <2>3, <2>6, <4>1, Zenon DEF full
    <3>. QED  BY <2>2, <2>6, <3>1, <3>2, <3>3, Zenon DEF BucketOk, Drawn
  <2>. QED  BY <1>6, <2>7 DEF NInv
<1>. QED  BY <1>2, <1>4, <1>7, <1>8

(* Two ends of a window no longer than Window are at most two buckets      *)
(* apart.                                                                  *)
LEMMA TwoBuckets ==
    ASSUME NEW n \in Nat, NEW d \in Nat, d <= Window,
           n * Window <= MaxRequests * Window + d * MaxRequests
    PROVE  n <= 2 * MaxRequests
<1>1. d * MaxRequests <= Window * MaxRequests
    BY LimitsAssumption
<1>2. n * Window <= (2 * MaxRequests) * Window
  <2>1. (2 * MaxRequests) * Window = MaxRequests * Window + Window * MaxRequests
    BY LimitsAssumption
  <2>2. n * Window \in Int /\ MaxRequests * Window \in Int /\ d * MaxRequests \in Int /\ Window * MaxRequests \in Int
    BY LimitsAssumption, Products
  <2>. QED  BY <1>1, <2>1, <2>2
<1>3. CASE n > 2 * MaxRequests
  <2>1. PICK k \in Nat : n = (2 * MaxRequests) + 1 + k
    <3>1. n - (2 * MaxRequests + 1) \in Nat
        BY <1>3, LimitsAssumption
    <3>2. n = (2 * MaxRequests) + 1 + (n - (2 * MaxRequests + 1))
        BY LimitsAssumption
    <3>. QED  BY <3>1, <3>2
  <2>2. n * Window = (2 * MaxRequests) * Window + Window + k * Window
    BY <2>1, LimitsAssumption
  <2>3. (2 * MaxRequests) * Window \in Nat /\ k * Window \in Nat /\ Window \in Nat \ {0}
    BY LimitsAssumption, Products
  <2>. QED  BY <1>2, <2>2, <2>3
<1>. QED  BY <1>3, LimitsAssumption

LEMMA RegistriesStepKeeps == ASSUME NInv, [Registries!NNext]_registriesVars PROVE NInv'
<1>1. CASE UNCHANGED registriesVars
    BY <1>1 DEF registriesVars, NInv, QueriesOk, SamplesOk, BucketOk, Drawn
<1>. QED
    BY <1>1, RegistriesTick, RegistriesQueries, RegistriesAllow, RegistriesSample DEF Registries!NNext

LEMMA RegistriesImply == NInv => Registries!RegistriesKept
<1> SUFFICES ASSUME NInv PROVE Registries!RegistriesKept
    OBVIOUS
<1>1. ASSUME NEW i \in 1 .. Len(admitted), NEW j \in 1 .. Len(admitted), i < j, admitted[j] - admitted[i] <= Window
      PROVE  j - i + 1 <= 2 * MaxRequests
  <2>1. i \in 1 .. j /\ j - i + 1 \in Nat /\ admitted[i] \in Nat /\ admitted[j] \in Nat
    <3>1. admitted \in Seq(Nat)
        BY DEF NInv, BucketOk
    <3>. QED  BY <1>1, <3>1
  <2>2. Drawn(j - i + 1, admitted[i], admitted[j])
    BY <2>1 DEF NInv, BucketOk
  <2>3. admitted[j] - admitted[i] \in Nat
    BY <2>1, <2>2 DEF Drawn
  <2>. QED  BY <1>1, <2>1, <2>2, <2>3, TwoBuckets DEF Drawn
<1>. QED  BY <1>1 DEF Registries!RegistriesKept, NInv, QueriesOk, SamplesOk

-----------------------------------------------------------------------------
(* The backups.  A file at the destination that has the name of one of the *)
(* store's begins where that one does, so one of the same length is the    *)
(* same; while a backup is under way everything but what is still to be    *)
(* copied is there; and a destination with a manifest holds what was taken.*)
Files == [first : Nat, recs : Nat]

FilesOf(f) == DOMAIN f \subseteq 1 .. active /\ \A p \in DOMAIN f : f[p] \in Files

BackupTypes ==
    /\ active \in 1 .. MaxPart /\ nextRec \in Nat
    /\ FilesOf(parts) /\ FilesOf(dest) /\ active \in DOMAIN parts
    /\ copying \in (SUBSET DOMAIN parts) \cup {None} /\ complete \in BOOLEAN

Alike(p) == p \in DOMAIN dest /\ p \in DOMAIN parts => dest[p].first = parts[p].first

KInv ==
    /\ BackupTypes
    /\ \A p \in DOMAIN dest : Alike(p)
    /\ copying # None => /\ ~complete
                         /\ \A p \in DOMAIN parts \ copying : p \in DOMAIN dest /\ dest[p] = parts[p]
    /\ complete => Backup!All(dest) = taken

LEMMA FileIsOne ==
    ASSUME NEW low \in Nat, NEW n \in Nat
    PROVE  Backup!File(low, n) \in Files /\ Backup!File(low, n).first = low /\ Backup!File(low, n).recs = n
BY DEF Backup!File, Files

(* What a function holds decides its records.                              *)
LEMMA SameRecords ==
    ASSUME NEW f, NEW g, DOMAIN f = DOMAIN g, \A p \in DOMAIN f : f[p] = g[p]
    PROVE  Backup!All(f) = Backup!All(g)
<1>1. {Backup!RecsOf(f[p]) : p \in DOMAIN f} = {Backup!RecsOf(g[p]) : p \in DOMAIN g}
    OBVIOUS
<1>. QED  BY <1>1, Zenon DEF Backup!All

LEMMA NotNone == ASSUME BackupTypes PROVE DOMAIN parts # None /\ \A S \in SUBSET DOMAIN parts : S # None
<1>1. DOMAIN parts \in SUBSET (1 .. MaxPart)
    BY PartAssumption DEF BackupTypes, FilesOf
<1>. QED  BY <1>1, NoneAssumption

LEMMA BackupBegin == ASSUME Backup!KInit PROVE KInv
<1>1. DOMAIN parts = {1} /\ parts[1] = Backup!File(1, 0)
  <2>1. DOMAIN (<< >>) = {}
    OBVIOUS
  <2>2. parts = Backup!Put(<< >>, 1, Backup!File(1, 0))
    BY DEF Backup!KInit
  <2>. QED  BY <2>1, <2>2 DEF Backup!Put
<1>2. /\ active = 1 /\ nextRec = 1 /\ dest = << >> /\ DOMAIN dest = {} /\ complete = FALSE /\ copying = None
      /\ 1 \in 1 .. MaxPart
    BY PartAssumption DEF Backup!KInit
<1>3. parts[1] \in Files
    BY <1>1, FileIsOne
<1>4. FilesOf(parts) /\ FilesOf(dest)
    BY <1>1, <1>2, <1>3 DEF FilesOf
<1>5. BackupTypes
    BY <1>1, <1>2, <1>4 DEF BackupTypes
<1>. QED  BY <1>2, <1>5 DEF KInv

LEMMA GrownFile == ASSUME NEW f \in Files PROVE [f EXCEPT !.recs = @ + 1] = [first |-> f.first, recs |-> f.recs + 1]
BY DEF Files

LEMMA BackupWrite == ASSUME KInv, Backup!Write PROVE KInv'
<1>1. /\ copying = None /\ nextRec' = nextRec + 1
      /\ parts' = [parts EXCEPT ![active].recs = @ + 1]
      /\ UNCHANGED <<active, dest, complete, copying, taken>>
    BY DEF Backup!Write, Backup!Busy
<1>2. BackupTypes /\ active \in DOMAIN parts /\ parts[active] \in Files
    BY DEF KInv, BackupTypes, FilesOf
<1>3. parts' = [parts EXCEPT ![active] = [first |-> parts[active].first, recs |-> parts[active].recs + 1]]
  <2>1. parts' = [parts EXCEPT ![active] = [parts[active] EXCEPT !.recs = @ + 1]]
    BY <1>1, <1>2 DEF BackupTypes
  <2>. QED  BY <2>1, <1>2, GrownFile
<1>4. PICK f \in Files : f = [first |-> parts[active].first, recs |-> parts[active].recs + 1]
  <2>1. parts[active].first \in Nat /\ parts[active].recs + 1 \in Nat
    BY <1>2 DEF Files
  <2>. QED  BY <2>1, FileIsOne DEF Backup!File
<1>5. f.first = parts[active].first
    BY <1>4
<1>6. /\ DOMAIN parts' = DOMAIN parts /\ parts'[active] = f
      /\ \A p \in DOMAIN parts \ {active} : parts'[p] = parts[p]
    BY <1>2, <1>3, <1>4 DEF BackupTypes
<1>7. BackupTypes'
    BY <1>1, <1>2, <1>6 DEF BackupTypes, FilesOf
<1>8. \A p \in DOMAIN dest' : Alike(p)'
    BY <1>1, <1>5, <1>6 DEF KInv, Alike
<1>. QED  BY <1>1, <1>7, <1>8 DEF KInv

LEMMA BackupRoll == ASSUME KInv, Backup!Roll PROVE KInv'
<1>1. /\ copying = None /\ active < MaxPart
      /\ parts' = Backup!Put(parts, active + 1, Backup!File(nextRec, 0)) /\ active' = active + 1
      /\ UNCHANGED <<nextRec, dest, complete, copying, taken>>
    BY DEF Backup!Roll, Backup!Busy
<1>2. BackupTypes /\ active' \in 1 .. MaxPart /\ nextRec \in Nat /\ 1 .. active \subseteq 1 .. active' /\ active' \notin 1 .. active
      /\ active' \in 1 .. active'
    BY <1>1, PartAssumption DEF KInv, BackupTypes
<1>3. /\ DOMAIN parts' = DOMAIN parts \cup {active'} /\ parts'[active'] = Backup!File(nextRec, 0)
      /\ \A p \in DOMAIN parts \ {active'} : parts'[p] = parts[p]
    BY <1>1 DEF Backup!Put
<1>4. parts'[active'] \in Files
    BY <1>2, <1>3, FileIsOne
<1>5. BackupTypes'
    BY <1>1, <1>2, <1>3, <1>4 DEF BackupTypes, FilesOf
<1>6. \A p \in DOMAIN dest' : Alike(p)'
    BY <1>1, <1>2, <1>3 DEF KInv, Alike, BackupTypes, FilesOf
<1>. QED  BY <1>1, <1>5, <1>6 DEF KInv

LEMMA BackupCompact == ASSUME KInv, Backup!Compact PROVE KInv'
<1>1. /\ copying = None /\ active + 2 <= MaxPart
      /\ parts' = Backup!Put(Backup!Put(<< >>, active + 1, Backup!File(nextRec, 1)), active + 2,
                             Backup!File(nextRec + 1, 0))
      /\ active' = active + 2 /\ nextRec' = nextRec + 1
      /\ UNCHANGED <<dest, complete, copying, taken>>
    BY DEF Backup!Compact, Backup!Busy
<1>2. /\ BackupTypes /\ active \in Nat /\ active' \in 1 .. MaxPart /\ nextRec \in Nat /\ nextRec' \in Nat
      /\ 1 .. active \subseteq 1 .. active' /\ active + 1 \notin 1 .. active /\ active + 2 \notin 1 .. active
      /\ active + 1 \in 1 .. active' /\ active + 2 \in 1 .. active'
    BY <1>1, PartAssumption DEF KInv, BackupTypes
<1>3. /\ DOMAIN parts' = {active + 1, active + 2}
      /\ parts'[active + 1] = Backup!File(nextRec, 1) /\ parts'[active + 2] = Backup!File(nextRec + 1, 0)
  <2>1. DOMAIN (<< >>) = {}
    OBVIOUS
  <2>2. PICK f : f = Backup!Put(<< >>, active + 1, Backup!File(nextRec, 1))
    OBVIOUS
  <2>3. DOMAIN f = {active + 1} /\ f[active + 1] = Backup!File(nextRec, 1)
    BY <2>1, <2>2 DEF Backup!Put
  <2>4. parts' = Backup!Put(f, active + 2, Backup!File(nextRec + 1, 0))
    BY <1>1, <2>2
  <2>5. active + 1 # active + 2
    BY <1>2
  <2>. QED  BY <2>3, <2>4, <2>5 DEF Backup!Put
<1>4. parts'[active + 1] \in Files /\ parts'[active + 2] \in Files
    BY <1>1, <1>2, <1>3, FileIsOne
<1>5. BackupTypes'
    BY <1>1, <1>2, <1>3, <1>4 DEF BackupTypes, FilesOf
<1>6. \A p \in DOMAIN dest' : Alike(p)'
    BY <1>1, <1>2, <1>3 DEF KInv, Alike, BackupTypes, FilesOf
<1>. QED  BY <1>1, <1>5, <1>6 DEF KInv

LEMMA BackupStarts == ASSUME KInv, Backup!Begin PROVE KInv'
<1>1. complete' = FALSE /\ copying' = DOMAIN parts /\ UNCHANGED <<parts, active, nextRec, dest, taken>>
    BY DEF Backup!Begin
<1>2. BackupTypes'
    BY <1>1 DEF KInv, BackupTypes, FilesOf
<1>3. \A p \in DOMAIN dest' : Alike(p)'
    BY <1>1 DEF KInv, Alike
<1>. QED  BY <1>1, <1>2, <1>3 DEF KInv

(* The next to be copied is one of those left.                             *)
LEMMA NextCopied ==
    ASSUME KInv, copying # None, copying # {}
    PROVE  Backup!Min(copying) \in copying /\ copying \subseteq DOMAIN parts
<1>1. copying \in SUBSET Nat /\ copying \subseteq DOMAIN parts
    BY DEF KInv, BackupTypes, FilesOf
<1>2. Backup!Min(copying) = Min(copying)
    BY DEF Backup!Min, Min
<1>. QED  BY <1>1, <1>2, MinExists

(* A file put at the destination, in full or in part.                      *)
LEMMA FilePut ==
    ASSUME KInv, NEW p \in DOMAIN parts, NEW f \in Files, f.first = parts[p].first, dest' = Backup!Put(dest, p, f),
           UNCHANGED <<parts, active>>
    PROVE  /\ FilesOf(dest)' /\ \A q \in DOMAIN dest' : Alike(q)'
           /\ DOMAIN dest' = DOMAIN dest \cup {p} /\ dest'[p] = f
           /\ \A q \in DOMAIN dest \ {p} : dest'[q] = dest[q]
<1>1. /\ DOMAIN dest' = DOMAIN dest \cup {p} /\ dest'[p] = f
      /\ \A q \in DOMAIN dest \ {p} : dest'[q] = dest[q]
    BY DEF Backup!Put
<1>2. FilesOf(dest)'
    BY <1>1 DEF KInv, BackupTypes, FilesOf
<1>3. \A q \in DOMAIN dest' : Alike(q)'
    BY <1>1 DEF KInv, Alike
<1>. QED  BY <1>1, <1>2, <1>3

LEMMA BackupCopy == ASSUME KInv, Backup!Copy PROVE KInv'
<1>1. PICK p : p = Backup!Min(copying)
    OBVIOUS
<1>2. /\ copying # None /\ copying # {} /\ copying' = copying \ {p}
      /\ dest' = IF Backup!Same(p) THEN dest ELSE Backup!Put(dest, p, parts[p])
      /\ UNCHANGED <<parts, active, nextRec, complete, taken>>
    BY <1>1 DEF Backup!Copy, Backup!Busy
<1>3. p \in copying /\ p \in DOMAIN parts /\ copying \subseteq DOMAIN parts /\ parts[p] \in Files /\ ~complete
    BY <1>1, <1>2, NextCopied DEF KInv, BackupTypes, FilesOf
<1>4. copying' \in SUBSET DOMAIN parts
    BY <1>2, <1>3
<1>5. /\ FilesOf(dest)' /\ \A q \in DOMAIN dest' : Alike(q)'
      /\ p \in DOMAIN dest' /\ dest'[p] = parts[p]
      /\ \A q \in DOMAIN dest \ {p} : q \in DOMAIN dest' /\ dest'[q] = dest[q]
  <2>1. CASE ~Backup!Same(p)
    BY <1>2, <1>3, <2>1, FilePut
  <2>2. CASE Backup!Same(p)
    <3>1. p \in DOMAIN dest /\ dest[p].recs = parts[p].recs /\ dest[p].first = parts[p].first /\ dest' = dest
        BY <1>2, <1>3, <2>2 DEF Backup!Same, Backup!Has, KInv, Alike
    <3>2. dest[p] \in Files
        BY <3>1 DEF KInv, BackupTypes, FilesOf
    <3>3. dest[p] = parts[p]
        BY <1>3, <3>1, <3>2 DEF Files
    <3>. QED  BY <1>2, <3>1, <3>3 DEF KInv, BackupTypes, FilesOf, Alike
  <2>. QED  BY <2>1, <2>2
<1>6. BackupTypes'
    BY <1>2, <1>4, <1>5 DEF KInv, BackupTypes, FilesOf
<1>7. ASSUME NEW q \in DOMAIN parts \ copying' PROVE q \in DOMAIN dest' /\ dest'[q] = parts[q]
    BY <1>2, <1>5, <1>7 DEF KInv
<1>. QED  BY <1>2, <1>3, <1>5, <1>6, <1>7 DEF KInv

LEMMA BackupBreaks == ASSUME KInv, Backup!Break PROVE KInv'
<1>1. copying' = None /\ UNCHANGED <<parts, active, nextRec, complete, taken>> /\ copying # None /\ ~complete
    BY DEF Backup!Break, Backup!Busy, KInv
<1>2. CASE dest' = dest
    BY <1>1, <1>2 DEF KInv, BackupTypes, FilesOf, Alike
<1>3. CASE dest' # dest
  <2>1. PICK p : p = Backup!Min(copying)
    OBVIOUS
  <2>2. copying # {} /\ \E n \in 0 .. parts[p].recs : dest' = Backup!Put(dest, p, Backup!File(parts[p].first, n))
    BY <1>3, <2>1 DEF Backup!Break
  <2>3. PICK n \in 0 .. parts[p].recs : dest' = Backup!Put(dest, p, Backup!File(parts[p].first, n))
    BY <2>2
  <2>4. p \in DOMAIN parts /\ parts[p] \in Files
    BY <1>1, <2>1, <2>2, NextCopied DEF KInv, BackupTypes, FilesOf
  <2>5. PICK f : f = Backup!File(parts[p].first, n)
    OBVIOUS
  <2>6. parts[p].first \in Nat /\ n \in Nat
    BY <2>4 DEF Files
  <2>7. f \in Files /\ f.first = parts[p].first
    BY <2>5, <2>6, FileIsOne
  <2>8. FilesOf(dest)' /\ \A q \in DOMAIN dest' : Alike(q)'
    BY <1>1, <2>3, <2>4, <2>5, <2>7, FilePut
  <2>. QED  BY <1>1, <2>8 DEF KInv, BackupTypes, FilesOf
<1>. QED  BY <1>2, <1>3

LEMMA BackupEnds == ASSUME KInv, Backup!End PROVE KInv'
<1>1. /\ copying = {} /\ dest' = Backup!Restrict(dest, DOMAIN dest \cap DOMAIN parts)
      /\ complete' = TRUE /\ copying' = None /\ taken' = Backup!All(parts)
      /\ UNCHANGED <<parts, active, nextRec>>
    BY DEF Backup!End
<1>2. copying # None
    BY <1>1, NotNone DEF KInv
<1>3. \A p \in DOMAIN parts : p \in DOMAIN dest /\ dest[p] = parts[p]
    BY <1>1, <1>2 DEF KInv
<1>4. DOMAIN dest' = DOMAIN parts /\ \A p \in DOMAIN parts : dest'[p] = parts[p]
    BY <1>1, <1>3 DEF Backup!Restrict
<1>5. Backup!All(dest') = Backup!All(parts)
  <2>1. PICK g : g = dest'
    OBVIOUS
  <2>. QED  BY <1>4, <2>1, SameRecords
<1>6. BackupTypes' /\ \A p \in DOMAIN dest' : Alike(p)'
    BY <1>1, <1>4 DEF KInv, BackupTypes, FilesOf, Alike
<1>7. Backup!All(dest)' = taken'
    BY <1>1, <1>5 DEF Backup!All, Backup!RecsOf
<1>. QED  BY <1>1, <1>6, <1>7 DEF KInv

LEMMA BackupStepKeeps == ASSUME KInv, [Backup!KNext]_backupVars PROVE KInv'
<1>1. CASE UNCHANGED backupVars \/ Backup!Restore
  <2>1. UNCHANGED <<parts, active, nextRec, dest, complete, copying, taken>>
    BY <1>1 DEF backupVars, Backup!Restore
  <2>. QED  BY <2>1 DEF KInv, BackupTypes, FilesOf, Alike, Backup!All, Backup!RecsOf
<1>. QED
    BY <1>1, BackupWrite, BackupRoll, BackupCompact, BackupStarts, BackupCopy, BackupBreaks, BackupEnds
    DEF Backup!KNext

(* Only a restore shows something else, and only what was taken.           *)
LEMMA BackupImply == ASSUME KInv, [Backup!KNext]_backupVars PROVE shown' # shown => shown' = taken
BY DEF KInv, backupVars, Backup!KNext, Backup!Write, Backup!Roll, Backup!Compact, Backup!Begin, Backup!Copy,
       Backup!Break, Backup!End, Backup!Restore

-----------------------------------------------------------------------------
(* The migration.  As long as no legacy file is retired the two of them    *)
(* are the history; a file is retired only when the store is there, and    *)
(* the store, unless the operator removed it since, is the history.        *)
History == [i \in 1 .. whole |-> i]

GInv ==
    /\ whole \in Nat /\ halved \in BOOLEAN
    /\ start = [phase |-> start.phase, todo |-> start.todo]
    /\ ~halved =>
        /\ retired = {} => legacyLog # None /\ Migrate!LegacyRecords = History
        /\ store = None => retired = {}
        /\ store # None => store = History
        /\ start.phase = "refused" => store # None
        /\ start.phase \in {"log", "snap", "open", "serving"} => store # None
        /\ start.phase = "rename" => staging = History
        /\ start.phase \in {"discard", "build", "verify", "rename"} => store = None

(* What follows the watermark of a log that starts under it.               *)
LEMMA WholeHistory ==
    ASSUME NEW n \in Nat, NEW water \in 0 .. n, NEW low \in 1 .. n + 1, low <= water + 1,
           legacySnap = IF water = 0 THEN None ELSE [water |-> water],
           legacyLog = [i \in 1 .. n + 1 - low |-> low + i - 1]
    PROVE  legacyLog # None /\ Migrate!LegacyRecords = [i \in 1 .. n |-> i]
<1> DEFINE k == water + 1 - low
           len == n + 1 - low
           under == {i \in DOMAIN legacyLog : ~Migrate!PastWater(legacyLog[i])}
<1>1. legacyLog \in Seq(Nat) /\ Len(legacyLog) = len /\ k \in 0 .. len /\ len \in Nat
    OBVIOUS
<1>2. legacyLog # None
    BY <1>1, NoneAssumption
<1>3. Migrate!Water = water
  <2>1. [water |-> water] # None
    BY NoneAssumption
  <2>. QED  BY <2>1 DEF Migrate!Water
<1>4. \A i \in 1 .. len : legacyLog[i] = low + i - 1
    OBVIOUS
<1>5. under = 1 .. k
    BY <1>1, <1>3, <1>4 DEF Migrate!PastWater
<1>6. Cardinality(under) = k
  <2>1. 1 \in Int /\ k \in Int /\ (IF 1 <= k THEN k - 1 + 1 ELSE 0) = k
    BY <1>1
  <2>2. Cardinality(1 .. k) = IF 1 <= k THEN k - 1 + 1 ELSE 0
    BY <2>1, FS_Interval
  <2>. HIDE DEF k, under
  <2>. QED  BY <1>5, <2>1, <2>2
<1>7. Migrate!Past(legacyLog) = SubSeq(legacyLog, k + 1, len)
  <2>1. Migrate!Past(legacyLog) = SubSeq(legacyLog, Migrate!Cardinality(under) + 1, len)
    BY <1>1 DEF Migrate!Past
  <2>2. Migrate!Cardinality(under) = Cardinality(under)
    BY DEF Migrate!Cardinality, Cardinality
  <2>. HIDE DEF k, under, len
  <2>. QED  BY <1>6, <2>1, <2>2
<1>8. SubSeq(legacyLog, k + 1, len) = [i \in 1 .. n - water |-> water + i]
    BY <1>1, <1>4
<1>9. Migrate!LegacyRecords = [i \in 1 .. water |-> i] \o [i \in 1 .. n - water |-> water + i]
    BY <1>2, <1>3, <1>7, <1>8 DEF Migrate!LegacyRecords
<1>10. [i \in 1 .. water |-> i] \o [i \in 1 .. n - water |-> water + i] = [i \in 1 .. n |-> i]
    OBVIOUS
<1>. QED  BY <1>2, <1>9, <1>10

LEMMA MigrateBegins == ASSUME Migrate!GInit PROVE GInv
<1>1. PICK water \in 0 .. whole, low \in 1 .. whole + 1 :
          /\ low <= water + 1
          /\ legacySnap = IF water = 0 THEN None ELSE [water |-> water]
          /\ legacyLog = [i \in 1 .. whole + 1 - low |-> low + i - 1]
    BY DEF Migrate!GInit
<1>2. whole \in Nat
    BY DEF Migrate!GInit
<1>3. legacyLog # None /\ Migrate!LegacyRecords = History
    BY <1>1, <1>2, WholeHistory DEF History
<1>. QED  BY <1>2, <1>3 DEF Migrate!GInit, Migrate!Down, GInv

(* A step that leaves the legacy files alone leaves what they hold alone.  *)
LEMMA SameHistory ==
    ASSUME legacyLog' = legacyLog, legacySnap' = legacySnap
    PROVE  Migrate!LegacyRecords' = Migrate!LegacyRecords
BY DEF Migrate!LegacyRecords, Migrate!Past, Migrate!PastWater, Migrate!Water

LEMMA MigrateStepKeeps == ASSUME GInv, [Migrate!GNext]_migrateVars PROVE GInv'
<1> USE DEF Migrate!At, Migrate!Go
<1>0. History # None
    <2>1. History \in Seq(Nat)
        BY DEF GInv, History
    <2>. QED  BY <2>1, NoneAssumption
<1>1. CASE UNCHANGED migrateVars
    BY <1>1, SameHistory DEF GInv, migrateVars, History
<1>2. CASE Migrate!Begin
    BY <1>2, SameHistory DEF Migrate!Begin, Migrate!LegacyPresent, GInv, History
<1>3. CASE Migrate!Discard
    BY <1>3, SameHistory DEF Migrate!Discard, GInv, History
<1>4. CASE Migrate!Build
    <2>1. /\ UNCHANGED <<legacyLog, legacySnap, retired, store, whole, halved>>
          /\ start.phase = "build" /\ start'.phase \in {"verify", "build"}
          /\ start' = [phase |-> start'.phase, todo |-> start'.todo]
        BY <1>4 DEF Migrate!Build, GInv
    <2>. QED  BY <2>1, SameHistory DEF GInv, History
<1>5. CASE Migrate!Verify
    <2>1. (staging = Migrate!LegacyRecords /\ start'.phase = "rename") \/ start'.phase = "down"
        BY <1>5 DEF Migrate!Verify, GInv
    <2>2. ~halved => staging = History \/ start'.phase = "down"
        BY <1>5, <2>1 DEF Migrate!Verify, GInv
    <2>. QED  BY <1>5, <2>1, <2>2, SameHistory DEF Migrate!Verify, GInv, History
<1>6. CASE Migrate!Rename
    BY <1>0, <1>6, SameHistory DEF Migrate!Rename, GInv, History
<1>7. CASE Migrate!RetireLog
    BY <1>7 DEF Migrate!RetireLog, GInv, History
<1>8. CASE Migrate!RetireSnap
    BY <1>8, SameHistory DEF Migrate!RetireSnap, GInv, History
<1>9. CASE Migrate!Open
    BY <1>9, SameHistory DEF Migrate!Open, GInv, History
<1>10. CASE Migrate!Interrupt
    BY <1>10, SameHistory DEF Migrate!Interrupt, Migrate!Down, GInv, History
<1>11. CASE Migrate!RemoveStore
    BY <1>11, SameHistory DEF Migrate!RemoveStore, Migrate!Down, GInv, History
<1>12. CASE Migrate!RenameLegacy
    BY <1>12 DEF Migrate!RenameLegacy, Migrate!Down, GInv, History
<1>. QED
    BY <1>1, <1>2, <1>3, <1>4, <1>5, <1>6, <1>7, <1>8, <1>9, <1>10, <1>11, <1>12 DEF Migrate!GNext

LEMMA MigrateImply == GInv => Migrate!ServesWhole
BY DEF GInv, History, Migrate!ServesWhole, Migrate!At

-----------------------------------------------------------------------------
(* The legacy file store.  Every record past the watermark of a snapshot   *)
(* is in the log, and applied to the snapshot's table they give what was   *)
(* acknowledged: that holds of the snapshot on disk, and of the one being  *)
(* taken as soon as its watermark is read, as the graph it will read then  *)
(* only gets newer.                                                        *)
Row    == [seq : Nat, item : LegacyItems, val : 0 .. 2]
Tables == [LegacyItems -> 0 .. 2]
Shots  == [phase : {"none", "graph", "write", "truncate"}, who : {None, "snapshot", "compact"},
           water : Nat, table : Tables]

FileTypes ==
    /\ log \in Seq(Row) /\ pending \in Seq(Row) /\ seq \in Nat
    /\ running \in BOOLEAN /\ refuses \in BOOLEAN /\ raced \in BOOLEAN
    /\ table \in Tables /\ acked \in Tables
    /\ snap \in [water : Nat, table : Tables] \cup {None}
    /\ shot \in Shots

(* Numbers increase along the log and are not above the counter.           *)
Numbered ==
    /\ \A i, j \in DOMAIN log : i < j => log[i].seq < log[j].seq
    /\ running => /\ \A j \in DOMAIN log : log[j].seq <= seq
                  /\ snap # None => snap.water <= seq
                  /\ shot.water <= seq

Over(w)    == {j \in DOMAIN log : log[j].seq > w}
Kept(w, t) == File!Latest(t, log, Over(w)) = acked

(* The snapshot in progress.                                               *)
ShotOk ==
    /\ shot.phase = "graph" => Kept(shot.water, table)
    /\ shot.phase = "write" => Kept(shot.water, shot.table)
    /\ shot.phase # "none" /\ shot.who = "compact" =>
          pending = << >> /\ \A j \in DOMAIN log : log[j].seq <= shot.water
    /\ shot.phase = "truncate" =>
          shot.who = "compact" /\ snap # None /\ snap.table = shot.table /\ shot.table = acked

FInv ==
    /\ FileTypes /\ Numbered
    /\ pending # << >> => ~refuses
    /\ ~running => pending = << >> /\ ~refuses /\ shot = File!Free
    /\ ~raced =>
        /\ File!Loaded = acked
        /\ running /\ ~refuses => acked = File!Applied(table, pending)
        /\ ShotOk

(* The value of an item is that of the last record about it.               *)
Decided(t, recs, S, i, v) ==
    \/ (\A j \in S : recs[j].item # i) /\ v = t[i]
    \/ \E j \in S : /\ recs[j].item = i /\ v = recs[j].val
                     /\ \A k \in S : recs[k].item = i => k <= j

LEMMA LatestAt ==
    ASSUME NEW t, NEW recs, NEW n \in Nat, NEW S \in SUBSET (1 .. n), NEW i \in LegacyItems
    PROVE  Decided(t, recs, S, i, File!Latest(t, recs, S)[i])
<1>. DEFINE of == {j \in S : recs[j].item = i}
            top == CHOOSE j \in of : \A k \in of : k <= j
<1>1. File!Latest(t, recs, S)[i] = IF of = {} THEN t[i] ELSE recs[top].val
    BY DEF File!Latest
<1>2. ASSUME of # {} PROVE \E j \in of : \A k \in of : k <= j
  <2>1. \A j \in S : j \in 0 .. n
    OBVIOUS
  <2>2. of \in SUBSET (0 .. n)
    BY <2>1
  <2>. HIDE DEF of
  <2>. QED  BY <1>2, <2>2, MaxExists
<1>3. of # {} => top \in of /\ \A k \in of : k <= top
    BY <1>2
<1>4. \A j : j \in of <=> j \in S /\ recs[j].item = i
    OBVIOUS
<1>. HIDE DEF of, top
<1>. QED  BY <1>1, <1>3, <1>4 DEF Decided

LEMMA LatestDomain == ASSUME NEW t, NEW recs, NEW S
                      PROVE  File!Latest(t, recs, S) = [i \in LegacyItems |-> File!Latest(t, recs, S)[i]]
BY DEF File!Latest

LEMMA LatestTyped ==
    ASSUME NEW t \in Tables, NEW recs \in Seq(Row), NEW S \in SUBSET DOMAIN recs
    PROVE  File!Latest(t, recs, S) \in Tables
<1>1. S \in SUBSET (1 .. Len(recs)) /\ Len(recs) \in Nat
    OBVIOUS
<1>2. \A j \in S : recs[j] \in Row
    BY <1>1
<1>3. ASSUME NEW i \in LegacyItems PROVE File!Latest(t, recs, S)[i] \in 0 .. 2
  <2>1. t[i] \in 0 .. 2
    BY DEF Tables
  <2>2. Decided(t, recs, S, i, File!Latest(t, recs, S)[i])
    BY <1>1, LatestAt
  <2>. QED  BY <1>2, <2>1, <2>2 DEF Decided, Row
<1>. HIDE DEF Tables
<1>4. File!Latest(t, recs, S) = [i \in LegacyItems |-> File!Latest(t, recs, S)[i]]
    BY LatestDomain
<1>. QED  BY <1>3, <1>4 DEF Tables

(* Nothing to apply.                                                       *)
LEMMA LatestNone == ASSUME NEW t \in Tables, NEW recs PROVE File!Latest(t, recs, {}) = t
BY DEF File!Latest, Tables

(* More records, behind the others.                                        *)
LEMMA LatestMore ==
    ASSUME NEW t, NEW recs \in Seq(Row), NEW new \in Seq(Row), NEW S \in SUBSET DOMAIN recs
    PROVE  File!Latest(t, recs \o new, S \cup {Len(recs) + k : k \in DOMAIN new})
              = File!Applied(File!Latest(t, recs, S), new)
<1> DEFINE T == S \cup {Len(recs) + k : k \in DOMAIN new}
           n == Len(recs)
           m == Len(new)
           both == recs \o new
           before == File!Latest(t, recs, S)
<1>1. /\ n \in Nat /\ m \in Nat /\ DOMAIN recs = 1 .. n /\ DOMAIN new = 1 .. m
      /\ S \in SUBSET (1 .. n) /\ T \in SUBSET (1 .. n + m)
    OBVIOUS
<1>2. (\A j \in 1 .. n : both[j] = recs[j]) /\ \A k \in 1 .. m : both[n + k] = new[k]
    OBVIOUS
<1>3. ASSUME NEW i \in LegacyItems PROVE File!Latest(t, both, T)[i] = File!Applied(before, new)[i]
  <2>1. Decided(t, recs, S, i, before[i])
    BY <1>1, LatestAt
  <2>2. Decided(before, new, 1 .. m, i, File!Applied(before, new)[i])
    BY <1>1, LatestAt DEF File!Applied
  <2>3. Decided(t, both, T, i, File!Latest(t, both, T)[i])
    <3>1. n + m \in Nat /\ T \in SUBSET (1 .. n + m)
      BY <1>1
    <3>. HIDE DEF both, T, n, m
    <3>. QED  BY <3>1, LatestAt
  <2>4. \A j \in T : j \in S \/ \E k \in 1 .. m : j = n + k
    BY <1>1
  <2>5. S \subseteq T /\ \A k \in 1 .. m : n + k \in T
    BY <1>1
  <2>. HIDE DEF before, both, n, m
  <2>6. CASE \A k \in 1 .. m : new[k].item # i
    <3>1. \A j \in T : both[j].item = i => j \in S
      BY <1>1, <1>2, <2>4, <2>6
    <3>2. \A j \in S : both[j] = recs[j]
      BY <1>1, <1>2
    <3>3. CASE \A j \in S : recs[j].item # i
      BY <2>1, <2>2, <2>3, <2>6, <3>1, <3>2, <3>3 DEF Decided
    <3>4. CASE \E j \in S : recs[j].item = i
      <4>1. PICK j \in S : /\ recs[j].item = i /\ before[i] = recs[j].val
                           /\ \A k \in S : recs[k].item = i => k <= j
        BY <2>1, <3>4 DEF Decided
      <4>2. PICK l \in T : /\ both[l].item = i /\ File!Latest(t, both, T)[i] = both[l].val
                           /\ \A k \in T : both[k].item = i => k <= l
        BY <2>3, <2>5, <3>2, <4>1 DEF Decided
      <4>3. l \in S /\ j \in T /\ j <= l /\ l <= j
        BY <2>5, <3>1, <3>2, <4>1, <4>2
      <4>4. l = j
        BY <1>1, <4>3
      <4>. QED  BY <2>2, <2>6, <3>2, <4>1, <4>2, <4>4 DEF Decided
    <3>. QED  BY <3>3, <3>4
  <2>7. CASE \E k \in 1 .. m : new[k].item = i
    <3>1. PICK j \in 1 .. m : /\ new[j].item = i /\ File!Applied(before, new)[i] = new[j].val
                              /\ \A k \in 1 .. m : new[k].item = i => k <= j
      BY <2>2, <2>7 DEF Decided
    <3>2. n + j \in T /\ both[n + j].item = i
      BY <1>2, <2>5, <3>1
    <3>3. PICK l \in T : /\ both[l].item = i /\ File!Latest(t, both, T)[i] = both[l].val
                         /\ \A k \in T : both[k].item = i => k <= l
      BY <2>3, <3>2 DEF Decided
    <3>4. n + j <= l
      BY <3>2, <3>3
    <3>5. l \notin S
      BY <1>1, <3>4
    <3>6. PICK k \in 1 .. m : l = n + k
      BY <2>4, <3>3, <3>5
    <3>7. k = j
      <4>1. new[k].item = i
        BY <1>2, <3>3, <3>6
      <4>. QED  BY <1>1, <3>1, <3>4, <3>6, <4>1
    <3>. QED  BY <1>2, <3>1, <3>3, <3>6, <3>7
  <2>. QED  BY <2>6, <2>7
<1>4. File!Latest(t, both, T) = [i \in LegacyItems |-> File!Latest(t, both, T)[i]]
    BY LatestDomain
<1>5. File!Applied(before, new) = [i \in LegacyItems |-> File!Applied(before, new)[i]]
    BY LatestDomain DEF File!Applied
<1>. HIDE DEF before, both, T
<1>6. File!Latest(t, both, T) = File!Applied(before, new)
    BY <1>3, <1>4, <1>5
<1>. QED  BY <1>6 DEF before, both, T

(* Applied to what they lead to, the records change nothing.               *)
LEMMA LatestAgain ==
    ASSUME NEW t, NEW a \in Tables, NEW recs \in Seq(Row), NEW S \in SUBSET DOMAIN recs, File!Latest(t, recs, S) = a
    PROVE  File!Latest(a, recs, S) = a
<1>1. S \in SUBSET (1 .. Len(recs)) /\ Len(recs) \in Nat
    OBVIOUS
<1>2. ASSUME NEW i \in LegacyItems PROVE File!Latest(a, recs, S)[i] = a[i]
  <2>1. Decided(a, recs, S, i, File!Latest(a, recs, S)[i])
    BY <1>1, LatestAt
  <2>2. Decided(t, recs, S, i, a[i])
    BY <1>1, LatestAt
  <2>3. \A j, k \in S : j <= k /\ k <= j => j = k
    BY <1>1
  <2>. QED  BY <2>1, <2>2, <2>3, Zenon DEF Decided
<1>3. File!Latest(a, recs, S) = [i \in LegacyItems |-> File!Latest(a, recs, S)[i]]
    BY LatestDomain
<1>. QED  BY <1>2, <1>3 DEF Tables

(* Only items and values are applied.                                      *)
LEMMA SameApplied ==
    ASSUME NEW t, NEW recs, NEW new, DOMAIN recs = DOMAIN new,
           \A k \in DOMAIN new : recs[k].item = new[k].item /\ recs[k].val = new[k].val,
           NEW n \in Nat, DOMAIN new = 1 .. n
    PROVE  File!Applied(t, recs) = File!Applied(t, new)
<1>1. ASSUME NEW i \in LegacyItems PROVE File!Applied(t, recs)[i] = File!Applied(t, new)[i]
  <2>1. Decided(t, recs, 1 .. n, i, File!Applied(t, recs)[i])
    BY LatestAt DEF File!Applied
  <2>2. Decided(t, new, 1 .. n, i, File!Applied(t, new)[i])
    BY LatestAt DEF File!Applied
  <2>3. CASE \A k \in 1 .. n : new[k].item # i
    BY <2>1, <2>2, <2>3 DEF Decided
  <2>4. CASE \E k \in 1 .. n : new[k].item = i
    <3>1. PICK j \in 1 .. n : /\ recs[j].item = i /\ File!Applied(t, recs)[i] = recs[j].val
                              /\ \A k \in 1 .. n : recs[k].item = i => k <= j
      BY <2>1, <2>4 DEF Decided
    <3>2. PICK l \in 1 .. n : /\ new[l].item = i /\ File!Applied(t, new)[i] = new[l].val
                              /\ \A k \in 1 .. n : new[k].item = i => k <= l
      BY <2>2, <2>4 DEF Decided
    <3>3. j <= l /\ l <= j
      BY <3>1, <3>2
    <3>4. j = l
      BY <3>3
    <3>. QED  BY <3>1, <3>2, <3>4
  <2>. QED  BY <2>3, <2>4
<1>2. /\ File!Applied(t, recs) = [i \in LegacyItems |-> File!Applied(t, recs)[i]]
      /\ File!Applied(t, new) = [i \in LegacyItems |-> File!Applied(t, new)[i]]
    BY LatestDomain DEF File!Applied
<1>. QED  BY <1>1, <1>2

(* Records behind the counter are not covered by any watermark.            *)
LEMMA LogGrows ==
    ASSUME FileTypes, Numbered, running, NEW new \in Seq(Row), log' = log \o new,
           \A k \in DOMAIN new : new[k].seq > seq, acked' = File!Applied(acked, new), snap' = snap
    PROVE  /\ \A w \in Nat : \A t : w <= seq /\ Kept(w, t) =>
                 File!Latest(t, log', {j \in DOMAIN log' : log'[j].seq > w}) = acked'
           /\ File!Loaded = acked => File!Loaded' = acked'
<1> DEFINE n == Len(log)
<1>1. /\ log \in Seq(Row) /\ log' \in Seq(Row) /\ seq \in Nat /\ DOMAIN log' = 1 .. n + Len(new) /\ DOMAIN log = 1 .. n
      /\ n \in Nat /\ DOMAIN new = 1 .. Len(new) /\ Len(new) \in Nat
      /\ \A j \in 1 .. n : log'[j] = log[j]
      /\ \A k \in DOMAIN new : log'[n + k] = new[k]
    BY DEF FileTypes
<1>2. \A j \in DOMAIN log' : j \in DOMAIN log \/ \E k \in DOMAIN new : j = n + k
  <2>1. \A j \in 1 .. n + Len(new) : j \in 1 .. n \/ (j - n \in 1 .. Len(new) /\ j = n + (j - n))
    BY <1>1
  <2>. HIDE DEF n
  <2>. QED  BY <1>1, <2>1
<1>3. DOMAIN log \subseteq DOMAIN log' /\ \A k \in DOMAIN new : n + k \in DOMAIN log'
    BY <1>1
<1>4. \A k \in DOMAIN new : new[k].seq \in Nat
  <2>1. \A k \in DOMAIN new : new[k] \in Row
    OBVIOUS
  <2>. QED  BY <2>1 DEF Row
<1>5. ASSUME NEW w \in Nat, NEW t, w <= seq, Kept(w, t)
      PROVE  File!Latest(t, log', {j \in DOMAIN log' : log'[j].seq > w}) = acked'
  <2> DEFINE T == {j \in DOMAIN log' : log'[j].seq > w}
  <2>1. \A k \in DOMAIN new : new[k].seq > w
    BY <1>1, <1>4, <1>5
  <2>2. T = Over(w) \cup {n + k : k \in DOMAIN new}
    <3>1. \A j \in T : j \in Over(w) \/ \E k \in DOMAIN new : j = n + k
      BY <1>1, <1>2 DEF Over
    <3>2. \A j \in Over(w) : j \in T
      BY <1>1, <1>3 DEF Over
    <3>3. \A k \in DOMAIN new : n + k \in T
      BY <1>1, <1>3, <2>1
    <3>. HIDE DEF T, n
    <3>. QED  BY <3>1, <3>2, <3>3
  <2>3. Over(w) \in SUBSET DOMAIN log
    BY DEF Over
  <2>. HIDE DEF T, n
  <2>4. File!Latest(t, log \o new, T) = File!Applied(File!Latest(t, log, Over(w)), new)
    <3>1. File!Latest(t, log \o new, Over(w) \cup {Len(log) + k : k \in DOMAIN new})
              = File!Applied(File!Latest(t, log, Over(w)), new)
      BY <1>1, <2>3, LatestMore
    <3>. QED  BY <2>2, <3>1 DEF n
  <2>5. File!Latest(t, log', T) = acked'
    BY <1>5, <2>4 DEF Kept
  <2>. QED  BY <2>5 DEF T
<1>6. ASSUME File!Loaded = acked PROVE File!Loaded' = acked'
  <2> DEFINE S == {j \in DOMAIN log : ~File!Covered(log[j])}
             T == {j \in DOMAIN log' : ~File!Covered(log[j])'}
             base == IF snap = None THEN File!Nothing ELSE snap.table
  <2>1. \A k \in DOMAIN new : snap # None => ~(new[k].seq <= snap.water)
    BY <1>1, <1>4 DEF Numbered, FileTypes
  <2>2. \A j \in DOMAIN log' : j \in T <=> ~(snap # None /\ log'[j].seq <= snap.water)
    BY DEF File!Covered
  <2>3. \A j \in DOMAIN log : j \in S <=> ~(snap # None /\ log[j].seq <= snap.water)
    BY DEF File!Covered
  <2>4. S \in SUBSET DOMAIN log /\ T \in SUBSET DOMAIN log'
    OBVIOUS
  <2>. HIDE DEF S, T, n, base
  <2>5. T = S \cup {n + k : k \in DOMAIN new}
    <3>1. \A j \in T : j \in S \/ \E k \in DOMAIN new : j = n + k
      BY <1>1, <1>2, <2>2, <2>3, <2>4
    <3>2. \A j \in S : j \in T
      BY <1>1, <1>3, <2>2, <2>3, <2>4
    <3>3. \A k \in DOMAIN new : n + k \in T
      BY <1>1, <1>3, <2>1, <2>2
    <3>. QED  BY <3>1, <3>2, <3>3
  <2>6. File!Latest(base, log \o new, T) = File!Applied(File!Latest(base, log, S), new)
    <3>1. File!Latest(base, log \o new, S \cup {Len(log) + k : k \in DOMAIN new})
              = File!Applied(File!Latest(base, log, S), new)
      BY <1>1, <2>4, LatestMore
    <3>. QED  BY <2>5, <3>1 DEF n
  <2>7. File!Latest(base, log, S) = acked
    BY <1>6 DEF S, base, File!Loaded
  <2>8. File!Loaded' = File!Latest(base, log', T)
    BY DEF File!Loaded, T, base, File!Nothing
  <2>. QED  BY <2>6, <2>7, <2>8
<1>. QED  BY <1>5, <1>6

LEMMA FileBegins == ASSUME File!FInit PROVE FInv
<1>1. File!Nothing \in Tables
    BY DEF File!Nothing, Tables
<1>2. FileTypes /\ Numbered
  <2>1. shot \in Shots /\ shot.water = 0
    BY <1>1 DEF File!FInit, File!Free, Shots
  <2>2. /\ log = << >> /\ pending = << >> /\ seq = 0 /\ running = TRUE /\ refuses = FALSE /\ raced = FALSE
        /\ table \in Tables /\ acked \in Tables /\ snap = None
    BY <1>1 DEF File!FInit
  <2>3. << >> \in Seq(Row) /\ DOMAIN << >> = {}
    OBVIOUS
  <2>4. FileTypes
    BY <2>1, <2>2, <2>3 DEF FileTypes
  <2>5. Numbered
    BY <2>1, <2>2, <2>3 DEF Numbered
  <2>. QED  BY <2>4, <2>5
<1>3. File!Loaded = acked
  <2>1. File!Loaded = File!Latest(File!Nothing, << >>, {})
    BY DEF File!FInit, File!Loaded
  <2>. QED  BY <1>1, <2>1, LatestNone DEF File!FInit
<1>4. File!Applied(table, pending) = acked
    BY <1>1, LatestNone DEF File!FInit, File!Applied
<1>5. ShotOk
    BY DEF File!FInit, ShotOk, File!Free
<1>. QED  BY <1>2, <1>3, <1>4, <1>5 DEF FInv, File!FInit

(* The records of a batch are numbered past the counter and do what the    *)
(* batch says; so do those of them that a failed write left whole.         *)
Records == [item : LegacyItems, val : 0 .. 2]

LEMMA EncodedBatch ==
    ASSUME seq \in Nat, NEW batch \in Seq(Records), NEW n \in 0 .. Len(batch), NEW t
    PROVE  /\ SubSeq(File!Encoded(batch), 1, n) \in Seq(Row)
           /\ DOMAIN SubSeq(File!Encoded(batch), 1, n) = 1 .. n
           /\ \A k \in 1 .. n : SubSeq(File!Encoded(batch), 1, n)[k].seq = seq + k
           /\ File!Applied(t, SubSeq(File!Encoded(batch), 1, n)) = File!Applied(t, SubSeq(batch, 1, n))
<1> DEFINE new == SubSeq(File!Encoded(batch), 1, n)
           old == SubSeq(batch, 1, n)
<1>1. /\ Len(batch) \in Nat /\ n \in Nat /\ 1 .. n \subseteq 1 .. Len(batch) /\ DOMAIN batch = 1 .. Len(batch)
      /\ \A k \in 1 .. Len(batch) : batch[k].item \in LegacyItems /\ batch[k].val \in 0 .. 2
  <2>1. \A k \in 1 .. Len(batch) : batch[k] \in Records
    OBVIOUS
  <2>. QED  BY <2>1 DEF Records
<1>2. File!Encoded(batch) = [j \in 1 .. Len(batch) |-> [seq |-> seq + j, item |-> batch[j].item, val |-> batch[j].val]]
    BY <1>1 DEF File!Encoded
<1>3. File!Encoded(batch) \in Seq(Row) /\ Len(File!Encoded(batch)) = Len(batch)
  <2>1. \A j \in 1 .. Len(batch) : [seq |-> seq + j, item |-> batch[j].item, val |-> batch[j].val] \in Row
    BY <1>1 DEF Row
  <2>2. [j \in 1 .. Len(batch) |-> [seq |-> seq + j, item |-> batch[j].item, val |-> batch[j].val]] \in Seq(Row)
    BY <1>1, <2>1
  <2>3. DOMAIN File!Encoded(batch) = 1 .. Len(batch) /\ File!Encoded(batch) \in Seq(Row)
    BY <1>2, <2>2
  <2>4. Len(File!Encoded(batch)) \in Nat /\ DOMAIN File!Encoded(batch) = 1 .. Len(File!Encoded(batch))
    BY <2>3
  <2>. QED  BY <1>1, <2>3, <2>4
<1>4. new \in Seq(Row) /\ DOMAIN new = 1 .. n /\ \A k \in 1 .. n : new[k] = File!Encoded(batch)[k]
    BY <1>1, <1>3
<1>5. DOMAIN old = 1 .. n /\ \A k \in 1 .. n : old[k] = batch[k]
    BY <1>1
<1>6. \A k \in 1 .. n : new[k] = [seq |-> seq + k, item |-> old[k].item, val |-> old[k].val]
    BY <1>1, <1>2, <1>4, <1>5
<1>. HIDE DEF new, old
<1>7. File!Applied(t, new) = File!Applied(t, old)
    BY <1>1, <1>4, <1>5, <1>6, SameApplied
<1>8. ASSUME NEW k \in 1 .. n PROVE new[k].seq = seq + k
  <2>1. new[k] = [seq |-> seq + k, item |-> old[k].item, val |-> old[k].val]
    BY <1>6
  <2>. QED  BY <2>1
<1>. QED  BY <1>4, <1>7, <1>8 DEF new, old

(* Records that reach the log.                                             *)
LEMMA LogAppended ==
    ASSUME FInv, running, pending = << >>, shot.who # "compact",
           NEW new \in Seq(Row), NEW n \in Nat, NEW d \in Nat, n <= d, DOMAIN new = 1 .. n,
           \A k \in 1 .. n : new[k].seq = seq + k,
           log' = log \o new, seq' = seq + d, acked' = File!Applied(acked, new),
           UNCHANGED <<snap, shot, running, table, raced>>
    PROVE  /\ log' \in Seq(Row) /\ seq' \in Nat /\ acked' \in Tables /\ Numbered'
           /\ ~raced => File!Loaded' = acked' /\ ShotOk'
<1>1. FileTypes /\ Numbered /\ seq \in Nat /\ log \in Seq(Row) /\ shot.water \in Nat
    BY DEF FInv, FileTypes, Shots
<1>2. log' \in Seq(Row) /\ seq' \in Nat
    BY <1>1
<1>3. acked' \in Tables
    BY <1>1, LatestTyped DEF File!Applied, FileTypes
<1>4. Numbered'
  <2>1. /\ Len(log) \in Nat /\ DOMAIN log = 1 .. Len(log) /\ DOMAIN log' = 1 .. Len(log) + n
        /\ (\A j \in 1 .. Len(log) : log'[j] = log[j]) /\ \A k \in 1 .. n : log'[Len(log) + k] = new[k]
    BY <1>1
  <2>2. \A j \in 1 .. Len(log) : log'[j].seq <= seq /\ log'[j].seq \in Nat
    <3>1. \A j \in 1 .. Len(log) : log[j] \in Row
      BY <1>1
    <3>. QED  BY <1>1, <2>1, <3>1 DEF Numbered, Row
  <2>3. \A j \in DOMAIN log' : j \in 1 .. Len(log) \/ \E k \in 1 .. n : j = Len(log) + k /\ log'[j].seq = seq + k
    <3>1. \A j \in 1 .. Len(log) + n : j \in 1 .. Len(log) \/ (j - Len(log) \in 1 .. n /\ j = Len(log) + (j - Len(log)))
      BY <2>1
    <3>. QED  BY <2>1, <3>1
  <2>4. ASSUME NEW i \in DOMAIN log', NEW j \in DOMAIN log', i < j PROVE log'[i].seq < log'[j].seq
    <3>1. CASE j \in 1 .. Len(log)
      BY <1>1, <2>1, <2>4, <3>1 DEF Numbered
    <3>2. CASE i \in 1 .. Len(log) /\ j \notin 1 .. Len(log)
      <4>1. log'[i].seq <= seq /\ log'[i].seq \in Nat
        BY <2>2, <3>2
      <4>2. PICK k \in 1 .. n : log'[j].seq = seq + k
        BY <2>3, <3>2
      <4>3. k \in Nat /\ 1 <= k
        BY <4>2
      <4>4. \A a, b, c \in Nat : a <= b /\ 1 <= c => a < b + c
        OBVIOUS
      <4>. QED  BY <1>1, <4>1, <4>2, <4>3, <4>4, Zenon
    <3>3. CASE i \notin 1 .. Len(log) /\ j \notin 1 .. Len(log)
      <4>1. PICK k \in 1 .. n : i = Len(log) + k /\ log'[i].seq = seq + k
        BY <2>3, <3>3
      <4>2. PICK l \in 1 .. n : j = Len(log) + l /\ log'[j].seq = seq + l
        BY <2>3, <3>3
      <4>. QED  BY <1>1, <2>1, <2>4, <4>1, <4>2
    <3>. QED  BY <2>1, <2>4, <3>1, <3>2, <3>3
  <2>5. \A j \in DOMAIN log' : log'[j].seq <= seq'
    BY <1>1, <2>1, <2>2, <2>3
  <2>6. (snap # None => snap.water <= seq') /\ shot.water <= seq'
    BY <1>1 DEF Numbered, FileTypes
  <2>. QED  BY <2>4, <2>5, <2>6 DEF Numbered
<1>5. ASSUME ~raced PROVE File!Loaded' = acked' /\ ShotOk'
  <2>1. \A k \in DOMAIN new : new[k].seq > seq
    BY <1>1
  <2>2. /\ \A w \in Nat : \A t : w <= seq /\ Kept(w, t) =>
               File!Latest(t, log', {j \in DOMAIN log' : log'[j].seq > w}) = acked'
        /\ File!Loaded = acked => File!Loaded' = acked'
    BY <1>1, <2>1, LogGrows
  <2>3. shot.water <= seq /\ ShotOk /\ shot.phase # "truncate" /\ (shot.phase # "none" => shot.who # "compact")
    BY <1>1, <1>5 DEF FInv, Numbered, ShotOk
  <2>4. /\ shot.phase = "graph" => File!Latest(table, log', {j \in DOMAIN log' : log'[j].seq > shot.water}) = acked'
        /\ shot.phase = "write" => File!Latest(shot.table, log', {j \in DOMAIN log' : log'[j].seq > shot.water}) = acked'
    BY <1>1, <2>2, <2>3 DEF ShotOk
  <2>5. ShotOk'
    BY <2>3, <2>4 DEF ShotOk, Kept, Over
  <2>. QED  BY <1>5, <2>2, <2>5 DEF FInv
<1>. QED  BY <1>2, <1>3, <1>4, <1>5

LEMMA WriteKeeps == ASSUME FInv, File!Write PROVE FInv'
<1>. PICK batch \in File!Batches :
        /\ running /\ pending = << >> /\ ~refuses /\ shot.who # "compact"
        /\ seq + Len(batch) <= MaxSeq
        /\ log' = log \o File!Encoded(batch)
        /\ seq' = seq + Len(batch)
        /\ pending' = File!Encoded(batch)
        /\ acked' = File!Applied(acked, batch)
        /\ UNCHANGED <<torn, snap, table, shot, refuses, running, raced>>
    BY Zenon DEF File!Write
<1>1. batch \in Seq(Records) /\ Len(batch) \in Nat /\ Len(batch) \in 0 .. Len(batch)
  <2>1. \E r, q \in Records : batch = <<r>> \/ batch = <<r, q>>
    BY DEF File!Batches, File!Rec, Records
  <2>2. PICK r \in Records, q \in Records : batch = <<r>> \/ batch = <<r, q>>
    BY <2>1
  <2>3. (<<r>> \in Seq(Records) /\ Len(<<r>>) = 1) /\ (<<r, q>> \in Seq(Records) /\ Len(<<r, q>>) = 2)
    OBVIOUS
  <2>4. batch \in Seq(Records) /\ (Len(batch) = 1 \/ Len(batch) = 2)
    BY <2>2, <2>3, Zenon
  <2>. QED  BY <2>4
<1> DEFINE new == File!Encoded(batch)
<1>2. seq \in Nat
    BY DEF FInv, FileTypes
<1>3. SubSeq(new, 1, Len(batch)) = new /\ SubSeq(batch, 1, Len(batch)) = batch
    BY <1>1 DEF File!Encoded
<1>4. /\ new \in Seq(Row) /\ DOMAIN new = 1 .. Len(batch) /\ \A k \in 1 .. Len(batch) : new[k].seq = seq + k
      /\ File!Applied(acked, new) = File!Applied(acked, batch)
  <2>1. /\ SubSeq(new, 1, Len(batch)) \in Seq(Row)
        /\ DOMAIN SubSeq(new, 1, Len(batch)) = 1 .. Len(batch)
        /\ \A k \in 1 .. Len(batch) : SubSeq(new, 1, Len(batch))[k].seq = seq + k
        /\ File!Applied(acked, SubSeq(new, 1, Len(batch))) = File!Applied(acked, SubSeq(batch, 1, Len(batch)))
    BY <1>1, <1>2, EncodedBatch
  <2>. HIDE DEF new
  <2>2. /\ new \in Seq(Row) /\ DOMAIN new = 1 .. Len(batch)
        /\ \A k \in 1 .. Len(batch) : new[k].seq = seq + k
    BY <1>3, <2>1
  <2>3. File!Applied(acked, new) = File!Applied(acked, batch)
    BY <1>3, <2>1, Zenon
  <2>. QED  BY <2>2, <2>3
<1>. HIDE DEF new
<1>6. /\ log' \in Seq(Row) /\ seq' \in Nat /\ acked' \in Tables /\ Numbered'
      /\ ~raced => File!Loaded' = acked' /\ ShotOk'
  <2>1. log' = log \o new /\ seq' = seq + Len(batch) /\ acked' = File!Applied(acked, new) /\ Len(batch) <= Len(batch)
    BY <1>1, <1>4 DEF new
  <2>. QED  BY <1>1, <1>4, <2>1, LogAppended
<1>7. pending' = new /\ acked' = File!Applied(acked, new)
    BY <1>4 DEF new
<1>8. FileTypes'
    BY <1>4, <1>6, <1>7 DEF FInv, FileTypes
<1>9. ~raced => acked = table
  <2>1. table \in Tables /\ (~raced => acked = File!Applied(table, << >>)) /\ DOMAIN << >> = {}
    BY DEF FInv, FileTypes
  <2>. QED  BY <2>1, LatestNone DEF File!Applied
<1>. QED  BY <1>6, <1>7, <1>8, <1>9 DEF FInv

LEMMA WriteFailsKeeps == ASSUME FInv, File!WriteFails PROVE FInv'
<1>. PICK r \in File!Rec, q \in File!Rec, n \in 0 .. 2 :
        /\ running /\ pending = << >> /\ ~refuses /\ shot.who # "compact"
        /\ log' = log \o SubSeq(File!Encoded(<<r, q>>), 1, n)
        /\ acked' = File!Applied(acked, SubSeq(<<r, q>>, 1, n))
        /\ seq' = seq + 2 /\ refuses' = TRUE
        /\ UNCHANGED <<snap, table, pending, shot, running, raced>>
    BY DEF File!WriteFails
<1> DEFINE batch == <<r, q>>
           new   == SubSeq(File!Encoded(batch), 1, n)
<1>1. batch \in Seq(Records) /\ Len(batch) = 2
  <2>1. r \in Records /\ q \in Records
    BY DEF File!Rec, Records
  <2>. QED  BY <2>1
<1>2. seq \in Nat
    BY DEF FInv, FileTypes
<1>. HIDE DEF batch
<1>3. /\ new \in Seq(Row) /\ DOMAIN new = 1 .. n /\ \A k \in 1 .. n : new[k].seq = seq + k
      /\ File!Applied(acked, new) = File!Applied(acked, SubSeq(batch, 1, n))
    BY <1>1, <1>2, EncodedBatch
<1>4. log' = log \o new /\ acked' = File!Applied(acked, new)
    BY <1>3 DEF batch
<1>. HIDE DEF new
<1>5. /\ log' \in Seq(Row) /\ seq' \in Nat /\ acked' \in Tables /\ Numbered'
      /\ ~raced => File!Loaded' = acked' /\ ShotOk'
  <2>1. n \in Nat /\ 2 \in Nat /\ n <= 2
    OBVIOUS
  <2>. QED  BY <1>3, <1>4, <2>1, LogAppended
<1>6. FileTypes'
    BY <1>5 DEF FInv, FileTypes
<1>. QED  BY <1>5, <1>6 DEF FInv

LEMMA FreeShot == File!Nothing \in Tables /\ File!Free \in Shots /\ File!Free.phase = "none" /\ File!Free.water = 0
BY DEF File!Nothing, File!Free, Tables, Shots

LEMMA NoneApplied == ASSUME NEW t \in Tables PROVE File!Applied(t, << >>) = t
<1>1. DOMAIN << >> = {}
    OBVIOUS
<1>. QED  BY <1>1, LatestNone DEF File!Applied

LEMMA ApplyKeeps == ASSUME FInv, File!Apply PROVE FInv'
<1>1. /\ running /\ pending # << >> /\ ~refuses /\ table' = File!Applied(table, pending) /\ pending' = << >>
      /\ UNCHANGED <<log, snap, seq, shot, refuses, running, acked, raced>>
    BY DEF File!Apply, FInv
<1>2. FileTypes /\ table' \in Tables
    BY <1>1, LatestTyped DEF FInv, FileTypes, File!Applied
<1>3. FileTypes'
    BY <1>1, <1>2 DEF FileTypes
<1>4. Numbered'
    BY <1>1 DEF FInv, Numbered
<1>5. File!Loaded' = File!Loaded
    BY <1>1 DEF File!Loaded, File!Covered, File!Nothing
<1>6. ~raced => table' = acked /\ File!Applied(table, pending)' = acked
    BY <1>1, <1>2, NoneApplied DEF FInv
<1>7. ASSUME ~raced PROVE ShotOk'
  <2>1. ShotOk /\ shot.phase # "truncate" /\ (shot.phase # "none" => shot.who # "compact")
    BY <1>1, <1>7 DEF FInv, ShotOk
  <2>2. shot.phase = "graph" => Kept(shot.water, acked)
    BY <1>2, <2>1, LatestAgain DEF FileTypes, ShotOk, Kept, Over
  <2>3. \A w, t : Kept(w, t)' <=> Kept(w, t)
    BY <1>1 DEF Kept, Over
  <2>. QED  BY <1>1, <1>6, <1>7, <2>1, <2>2, <2>3 DEF ShotOk
<1>. QED  BY <1>1, <1>3, <1>4, <1>5, <1>6, <1>7 DEF FInv

LEMMA WaterKeeps == ASSUME FInv, File!Water PROVE FInv'
<1>1. PICK who \in {"snapshot", "compact"} :
         /\ running /\ shot = File!Free /\ (who = "compact" => pending = << >>)
         /\ shot' = [File!Free EXCEPT !.phase = "graph", !.who = who, !.water = seq]
         /\ raced' = (raced \/ pending # << >> \/ refuses)
         /\ UNCHANGED <<log, snap, seq, table, pending, refuses, running, acked>>
    BY DEF File!Water
<1>2. FileTypes /\ Numbered /\ seq \in Nat
    BY DEF FInv, FileTypes
<1>3. shot' = [phase |-> "graph", who |-> who, water |-> seq, table |-> File!Nothing]
    BY <1>1 DEF File!Free
<1>4. FileTypes'
    BY <1>1, <1>2, <1>3, FreeShot DEF FileTypes, Shots
<1>5. Numbered'
    BY <1>1, <1>2, <1>3 DEF Numbered
<1>6. File!Loaded' = File!Loaded
    BY <1>1 DEF File!Loaded, File!Covered, File!Nothing
<1>7. ASSUME ~raced' PROVE File!Loaded = acked /\ acked = File!Applied(table, pending) /\ ShotOk'
  <2>1. ~raced /\ pending = << >> /\ ~refuses
    BY <1>1, <1>2, <1>7 DEF FileTypes
  <2>2. acked = table /\ acked = File!Applied(table, pending) /\ File!Loaded = acked
    BY <1>1, <1>2, <2>1, NoneApplied DEF FInv, FileTypes
  <2>3. \A j \in DOMAIN log : log[j].seq <= seq /\ log[j].seq \in Nat
    <3>1. \A j \in DOMAIN log : log[j] \in Row
      BY <1>2 DEF FileTypes
    <3>. QED  BY <1>1, <1>2, <3>1 DEF Numbered, Row
  <2>4. Over(seq) = {}
    BY <1>2, <2>3 DEF Over
  <2>5. Kept(seq, table)
    BY <1>2, <2>2, <2>4, LatestNone DEF Kept, FileTypes
  <2>6. Kept(shot.water, table)'
    BY <1>1, <1>3, <2>5 DEF Kept, Over
  <2>. QED  BY <1>1, <1>3, <2>1, <2>2, <2>3, <2>6 DEF ShotOk
<1>8. raced' \in BOOLEAN /\ running'
    BY <1>1, <1>4 DEF FileTypes
<1>9. pending' # << >> => ~refuses'
    BY <1>1 DEF FInv
<1>10. ~raced' => acked' = File!Applied(table, pending)'
  <2>1. File!Applied(table, pending)' = File!Applied(table, pending)
    BY <1>1 DEF File!Applied, File!Latest
  <2>. QED  BY <1>1, <1>7, <2>1
<1>. QED  BY <1>1, <1>4, <1>5, <1>6, <1>7, <1>8, <1>9, <1>10 DEF FInv

(* What a load finds does not change when the log and the snapshot do not. *)
LEMMA SameDisk ==
    ASSUME UNCHANGED <<log, snap, acked>>
    PROVE  /\ File!Loaded' = File!Loaded
           /\ \A w, t : Kept(w, t)' <=> Kept(w, t)
BY DEF File!Loaded, File!Covered, File!Nothing, Kept, Over

LEMMA ShootKeeps == ASSUME FInv, File!Shoot PROVE FInv'
<1>1. /\ running /\ shot.phase = "graph" /\ shot' = [shot EXCEPT !.phase = "write", !.table = table]
      /\ UNCHANGED <<log, snap, seq, table, pending, refuses, running, acked, raced>>
    BY DEF File!Shoot
<1>2. FileTypes /\ Numbered
    BY DEF FInv
<1>3. shot' = [phase |-> "write", who |-> shot.who, water |-> shot.water, table |-> table]
    BY <1>1, <1>2 DEF FileTypes, Shots
<1>4. FileTypes'
    BY <1>1, <1>2, <1>3 DEF FileTypes, Shots
<1>5. Numbered'
    BY <1>1, <1>2, <1>3 DEF Numbered
<1>6. File!Loaded' = File!Loaded /\ \A w, t : Kept(w, t)' <=> Kept(w, t)
    BY <1>1, SameDisk
<1>7. ASSUME ~raced PROVE ShotOk'
  <2>1. ShotOk
    BY <1>7 DEF FInv
  <2>2. Kept(shot.water, shot.table)'
    BY <1>1, <1>3, <1>6, <2>1 DEF ShotOk
  <2>3. shot'.who = "compact" => pending' = << >> /\ \A j \in DOMAIN log' : log'[j].seq <= shot'.water
    BY <1>1, <1>3, <2>1 DEF ShotOk
  <2>. QED  BY <1>3, <2>2, <2>3 DEF ShotOk
<1>8. File!Applied(table, pending)' = File!Applied(table, pending)
    BY <1>1 DEF File!Applied, File!Latest
<1>. QED  BY <1>1, <1>4, <1>5, <1>6, <1>7, <1>8 DEF FInv

LEMMA ReplaceKeeps == ASSUME FInv, File!Replace PROVE FInv'
<1>1. /\ running /\ shot.phase = "write" /\ snap' = [water |-> shot.water, table |-> shot.table]
      /\ shot' = IF shot.who = "compact" THEN [shot EXCEPT !.phase = "truncate"] ELSE File!Free
      /\ UNCHANGED <<log, seq, table, pending, refuses, running, acked, raced>>
    BY DEF File!Replace
<1>2. FileTypes /\ Numbered
    BY DEF FInv
<1>3. /\ shot.who = "compact" => shot' = [phase |-> "truncate", who |-> "compact", water |-> shot.water, table |-> shot.table]
      /\ shot.who # "compact" => shot' = File!Free
    BY <1>1, <1>2 DEF FileTypes, Shots
<1>4. shot.water \in Nat /\ shot.table \in Tables /\ shot.water <= seq
    BY <1>1, <1>2 DEF FileTypes, Shots, Numbered
<1>5. snap' \in [water : Nat, table : Tables] /\ snap' # None /\ snap'.water = shot.water /\ snap'.table = shot.table
    BY <1>1, <1>4, NoneAssumption DEF Tables
<1>6. FileTypes'
  <2>1. shot' \in Shots
    BY <1>3, <1>4, FreeShot DEF Shots
  <2>. QED  BY <1>1, <1>2, <1>5, <2>1 DEF FileTypes
<1>7. Numbered'
  <2>1. shot'.water <= seq'
    BY <1>1, <1>2, <1>3, <1>4, FreeShot DEF FileTypes
  <2>. QED  BY <1>1, <1>2, <1>4, <1>5, <2>1 DEF Numbered
<1>8. ASSUME ~raced PROVE File!Loaded' = acked /\ ShotOk'
  <2>1. Kept(shot.water, shot.table)
    BY <1>1, <1>8 DEF FInv, ShotOk
  <2>2. \A j \in DOMAIN log : log[j].seq \in Nat
    <3>1. \A j \in DOMAIN log : log[j] \in Row
      BY <1>2 DEF FileTypes
    <3>. QED  BY <3>1 DEF Row
  <2>3. {j \in DOMAIN log : ~(log[j].seq <= shot.water)} = Over(shot.water)
    BY <1>4, <2>2 DEF Over
  <2>4. File!Loaded' = File!Latest(shot.table, log, {j \in DOMAIN log : ~(log[j].seq <= shot.water)})
    BY <1>1, <1>5 DEF File!Loaded, File!Covered
  <2>5. File!Loaded' = acked
    BY <2>1, <2>3, <2>4 DEF Kept
  <2>6. ASSUME shot.who = "compact"
        PROVE  pending = << >> /\ (\A j \in DOMAIN log : log[j].seq <= shot.water) /\ shot.table = acked
    <3>1. pending = << >> /\ \A j \in DOMAIN log : log[j].seq <= shot.water
      BY <1>1, <1>8, <2>6 DEF FInv, ShotOk
    <3>2. Over(shot.water) = {}
      BY <1>4, <2>2, <3>1 DEF Over
    <3>. QED  BY <1>4, <2>1, <3>1, <3>2, LatestNone DEF Kept
  <2>7. ShotOk'
    BY <1>1, <1>3, <1>5, <2>6, FreeShot DEF ShotOk
  <2>. QED  BY <2>5, <2>7
<1>9. File!Applied(table, pending)' = File!Applied(table, pending)
    BY <1>1 DEF File!Applied, File!Latest
<1>. QED  BY <1>1, <1>6, <1>7, <1>8, <1>9 DEF FInv

(* Without a log.                                                          *)
LEMMA LogEmpty ==
    ASSUME log' = << >>
    PROVE  /\ log' \in Seq(Row) /\ DOMAIN log' = {}
           /\ \A t \in Tables : File!Latest(t, log', {j \in DOMAIN log' : ~File!Covered(log[j])'}) = t
<1>1. log' \in Seq(Row) /\ DOMAIN log' = {}
    OBVIOUS
<1>2. {j \in DOMAIN log' : ~File!Covered(log[j])'} = {}
    BY <1>1
<1>. QED  BY <1>1, <1>2, LatestNone

LEMMA TruncateKeeps == ASSUME FInv, File!Truncate PROVE FInv'
<1>1. /\ running /\ shot.phase = "truncate" /\ log' = << >> /\ shot' = File!Free
      /\ UNCHANGED <<snap, seq, table, pending, refuses, running, acked, raced>>
    BY DEF File!Truncate
<1>2. FileTypes /\ Numbered
    BY DEF FInv
<1>3. log' \in Seq(Row) /\ DOMAIN log' = {}
    BY <1>1, LogEmpty
<1>4. FileTypes'
    BY <1>1, <1>2, <1>3, FreeShot DEF FileTypes
<1>5. Numbered'
    BY <1>1, <1>2, <1>3, FreeShot DEF FileTypes, Numbered
<1>6. ASSUME ~raced PROVE File!Loaded' = acked /\ ShotOk'
  <2>1. snap # None /\ snap.table = acked /\ acked \in Tables
    BY <1>1, <1>2, <1>6 DEF FInv, ShotOk, FileTypes
  <2>2. File!Loaded' = File!Latest(acked, log', {j \in DOMAIN log' : ~File!Covered(log[j])'})
    BY <1>1, <2>1 DEF File!Loaded
  <2>3. ShotOk'
    BY <1>1, FreeShot DEF ShotOk
  <2>. QED  BY <1>1, <2>1, <2>2, <2>3, LogEmpty
<1>7. File!Applied(table, pending)' = File!Applied(table, pending)
    BY <1>1 DEF File!Applied, File!Latest
<1>. QED  BY <1>1, <1>4, <1>5, <1>6, <1>7 DEF FInv

LEMMA KillKeeps == ASSUME FInv, File!Kill PROVE FInv'
<1>1. /\ ~running' /\ running' = FALSE /\ shot' = File!Free /\ pending' = << >> /\ ~refuses' /\ refuses' = FALSE
      /\ table' = File!Nothing /\ seq' = 0
      /\ UNCHANGED <<log, snap, acked, raced>>
    BY DEF File!Kill
<1>2. FileTypes /\ Numbered
    BY DEF FInv
<1>3. << >> \in Seq(Row)
    OBVIOUS
<1>4. FileTypes'
    BY <1>1, <1>2, <1>3, FreeShot DEF FileTypes
<1>5. Numbered'
    BY <1>1, <1>2 DEF Numbered
<1>6. File!Loaded' = File!Loaded
    BY <1>1, SameDisk
<1>7. ShotOk'
    BY <1>1, FreeShot DEF ShotOk
<1>8. shot' = File!Free'
    BY <1>1 DEF File!Free, File!Nothing
<1>. QED  BY <1>1, <1>4, <1>5, <1>6, <1>7, <1>8 DEF FInv

LEMMA LoadKeeps == ASSUME FInv, File!Load PROVE FInv'
<1>1. /\ ~running /\ running' = TRUE /\ table' = File!Loaded /\ seq' = File!HighWater
      /\ pending = << >> /\ ~refuses /\ shot = File!Free
      /\ UNCHANGED <<log, snap, pending, shot, refuses, acked, raced>>
    BY DEF File!Load, FInv
<1>2. FileTypes /\ Numbered
    BY DEF FInv
<1>3. table' \in Tables
  <2>1. (IF snap = None THEN File!Nothing ELSE snap.table) \in Tables
    BY <1>2, FreeShot DEF FileTypes
  <2>2. {j \in DOMAIN log : ~File!Covered(log[j])} \in SUBSET DOMAIN log /\ log \in Seq(Row)
    BY <1>2 DEF FileTypes
  <2>. QED  BY <1>1, <2>1, <2>2, LatestTyped DEF File!Loaded
<1>4. /\ seq' \in Nat
      /\ snap # None => snap.water <= seq'
      /\ log # << >> => log[Len(log)].seq <= seq'
  <2>1. /\ log # << >> => log[Len(log)].seq \in Nat
        /\ snap # None => snap.water \in Nat
    <3>1. log # << >> => log[Len(log)] \in Row
      BY <1>2 DEF FileTypes
    <3>. QED  BY <1>2, <3>1 DEF Row, FileTypes
  <2>. QED  BY <1>1, <2>1 DEF File!HighWater
<1>5. \A j \in DOMAIN log : log[j].seq <= seq'
  <2>1. Len(log) \in Nat /\ DOMAIN log = 1 .. Len(log) /\ \A j \in DOMAIN log : log[j].seq \in Nat
    <3>1. log \in Seq(Row) /\ \A j \in DOMAIN log : log[j] \in Row
      BY <1>2 DEF FileTypes
    <3>. QED  BY <3>1 DEF Row
  <2>2. ASSUME NEW j \in DOMAIN log PROVE log[j].seq <= seq'
    <3>1. log # << >> /\ Len(log) \in DOMAIN log
      BY <1>2, <2>1 DEF FileTypes
    <3>2. j = Len(log) \/ log[j].seq < log[Len(log)].seq
      BY <1>2, <2>1, <3>1 DEF Numbered
    <3>. QED  BY <1>4, <2>1, <3>1, <3>2
  <2>. QED  BY <2>2
<1>6. FileTypes'
    BY <1>1, <1>2, <1>3, <1>4 DEF FileTypes
<1>7. Numbered'
    BY <1>1, <1>2, <1>4, <1>5, FreeShot DEF Numbered
<1>8. File!Loaded' = File!Loaded
    BY <1>1, SameDisk
<1>9. ASSUME ~raced PROVE acked = File!Applied(table, pending)' /\ ShotOk'
  <2>1. table' = acked
    BY <1>1, <1>9 DEF FInv
  <2>2. File!Applied(table, pending)' = File!Applied(acked, << >>)
    BY <1>1, <2>1 DEF File!Applied, File!Latest
  <2>3. acked \in Tables
    BY <1>2 DEF FileTypes
  <2>4. ShotOk'
    BY <1>1, FreeShot DEF ShotOk
  <2>. QED  BY <2>2, <2>3, <2>4, NoneApplied
<1>. QED  BY <1>1, <1>6, <1>7, <1>8, <1>9 DEF FInv

LEMMA FileStepKeeps == ASSUME FInv, [File!FNext]_fileVars PROVE FInv'
<1>1. CASE UNCHANGED fileVars
  <2>1. UNCHANGED <<log, snap, seq, table, pending, shot, refuses, running, acked, raced>>
    BY <1>1 DEF fileVars
  <2>2. FileTypes' /\ Numbered'
    BY <2>1 DEF FInv, FileTypes, Numbered
  <2>3. File!Loaded' = File!Loaded /\ \A w, t : Kept(w, t)' <=> Kept(w, t)
    BY <2>1, SameDisk
  <2>4. ~raced => ShotOk'
    BY <2>1, <2>3 DEF FInv, ShotOk
  <2>5. File!Applied(table, pending)' = File!Applied(table, pending) /\ File!Free' = File!Free
    BY <2>1 DEF File!Applied, File!Latest, File!Free, File!Nothing
  <2>. QED  BY <2>1, <2>2, <2>3, <2>4, <2>5 DEF FInv
<1>. QED  BY <1>1, WriteKeeps, WriteFailsKeeps, ApplyKeeps, WaterKeeps, ShootKeeps, ReplaceKeeps, TruncateKeeps,
             KillKeeps, LoadKeeps DEF File!FNext

LEMMA FileImply == ASSUME FInv PROVE File!LegacyKept
BY DEF FInv, File!LegacyKept

-----------------------------------------------------------------------------
(* The files of a segment.  What was committed is in the synced part of    *)
(* the data, unless a sector of it went bad, or the one with the length of *)
(* a record before it; a record that reads back                            *)
(* wrong is the last one, unless a fault did more than cut a write short;  *)
(* an index entry is the one of its record or was lost; and a stamp that   *)
(* fits the entries was written with every one of them there.              *)
States  == {"ok", "body", "blank", "less", "long", "short"}
Cells   == [rec : Nat, st : States]
Indexes == [stamp : Nat, ents : Seq(Nat \cup {None})]

SegmentTypes ==
    /\ cells \in Seq(Cells) /\ buffered \in Seq(Nat) /\ hardCells \in 0 .. Len(cells)
    /\ idxFile \in Indexes \cup {None} /\ hardIndex \in [stamp : Nat, n : Nat]
    /\ committed \in SUBSET Nat /\ \E n \in Nat : \A r \in committed : r <= n
    /\ proc \in {"create", "open", "indexing", "sealing", "stamped", "sealed", "down", "recover", "reconcile", "refused"}
    /\ head \in {"absent", "short", "written", "ok", "blank"}
    /\ rolled \in BOOLEAN /\ harm \in BOOLEAN /\ holed \in BOOLEAN

RecsOrdered ==
    /\ \A i, j \in DOMAIN cells : i < j => cells[i].rec < cells[j].rec
    /\ \A i, j \in DOMAIN buffered : i < j => buffered[i] < buffered[j]
    /\ \A i \in DOMAIN cells, j \in DOMAIN buffered : cells[i].rec < buffered[j]

HardHeld ==
    /\ \A r \in committed \ (rotten \cup severed) : \E i \in 1 .. hardCells : cells[i].rec = r
    /\ \A i \in 1 .. hardCells : cells[i].st # "ok" => cells[i].st # "short" /\ cells[i].rec \in rotten
    /\ \A i, j \in 1 .. hardCells : i < j /\ cells[i].st = "long" => cells[j].rec \in severed
    /\ \A i \in DOMAIN cells : cells[i].st = "long" => i \in 1 .. hardCells

Clean    == \A i \in DOMAIN cells : cells[i].st = "ok"
HarmSeen == ~harm => \A i \in DOMAIN cells : cells[i].st \notin {"blank", "less", "long"} /\ (cells[i].st # "ok" => i = Len(cells))

(* Nothing is synced behind a header that is not, so that one that is lost *)
(* takes nothing committed along.                                          *)
HeadAt ==
    /\ head \in {"absent", "short", "written"} => hardCells = 0 /\ committed = {} /\ ~rolled
    /\ head \in {"absent", "short"} => proc \in {"create", "down"} /\ cells = << >>
    /\ head = "blank" => proc \in {"down", "refused"} /\ (harm \/ committed = {})
    /\ proc = "indexing" => head = "ok"

AtProc ==
    /\ proc \in {"create", "open", "indexing", "sealing", "stamped", "reconcile"} => Clean
    /\ proc \in {"open", "indexing"} => ~rolled
    /\ proc \in {"sealing", "stamped", "sealed"} => rolled
    /\ proc # "open" => buffered = << >>
    /\ proc = "indexing" => hardCells = Len(cells)
    /\ proc \in {"open", "indexing", "sealing", "stamped"} => idxFile # None /\ Segment!Indexed
    /\ proc \in {"sealing", "stamped"} => Len(idxFile.ents) = Len(cells)
    /\ proc = "stamped" => idxFile.stamp = Len(cells)
    /\ proc = "sealed" => holed \/ (Segment!Indexed /\ idxFile = [stamp |-> Len(cells), ents |-> Segment!RecsOf(cells)])
    /\ proc = "refused" => harm \/ (head = "blank" /\ committed = {})
    /\ proc = "create" => ~rolled /\ cells = << >>

NoHole == \A i \in DOMAIN idxFile.ents : idxFile.ents[i] # None

(* The stamp is written once the segment has rolled, and from then on      *)
(* neither the entries nor the records become more.                        *)
Entries ==
    /\ \A i \in DOMAIN idxFile.ents : i <= Len(cells) => idxFile.ents[i] = None \/ idxFile.ents[i] = cells[i].rec
    /\ idxFile.stamp # 0 => rolled /\ Len(idxFile.ents) <= idxFile.stamp /\ Len(cells) <= idxFile.stamp
    /\ idxFile.ents # << >> /\ idxFile.stamp = Len(idxFile.ents) /\ idxFile.ents[Len(idxFile.ents)] # None
         => holed \/ NoHole
StampSynced ==
    /\ rolled /\ idxFile # None /\ NoHole
    /\ hardIndex.n = Len(idxFile.ents) /\ hardIndex.n <= hardIndex.stamp /\ Len(cells) <= hardIndex.stamp
IndexOk == (idxFile # None => Entries) /\ (hardIndex.stamp # 0 => StampSynced)

SInv == SegmentTypes /\ RecsOrdered /\ HardHeld /\ HarmSeen /\ HeadAt /\ AtProc /\ IndexOk

LEMMA Listed ==
    ASSUME NEW c \in Seq(Cells)
    PROVE  /\ Segment!RecsOf(c) \in Seq(Nat) /\ Len(Segment!RecsOf(c)) = Len(c) /\ Len(c) \in Nat
           /\ \A i \in 1 .. Len(c) : Segment!RecsOf(c)[i] = c[i].rec /\ c[i].rec \in Nat
<1>1. \A i \in 1 .. Len(c) : c[i].rec \in Nat
  <2>1. \A i \in 1 .. Len(c) : c[i] \in Cells
    OBVIOUS
  <2>. QED  BY <2>1 DEF Cells
<1>. QED  BY <1>1 DEF Segment!RecsOf

(* Sequences one behind the other, and a part of one.                      *)
LEMMA Joined ==
    ASSUME NEW T, NEW a \in Seq(T), NEW b \in Seq(T)
    PROVE  /\ a \o b \in Seq(T) /\ Len(a \o b) = Len(a) + Len(b) /\ DOMAIN (a \o b) = 1 .. Len(a) + Len(b)
           /\ \A i \in 1 .. Len(a) : (a \o b)[i] = a[i]
           /\ \A i \in 1 .. Len(b) : (a \o b)[Len(a) + i] = b[i]
<1>1. a \o b \in Seq(T) /\ Len(a \o b) = Len(a) + Len(b) /\ Len(a) \in Nat /\ Len(b) \in Nat
    OBVIOUS
<1>2. DOMAIN (a \o b) = 1 .. Len(a) + Len(b)
    BY <1>1
<1>3. \A i \in 1 .. Len(a) : (a \o b)[i] = a[i]
    OBVIOUS
<1>4. \A i \in 1 .. Len(b) : (a \o b)[Len(a) + i] = b[i]
    OBVIOUS
<1>. QED  BY <1>1, <1>2, <1>3, <1>4

LEMMA Sliced ==
    ASSUME NEW T, NEW s \in Seq(T), NEW m \in 0 .. Len(s), NEW n \in m .. Len(s)
    PROVE  /\ SubSeq(s, m + 1, n) \in Seq(T) /\ Len(SubSeq(s, m + 1, n)) = n - m
           /\ \A i \in 1 .. n - m : SubSeq(s, m + 1, n)[i] = s[m + i]
<1>1. Len(s) \in Nat /\ m \in Nat /\ n \in Nat
    OBVIOUS
<1>2. SubSeq(s, m + 1, n) \in Seq(T) /\ Len(SubSeq(s, m + 1, n)) = n - m
    BY <1>1
<1>3. \A i \in 1 .. n - m : SubSeq(s, m + 1, n)[i] = s[m + i]
    BY <1>1
<1>. QED  BY <1>2, <1>3

(* A step of the process that leaves the files alone.                      *)
LEMMA FilesRest ==
    ASSUME SInv, UNCHANGED <<cells, hardCells, idxFile, hardIndex, committed, rotten, severed, harm, holed>>, rolled => rolled'
    PROVE  HardHeld' /\ HarmSeen' /\ IndexOk'
<1>1. HardHeld' /\ HarmSeen'
    BY DEF SInv, HardHeld, HarmSeen
<1>2. NoHole' <=> NoHole
    BY DEF NoHole
<1>. QED  BY <1>1, <1>2 DEF SInv, IndexOk, Entries, StampSynced

LEMMA SegmentBegins == ASSUME Segment!CInit PROVE SInv
<1>1. << >> \in Seq(Cells) /\ << >> \in Seq(Nat) /\ Len(<< >>) = 0 /\ DOMAIN << >> = {}
    OBVIOUS
<1>2. SegmentTypes
  <2>1. committed \in SUBSET Nat /\ \E n \in Nat : \A r \in committed : r <= n
    BY DEF Segment!CInit
  <2>2. hardCells \in 0 .. Len(cells) /\ hardIndex \in [stamp : Nat, n : Nat]
    BY <1>1 DEF Segment!CInit
  <2>. QED  BY <1>1, <2>1, <2>2 DEF Segment!CInit, SegmentTypes
<1>3. RecsOrdered /\ HardHeld /\ HarmSeen /\ HeadAt /\ AtProc /\ IndexOk
    BY <1>1 DEF Segment!CInit, RecsOrdered, HardHeld, HarmSeen, HeadAt, AtProc, Clean, IndexOk
<1>. QED  BY <1>2, <1>3 DEF SInv

LEMMA CreateKeeps == ASSUME SInv, Segment!Create PROVE SInv'
<1>1. /\ proc = "create" /\ UNCHANGED <<cells, hardCells, buffered, rolled, committed, harm, rotten, severed, holed>>
      /\ ~rolled /\ cells = << >> /\ buffered = << >>
    BY DEF Segment!Create, Segment!past, SInv, AtProc
<1>2. \/ /\ head \in {"absent", "short", "written"} /\ head' \in {"short", "written", "ok"}
         /\ UNCHANGED <<idxFile, hardIndex, proc>>
      \/ /\ head = "ok" /\ head' = "ok" /\ proc' = "open"
         /\ idxFile' = [stamp |-> 0, ents |-> << >>] /\ hardIndex' = [stamp |-> 0, n |-> 0]
    BY DEF Segment!Create, SInv, SegmentTypes, HeadAt
<1>3. CASE /\ head \in {"absent", "short", "written"} /\ head' \in {"short", "written", "ok"}
           /\ UNCHANGED <<idxFile, hardIndex, proc>>
  <2>1. SegmentTypes' /\ RecsOrdered' /\ HeadAt' /\ AtProc'
    BY <1>1, <1>3 DEF SInv, SegmentTypes, RecsOrdered, HeadAt, AtProc, Clean
  <2>. QED  BY <1>1, <1>3, <2>1, FilesRest DEF SInv
<1>4. CASE /\ head' = "ok" /\ proc' = "open"
           /\ idxFile' = [stamp |-> 0, ents |-> << >>] /\ hardIndex' = [stamp |-> 0, n |-> 0]
  <2>1. << >> \in Seq(Nat \cup {None}) /\ Len(<< >>) = 0 /\ DOMAIN << >> = {}
    OBVIOUS
  <2>2. idxFile' \in Indexes /\ idxFile' # None /\ idxFile'.ents = << >> /\ idxFile'.stamp = 0
    <3>1. idxFile' \in Indexes
      BY <1>4, <2>1 DEF Indexes
    <3>. QED  BY <1>4, <3>1, NoneAssumption DEF Indexes
  <2>3. SegmentTypes'
    BY <1>1, <1>4, <2>2 DEF SInv, SegmentTypes
  <2>4. RecsOrdered' /\ HardHeld' /\ HarmSeen' /\ HeadAt'
    BY <1>1, <1>4 DEF SInv, RecsOrdered, HardHeld, HarmSeen, HeadAt
  <2>5. Segment!Indexed'
    BY <1>1, <2>1, <2>2 DEF Segment!Indexed
  <2>6. AtProc'
    BY <1>1, <1>4, <2>2, <2>5 DEF SInv, AtProc, Clean
  <2>7. IndexOk'
    BY <1>1, <1>4, <2>1, <2>2 DEF IndexOk, Entries
  <2>. QED  BY <2>3, <2>4, <2>6, <2>7 DEF SInv
<1>. QED  BY <1>2, <1>3, <1>4

(* The newest record is above every other.                                 *)
LEMMA NewestAbove ==
    ASSUME SegmentTypes, RecsOrdered
    PROVE  /\ Segment!Newest \in Nat
           /\ \A i \in DOMAIN cells : cells[i].rec <= Segment!Newest
           /\ \A i \in DOMAIN buffered : buffered[i] <= Segment!Newest
<1> DEFINE all == {0} \cup committed \cup Segment!InData \cup {buffered[i] : i \in DOMAIN buffered}
<1>1. PICK b \in Nat : \A r \in committed : r <= b
    BY DEF SegmentTypes
<1>2. /\ cells \in Seq(Cells) /\ Len(cells) \in Nat /\ DOMAIN cells = 1 .. Len(cells)
      /\ \A i \in DOMAIN cells : cells[i].rec \in Nat
    BY Listed DEF SegmentTypes
<1>3. Len(buffered) \in Nat /\ DOMAIN buffered = 1 .. Len(buffered) /\ \A i \in DOMAIN buffered : buffered[i] \in Nat
    BY DEF SegmentTypes
<1>4. \E m \in Nat : \A i \in DOMAIN cells : cells[i].rec <= m
  <2>1. CASE cells = << >>
    BY <2>1
  <2>2. CASE cells # << >>
    <3>1. Len(cells) \in DOMAIN cells
      BY <1>2, <2>2
    <3>2. \A i \in DOMAIN cells : cells[i].rec <= cells[Len(cells)].rec
      BY <1>2, <3>1 DEF RecsOrdered
    <3>. QED  BY <1>2, <3>1, <3>2
  <2>. QED  BY <2>1, <2>2
<1>5. \E m \in Nat : \A i \in DOMAIN buffered : buffered[i] <= m
  <2>1. CASE buffered = << >>
    BY <2>1
  <2>2. CASE buffered # << >>
    <3>1. Len(buffered) \in DOMAIN buffered
      BY <1>3, <2>2 DEF SegmentTypes
    <3>2. \A i \in DOMAIN buffered : buffered[i] <= buffered[Len(buffered)]
      BY <1>3, <3>1 DEF RecsOrdered
    <3>. QED  BY <1>3, <3>1, <3>2
  <2>. QED  BY <2>1, <2>2
<1>6. PICK m \in Nat, l \in Nat : /\ \A i \in DOMAIN cells : cells[i].rec <= m
                                  /\ \A i \in DOMAIN buffered : buffered[i] <= l
    BY <1>4, <1>5
<1>7. b + m + l \in Nat /\ all \in SUBSET (0 .. b + m + l) /\ all # {}
  <2>1. committed \in SUBSET (0 .. b + m + l)
    BY <1>1, <1>6 DEF SegmentTypes
  <2>2. Segment!InData \in SUBSET (0 .. b + m + l)
    BY <1>2, <1>6 DEF Segment!InData
  <2>3. {buffered[i] : i \in DOMAIN buffered} \in SUBSET (0 .. b + m + l)
    BY <1>3, <1>6
  <2>4. b + m + l \in Nat /\ {0} \in SUBSET (0 .. b + m + l)
    OBVIOUS
  <2>. QED  BY <2>1, <2>2, <2>3, <2>4
<1>8. Segment!Newest = Max(all)
  <2>1. Segment!Newest = Segment!Max(all)
    BY DEF Segment!Newest
  <2>2. Segment!Max(all) = Max(all)
    BY DEF Segment!Max, Max
  <2>. QED  BY <2>1, <2>2
<1>. HIDE DEF all
<1>9. Max(all) \in all /\ \A y \in all : y <= Max(all)
    BY <1>7, MaxExists
<1>10. (\A i \in DOMAIN cells : cells[i].rec \in all) /\ \A i \in DOMAIN buffered : buffered[i] \in all
    BY DEF all, Segment!InData
<1>11. Max(all) \in Nat
  <2>1. \A x \in 0 .. b + m + l : x \in Nat
    OBVIOUS
  <2>. QED  BY <1>7, <1>9, <2>1, Zenon
<1>. QED  BY <1>8, <1>9, <1>10, <1>11, Zenon

LEMMA AppendRecordKeeps == ASSUME SInv, Segment!AppendRecord PROVE SInv'
<1>1. /\ proc = "open" /\ buffered' = Append(buffered, Segment!Newest + 1)
      /\ UNCHANGED <<head, cells, hardCells, idxFile, hardIndex, rolled, proc, committed, harm, rotten, severed, holed>>
    BY DEF Segment!AppendRecord, Segment!files, Segment!past
<1>2. /\ Segment!Newest \in Nat
      /\ \A i \in DOMAIN cells : cells[i].rec <= Segment!Newest
      /\ \A i \in DOMAIN buffered : buffered[i] <= Segment!Newest
    BY NewestAbove DEF SInv
<1>3. /\ buffered \in Seq(Nat) /\ Len(buffered) \in Nat /\ DOMAIN buffered = 1 .. Len(buffered)
      /\ \A i \in DOMAIN buffered : buffered[i] \in Nat
      /\ \A i \in DOMAIN cells : cells[i].rec \in Nat
  <2>1. buffered \in Seq(Nat) /\ cells \in Seq(Cells) /\ DOMAIN cells = 1 .. Len(cells)
    BY DEF SInv, SegmentTypes
  <2>. QED  BY <2>1, Listed
<1>4. /\ buffered' \in Seq(Nat) /\ DOMAIN buffered' = 1 .. Len(buffered) + 1
      /\ \A i \in DOMAIN buffered : buffered'[i] = buffered[i]
      /\ buffered'[Len(buffered) + 1] = Segment!Newest + 1
    BY <1>1, <1>2, <1>3
<1>5. SegmentTypes'
    BY <1>1, <1>4 DEF SInv, SegmentTypes
<1>6. RecsOrdered'
  <2>1. \A i \in 1 .. Len(buffered) + 1 : i \in 1 .. Len(buffered) \/ i = Len(buffered) + 1
    BY <1>3
  <2>2. ASSUME NEW i \in DOMAIN buffered', NEW j \in DOMAIN buffered', i < j PROVE buffered'[i] < buffered'[j]
    <3>1. i \in DOMAIN buffered
      BY <1>3, <1>4, <2>2
    <3>2. CASE j \in DOMAIN buffered
      BY <1>4, <2>2, <3>1, <3>2 DEF SInv, RecsOrdered
    <3>3. CASE j = Len(buffered) + 1
      <4>1. buffered'[j] = Segment!Newest + 1 /\ buffered'[i] = buffered[i] /\ buffered[i] <= Segment!Newest
        BY <1>2, <1>4, <3>1, <3>3
      <4>. QED  BY <1>2, <1>3, <3>1, <4>1
    <3>. QED  BY <1>3, <1>4, <2>1, <3>2, <3>3
  <2>3. ASSUME NEW i \in DOMAIN cells, NEW j \in DOMAIN buffered' PROVE cells[i].rec < buffered'[j]
    <3>1. CASE j \in DOMAIN buffered
      BY <1>4, <3>1 DEF SInv, RecsOrdered
    <3>2. CASE j = Len(buffered) + 1
      BY <1>2, <1>3, <1>4, <3>2
    <3>. QED  BY <1>3, <1>4, <2>1, <3>1, <3>2
  <2>. QED  BY <1>1, <2>2, <2>3 DEF SInv, RecsOrdered
<1>7. HeadAt' /\ AtProc'
    BY <1>1 DEF SInv, HeadAt, AtProc, Clean, Segment!Indexed, Segment!RecsOf
<1>. QED  BY <1>1, <1>5, <1>6, <1>7, FilesRest DEF SInv

(* The records of the buffer flow into the file, in order.                 *)
LEMMA RecordsFlow ==
    ASSUME SInv, proc = "open", NEW k \in 0 .. Len(buffered), cells' \in Seq(Cells), Len(cells') = Len(cells) + k,
           \A i \in 1 .. Len(cells) : cells'[i] = cells[i],
           \A i \in 1 .. k : cells'[Len(cells) + i].rec = buffered[i],
           UNCHANGED <<idxFile, hardIndex, holed, rolled>>
    PROVE  /\ \A i, j \in DOMAIN cells' : i < j => cells'[i].rec < cells'[j].rec
           /\ idxFile # None /\ Segment!Indexed' /\ IndexOk'
<1>1. /\ Len(cells) \in Nat /\ DOMAIN cells = 1 .. Len(cells) /\ Clean
      /\ Len(cells') \in Nat /\ DOMAIN cells' = 1 .. Len(cells')
      /\ Len(buffered) \in Nat /\ DOMAIN buffered = 1 .. Len(buffered) /\ k \in Nat
  <2>1. cells \in Seq(Cells) /\ buffered \in Seq(Nat)
    BY DEF SInv, SegmentTypes
  <2>. QED  BY <2>1 DEF SInv, AtProc
<1>2. /\ idxFile # None /\ Segment!Indexed /\ ~rolled
      /\ Len(idxFile.ents) \in Nat /\ DOMAIN idxFile.ents = 1 .. Len(idxFile.ents)
  <2>1. idxFile # None /\ Segment!Indexed /\ ~rolled
    BY DEF SInv, AtProc
  <2>2. idxFile \in Indexes
    BY <2>1 DEF SInv, SegmentTypes
  <2>3. idxFile.ents \in Seq(Nat \cup {None})
    BY <2>2 DEF Indexes
  <2>. QED  BY <2>1, <2>3
<1>3. \A i, j \in DOMAIN cells' : i < j => cells'[i].rec < cells'[j].rec
  <2>1. \A i \in DOMAIN cells' : i \in 1 .. Len(cells) \/ \E l \in 1 .. k : i = Len(cells) + l
    <3>1. \A i \in 1 .. Len(cells) + k : i \in 1 .. Len(cells) \/ (i - Len(cells) \in 1 .. k /\ i = Len(cells) + (i - Len(cells)))
      BY <1>1
    <3>. QED  BY <1>1, <3>1
  <2>2. RecsOrdered
    BY DEF SInv
  <2>3. ASSUME NEW i \in DOMAIN cells', NEW j \in DOMAIN cells', i < j PROVE cells'[i].rec < cells'[j].rec
    <3>1. CASE j \in 1 .. Len(cells)
      <4>1. i \in 1 .. Len(cells)
        BY <1>1, <2>3, <3>1
      <4>. QED  BY <1>1, <2>2, <2>3, <3>1, <4>1 DEF RecsOrdered
    <3>2. CASE i \in 1 .. Len(cells) /\ j \notin 1 .. Len(cells)
      <4>1. PICK l \in 1 .. k : j = Len(cells) + l
        BY <2>1, <3>2
      <4>2. l \in DOMAIN buffered /\ i \in DOMAIN cells
        BY <1>1, <3>2
      <4>. QED  BY <2>2, <3>2, <4>1, <4>2 DEF RecsOrdered
    <3>3. CASE i \notin 1 .. Len(cells) /\ j \notin 1 .. Len(cells)
      <4>1. PICK m \in 1 .. k : i = Len(cells) + m
        BY <2>1, <3>3
      <4>2. PICK l \in 1 .. k : j = Len(cells) + l
        BY <2>1, <3>3
      <4>3. m < l /\ m \in DOMAIN buffered /\ l \in DOMAIN buffered
        BY <1>1, <2>3, <4>1, <4>2
      <4>. QED  BY <2>2, <4>1, <4>2, <4>3 DEF RecsOrdered
    <3>. QED  BY <1>1, <2>3, <3>1, <3>2, <3>3
  <2>. QED  BY <2>3
<1>4. \A i \in DOMAIN idxFile.ents : i \in 1 .. Len(cells) /\ idxFile.ents[i] = cells'[i].rec
  <2>1. \A i \in DOMAIN idxFile.ents : i \in 1 .. Len(cells) /\ idxFile.ents[i] = cells[i].rec
    BY <1>1, <1>2 DEF Segment!Indexed
  <2>. QED  BY <2>1
<1>5. Segment!Indexed'
  <2>1. Len(idxFile.ents) <= Len(cells')
    BY <1>1, <1>2 DEF Segment!Indexed
  <2>. QED  BY <1>4, <2>1 DEF Segment!Indexed
<1>6. IndexOk'
  <2>1. hardIndex.stamp = 0 /\ idxFile.stamp = 0
    BY <1>2 DEF SInv, IndexOk, Entries, StampSynced
  <2>2. idxFile.ents # << >> => Len(idxFile.ents) # 0
    <3>1. idxFile.ents \in Seq(Nat \cup {None})
      BY <1>2 DEF SInv, SegmentTypes, Indexes
    <3>. QED  BY <3>1
  <2>. QED  BY <1>2, <1>4, <2>1, <2>2 DEF IndexOk, Entries
<1>. QED  BY <1>2, <1>3, <1>5, <1>6

LEMMA SpillKeeps == ASSUME SInv, Segment!Spill PROVE SInv'
<1>1. /\ proc = "open" /\ buffered # << >>
      /\ cells' = Append(cells, [rec |-> Head(buffered), st |-> "ok"]) /\ buffered' = Tail(buffered)
      /\ UNCHANGED <<head, hardCells, idxFile, hardIndex, rolled, proc, committed, harm, rotten, severed, holed>>
    BY DEF Segment!Spill, Segment!Cell, Segment!past
<1>2. /\ cells \in Seq(Cells) /\ Len(cells) \in Nat /\ DOMAIN cells = 1 .. Len(cells)
      /\ buffered \in Seq(Nat) /\ Len(buffered) \in Nat /\ DOMAIN buffered = 1 .. Len(buffered)
      /\ Len(buffered) >= 1 /\ Head(buffered) = buffered[1] /\ buffered[1] \in Nat
  <2>1. cells \in Seq(Cells) /\ buffered \in Seq(Nat)
    BY DEF SInv, SegmentTypes
  <2>. QED  BY <1>1, <2>1
<1>3. /\ cells' \in Seq(Cells) /\ Len(cells') = Len(cells) + 1 /\ DOMAIN cells' = 1 .. Len(cells) + 1
      /\ \A i \in 1 .. Len(cells) : cells'[i] = cells[i]
      /\ cells'[Len(cells) + 1] = [rec |-> buffered[1], st |-> "ok"]
  <2>1. [rec |-> buffered[1], st |-> "ok"] \in Cells
    BY <1>2 DEF Cells, States
  <2>. QED  BY <1>1, <1>2, <2>1
<1>4. /\ \A i, j \in DOMAIN cells' : i < j => cells'[i].rec < cells'[j].rec
      /\ idxFile # None /\ Segment!Indexed' /\ IndexOk'
  <2>1. 1 \in 0 .. Len(buffered) /\ \A i \in 1 .. 1 : cells'[Len(cells) + i].rec = buffered[i]
    BY <1>2, <1>3
  <2>. QED  BY <1>1, <1>3, <2>1, RecordsFlow
<1>5. /\ buffered' \in Seq(Nat) /\ DOMAIN buffered' = 1 .. Len(buffered) - 1
      /\ \A j \in 1 .. Len(buffered) - 1 : buffered'[j] = buffered[j + 1] /\ j + 1 \in DOMAIN buffered
    BY <1>1, <1>2
<1>6. SegmentTypes'
  <2>1. hardCells' \in 0 .. Len(cells')
    BY <1>1, <1>2, <1>3 DEF SInv, SegmentTypes
  <2>. QED  BY <1>1, <1>3, <1>5, <2>1 DEF SInv, SegmentTypes
<1>7. RecsOrdered'
  <2>1. \A i, j \in DOMAIN buffered' : i < j => buffered'[i] < buffered'[j]
    <3>1. \A i, j \in 1 .. Len(buffered) - 1 : i < j => i + 1 < j + 1
      BY <1>2
    <3>2. RecsOrdered
      BY DEF SInv
    <3>. QED  BY <1>5, <3>1, <3>2 DEF RecsOrdered
  <2>2. ASSUME NEW i \in DOMAIN cells', NEW j \in DOMAIN buffered' PROVE cells'[i].rec < buffered'[j]
    <3>1. RecsOrdered /\ j + 1 \in DOMAIN buffered /\ 1 \in DOMAIN buffered /\ 1 < j + 1 /\ buffered'[j] = buffered[j + 1]
      BY <1>2, <1>5 DEF SInv
    <3>2. CASE i \in 1 .. Len(cells)
      BY <1>2, <1>3, <3>1, <3>2 DEF RecsOrdered
    <3>3. CASE i = Len(cells) + 1
      BY <1>3, <3>1, <3>3 DEF RecsOrdered
    <3>. QED  BY <1>2, <1>3, <3>2, <3>3
  <2>. QED  BY <1>4, <2>1, <2>2 DEF RecsOrdered
<1>8. Clean /\ Clean'
  <2>1. Clean
    BY <1>1 DEF SInv, AtProc
  <2>. QED  BY <1>2, <1>3, <2>1 DEF Clean
<1>9. HardHeld'
  <2>1. \A i \in 1 .. hardCells : i \in 1 .. Len(cells)
    BY <1>2 DEF SInv, SegmentTypes
  <2>2. \A i \in DOMAIN cells' : cells'[i].st = "ok"
    BY <1>8 DEF Clean
  <2>. QED  BY <1>1, <1>3, <2>1, <2>2 DEF SInv, HardHeld
<1>10. HarmSeen'
    BY <1>8 DEF HarmSeen, Clean
<1>11. HeadAt' /\ AtProc'
    BY <1>1, <1>4, <1>8 DEF SInv, HeadAt, AtProc
<1>. QED  BY <1>4, <1>6, <1>7, <1>9, <1>10, <1>11 DEF SInv

LEMMA SyncDataKeeps == ASSUME SInv, Segment!SyncData PROVE SInv'
<1>1. /\ proc = "open" /\ cells' = cells \o [i \in 1 .. Len(buffered) |-> [rec |-> buffered[i], st |-> "ok"]]
      /\ hardCells' = Len(cells') /\ buffered' = << >> /\ proc' = "indexing" /\ head' = "ok"
      /\ UNCHANGED <<idxFile, hardIndex, rolled, committed, harm, rotten, severed, holed>>
    BY DEF Segment!SyncData, Segment!Cell, Segment!past
<1>2. /\ cells \in Seq(Cells) /\ Len(cells) \in Nat /\ DOMAIN cells = 1 .. Len(cells)
      /\ buffered \in Seq(Nat) /\ Len(buffered) \in Nat /\ DOMAIN buffered = 1 .. Len(buffered)
  <2>1. cells \in Seq(Cells) /\ buffered \in Seq(Nat)
    BY DEF SInv, SegmentTypes
  <2>. QED  BY <2>1
<1> DEFINE new == [i \in 1 .. Len(buffered) |-> [rec |-> buffered[i], st |-> "ok"]]
<1>3. new \in Seq(Cells) /\ Len(new) = Len(buffered) /\ \A i \in 1 .. Len(buffered) : new[i] = [rec |-> buffered[i], st |-> "ok"]
  <2>1. \A i \in 1 .. Len(buffered) : [rec |-> buffered[i], st |-> "ok"] \in Cells
    BY <1>2 DEF Cells, States
  <2>. QED  BY <1>2, <2>1
<1>. HIDE DEF new
<1>4. /\ cells' \in Seq(Cells) /\ Len(cells') = Len(cells) + Len(buffered) /\ Len(cells') \in Nat
      /\ DOMAIN cells' = 1 .. Len(cells) + Len(buffered)
      /\ \A i \in 1 .. Len(cells) : cells'[i] = cells[i]
      /\ \A i \in 1 .. Len(buffered) : cells'[Len(cells) + i] = new[i]
  <2>1. cells' = cells \o new
    BY <1>1 DEF new
  <2>2. /\ cells \o new \in Seq(Cells) /\ Len(cells \o new) = Len(cells) + Len(new)
        /\ DOMAIN (cells \o new) = 1 .. Len(cells) + Len(new)
        /\ \A i \in 1 .. Len(cells) : (cells \o new)[i] = cells[i]
        /\ \A i \in 1 .. Len(new) : (cells \o new)[Len(cells) + i] = new[i]
    BY <1>2, <1>3, Joined
  <2>. QED  BY <1>2, <1>3, <2>1, <2>2
<1>5. /\ \A i, j \in DOMAIN cells' : i < j => cells'[i].rec < cells'[j].rec
      /\ idxFile # None /\ Segment!Indexed' /\ IndexOk'
  <2>1. ASSUME NEW i \in 1 .. Len(buffered) PROVE cells'[Len(cells) + i].rec = buffered[i]
    <3>1. cells'[Len(cells) + i] = [rec |-> buffered[i], st |-> "ok"]
      BY <1>3, <1>4
    <3>. QED  BY <3>1
  <2>2. Len(buffered) \in 0 .. Len(buffered)
    BY <1>2
  <2>. QED  BY <1>1, <1>4, <2>1, <2>2, RecordsFlow
<1>6. << >> \in Seq(Nat) /\ DOMAIN << >> = {}
    OBVIOUS
<1>7. SegmentTypes'
  <2>1. hardCells' \in 0 .. Len(cells')
    BY <1>1, <1>4
  <2>. QED  BY <1>1, <1>4, <1>6, <2>1 DEF SInv, SegmentTypes
<1>8. RecsOrdered'
    BY <1>1, <1>5, <1>6 DEF RecsOrdered
<1>9. Clean'
  <2>1. Clean
    BY <1>1 DEF SInv, AtProc
  <2>2. \A i \in 1 .. Len(cells) + Len(buffered) :
           i \in 1 .. Len(cells) \/ (i - Len(cells) \in 1 .. Len(buffered) /\ i = Len(cells) + (i - Len(cells)))
    BY <1>2
  <2>3. \A i \in 1 .. Len(cells) : cells'[i].st = "ok"
    BY <1>2, <1>4, <2>1 DEF Clean
  <2>4. ASSUME NEW k \in 1 .. Len(buffered) PROVE cells'[Len(cells) + k].st = "ok"
    <3>1. cells'[Len(cells) + k] = [rec |-> buffered[k], st |-> "ok"]
      BY <1>3, <1>4
    <3>. QED  BY <3>1
  <2>5. ASSUME NEW i \in DOMAIN cells' PROVE cells'[i].st = "ok"
    <3>1. i \in 1 .. Len(cells) \/ \E k \in 1 .. Len(buffered) : i = Len(cells) + k
      BY <1>4, <2>2
    <3>. QED  BY <2>3, <2>4, <3>1
  <2>. QED  BY <2>5 DEF Clean
<1>10. HardHeld'
  <2>1. \A i \in 1 .. hardCells : i \in 1 .. Len(cells) /\ i \in 1 .. Len(cells) + Len(buffered)
    BY <1>2 DEF SInv, SegmentTypes
  <2>2. \A r \in committed \ (rotten \cup severed) : \E i \in 1 .. hardCells : cells[i].rec = r
    BY DEF SInv, HardHeld
  <2>3. \A r \in committed \ (rotten \cup severed) : \E i \in 1 .. Len(cells) + Len(buffered) : cells'[i].rec = r
    BY <1>4, <2>1, <2>2
  <2>. QED  BY <1>1, <1>4, <1>9, <2>3 DEF HardHeld, Clean
<1>11. HarmSeen'
    BY <1>9 DEF HarmSeen, Clean
<1>12. HeadAt' /\ AtProc'
    BY <1>1, <1>5, <1>9 DEF SInv, HeadAt, AtProc
<1>. QED  BY <1>5, <1>7, <1>8, <1>10, <1>11, <1>12 DEF SInv

(* Entries that follow the records.                                        *)
LEMMA EntriesFollow ==
    ASSUME SInv, idxFile # None, Segment!Indexed, NEW n \in Len(idxFile.ents) .. Len(cells), ~rolled,
           idxFile' = [idxFile EXCEPT !.ents = @ \o SubSeq(Segment!RecsOf(cells), Len(@) + 1, n)],
           UNCHANGED <<cells, hardIndex, rolled, holed>>
    PROVE  /\ idxFile' \in Indexes /\ idxFile' # None /\ Segment!Indexed' /\ IndexOk' /\ Len(idxFile'.ents) = n
<1>1. idxFile \in Indexes /\ cells \in Seq(Cells)
    BY DEF SInv, SegmentTypes
<1> DEFINE e == idxFile.ents
           more == SubSeq(Segment!RecsOf(cells), Len(e) + 1, n)
<1>2. e \in Seq(Nat \cup {None}) /\ Len(e) \in Nat /\ DOMAIN e = 1 .. Len(e) /\ idxFile.stamp \in Nat /\ n \in Nat
    BY <1>1 DEF Indexes
<1>3. /\ Segment!RecsOf(cells) \in Seq(Nat) /\ Len(Segment!RecsOf(cells)) = Len(cells) /\ Len(cells) \in Nat
      /\ \A i \in 1 .. Len(cells) : Segment!RecsOf(cells)[i] = cells[i].rec /\ cells[i].rec \in Nat
    BY <1>1, Listed
<1>a. n \in Len(e) .. Len(cells)
    OBVIOUS
<1>4. /\ more \in Seq(Nat \cup {None}) /\ Len(more) = n - Len(e)
      /\ \A i \in 1 .. n - Len(e) : more[i] = cells[Len(e) + i].rec
  <2> DEFINE recs == Segment!RecsOf(cells)
  <2>. HIDE DEF e, recs
  <2>1. recs \in Seq(Nat) /\ Len(recs) = Len(cells) /\ \A i \in 1 .. Len(cells) : recs[i] = cells[i].rec
    BY <1>3 DEF recs
  <2>2. more = SubSeq(recs, Len(e) + 1, n)
    BY DEF recs
  <2>. HIDE DEF more
  <2>3. more \in Seq(Nat) /\ Len(more) = n - Len(e) /\ \A i \in 1 .. n - Len(e) : more[i] = recs[Len(e) + i]
    <3>1. Len(e) \in 0 .. Len(recs) /\ n \in Len(e) .. Len(recs)
      BY <1>2, <1>3, <1>a, <2>1
    <3>. QED  BY <2>1, <2>2, <3>1, Sliced
  <2>4. \A i \in 1 .. n - Len(e) : Len(e) + i \in 1 .. Len(cells)
    BY <1>2, <1>3, <1>a
  <2>5. more \in Seq(Nat \cup {None})
    BY <2>3
  <2>. QED  BY <2>1, <2>3, <2>4, <2>5
<1>5. idxFile' = [stamp |-> idxFile.stamp, ents |-> e \o more]
    BY <1>1 DEF Indexes
<1> DEFINE all == e \o more
<1>. HIDE DEF e, more
<1>6. /\ all \in Seq(Nat \cup {None}) /\ Len(all) = n /\ DOMAIN all = 1 .. n
      /\ \A i \in 1 .. Len(e) : all[i] = e[i]
      /\ \A i \in 1 .. n : i > Len(e) => all[i] = more[i - Len(e)]
  <2>1. /\ all \in Seq(Nat \cup {None}) /\ Len(all) = Len(e) + Len(more) /\ DOMAIN all = 1 .. Len(e) + Len(more)
        /\ \A i \in 1 .. Len(e) : all[i] = e[i]
        /\ \A i \in 1 .. Len(more) : all[Len(e) + i] = more[i]
    <3> DEFINE T == Nat \cup {None}
    <3>1. e \in Seq(T) /\ more \in Seq(T)
      BY <1>2, <1>4
    <3>. HIDE DEF T
    <3>2. /\ e \o more \in Seq(T) /\ Len(e \o more) = Len(e) + Len(more) /\ DOMAIN (e \o more) = 1 .. Len(e) + Len(more)
          /\ \A i \in 1 .. Len(e) : (e \o more)[i] = e[i]
          /\ \A i \in 1 .. Len(more) : (e \o more)[Len(e) + i] = more[i]
      BY <3>1, Joined
    <3>. QED  BY <3>2 DEF T
  <2>2. Len(e) + Len(more) = n
    BY <1>2, <1>4, <1>a
  <2>3. ASSUME NEW i \in 1 .. n, i > Len(e) PROVE all[i] = more[i - Len(e)]
    <3>1. i - Len(e) \in 1 .. Len(more) /\ Len(e) + (i - Len(e)) = i
      BY <1>2, <1>4, <1>a, <2>3
    <3>. QED  BY <2>1, <3>1
  <2>. QED  BY <2>1, <2>2, <2>3
<1>b. idxFile' = [stamp |-> idxFile.stamp, ents |-> all]
    BY <1>5
<1>. HIDE DEF all
<1>7. idxFile' \in Indexes /\ idxFile' # None /\ idxFile'.ents = all /\ idxFile'.stamp = idxFile.stamp
  <2>1. [stamp |-> idxFile.stamp, ents |-> all] \in Indexes
    BY <1>2, <1>6 DEF Indexes
  <2>2. \A x \in Indexes : x # None
    BY NoneAssumption DEF Indexes
  <2>3. [stamp |-> idxFile.stamp, ents |-> all].ents = all /\ [stamp |-> idxFile.stamp, ents |-> all].stamp = idxFile.stamp
    OBVIOUS
  <2>. QED  BY <1>b, <2>1, <2>2, <2>3, Zenon
<1>8. ASSUME NEW i \in 1 .. n PROVE i \in 1 .. Len(cells) /\ all[i] = cells[i].rec
  <2>1. CASE i <= Len(e)
    <3>1. i \in 1 .. Len(e) /\ i \in 1 .. Len(cells)
      BY <1>2, <1>3, <1>a, <2>1
    <3>2. e[i] = cells[i].rec
      BY <1>2, <3>1 DEF e, Segment!Indexed
    <3>. QED  BY <1>6, <3>1, <3>2
  <2>2. CASE i > Len(e)
    <3>1. i - Len(e) \in 1 .. n - Len(e) /\ Len(e) + (i - Len(e)) = i /\ i \in 1 .. Len(cells)
      BY <1>2, <1>3, <1>a, <2>2
    <3>2. more[i - Len(e)] = cells[i].rec
      BY <1>4, <3>1
    <3>. QED  BY <1>6, <2>2, <3>1, <3>2
  <2>. QED  BY <1>2, <2>1, <2>2
<1>9. Segment!Indexed'
  <2>1. n <= Len(cells)
    BY <1>2, <1>3, <1>a
  <2>. QED  BY <1>6, <1>7, <1>8, <2>1 DEF Segment!Indexed
<1>10. IndexOk'
  <2>1. hardIndex.stamp = 0 /\ idxFile.stamp = 0
    BY DEF SInv, IndexOk, Entries, StampSynced
  <2>2. idxFile'.ents # << >> => n # 0
    BY <1>6, <1>7
  <2>. QED  BY <1>6, <1>7, <1>8, <2>1, <2>2 DEF IndexOk, Entries
<1>. QED  BY <1>6, <1>7, <1>9, <1>10

LEMMA WriteEntriesKeeps == ASSUME SInv, Segment!WriteEntries PROVE SInv'
<1>1. /\ proc = "indexing" /\ proc' = "open" /\ committed' = committed \cup Segment!InData
      /\ idxFile' = [idxFile EXCEPT !.ents = @ \o SubSeq(Segment!RecsOf(cells), Len(@) + 1, Len(cells))]
      /\ UNCHANGED <<head, cells, hardCells, buffered, hardIndex, rolled, harm, rotten, severed, holed>>
    BY DEF Segment!WriteEntries, Segment!past
<1>2. idxFile # None /\ Segment!Indexed /\ ~rolled /\ hardCells = Len(cells) /\ Clean
    BY <1>1 DEF SInv, AtProc
<1>3. cells \in Seq(Cells) /\ Len(cells) \in Nat /\ DOMAIN cells = 1 .. Len(cells) /\ \A i \in DOMAIN cells : cells[i].rec \in Nat
  <2>1. cells \in Seq(Cells)
    BY DEF SInv, SegmentTypes
  <2>. QED  BY <2>1, Listed
<1>4. /\ idxFile' \in Indexes /\ idxFile' # None /\ Segment!Indexed' /\ IndexOk'
  <2>1. Len(cells) \in Len(idxFile.ents) .. Len(cells)
    <3>1. idxFile \in Indexes
      BY <1>2 DEF SInv, SegmentTypes
    <3>2. idxFile.ents \in Seq(Nat \cup {None})
      BY <3>1 DEF Indexes
    <3>. QED  BY <1>2, <1>3, <3>2 DEF Segment!Indexed
  <2>. QED  BY <1>1, <1>2, <2>1, EntriesFollow
<1>5. committed' \in SUBSET Nat /\ \E n \in Nat : \A r \in committed' : r <= n
  <2>1. /\ Segment!Newest \in Nat /\ \A i \in DOMAIN cells : cells[i].rec <= Segment!Newest
    BY NewestAbove DEF SInv
  <2>2. PICK n \in Nat : \A r \in committed : r <= n
    BY DEF SInv, SegmentTypes
  <2>3. committed \in SUBSET Nat /\ Segment!InData \in SUBSET Nat
    BY <1>3 DEF SInv, SegmentTypes, Segment!InData
  <2>4. ASSUME NEW r \in committed' PROVE r <= n + Segment!Newest
    <3>1. CASE r \in committed
      BY <2>1, <2>2, <2>3, <3>1
    <3>2. CASE \E i \in DOMAIN cells : r = cells[i].rec
      BY <1>3, <2>1, <2>2, <3>2
    <3>. QED  BY <1>1, <3>1, <3>2 DEF Segment!InData
  <2>5. n + Segment!Newest \in Nat
    BY <2>1, <2>2
  <2>. QED  BY <1>1, <2>3, <2>4, <2>5
<1>6. SegmentTypes'
    BY <1>1, <1>4, <1>5 DEF SInv, SegmentTypes
<1>7. RecsOrdered' /\ HarmSeen'
    BY <1>1 DEF SInv, RecsOrdered, HarmSeen
<1>8. HardHeld'
    BY <1>1, <1>2, <1>3 DEF SInv, HardHeld, Segment!InData
<1>9. HeadAt' /\ AtProc'
    BY <1>1, <1>2, <1>4 DEF SInv, HeadAt, AtProc, Clean
<1>. QED  BY <1>4, <1>6, <1>7, <1>8, <1>9 DEF SInv

LEMMA EntryTypes ==
    ASSUME SegmentTypes, idxFile # None
    PROVE  /\ idxFile \in Indexes /\ idxFile.ents \in Seq(Nat \cup {None}) /\ idxFile.stamp \in Nat
           /\ idxFile = [stamp |-> idxFile.stamp, ents |-> idxFile.ents]
           /\ Len(idxFile.ents) \in Nat /\ DOMAIN idxFile.ents = 1 .. Len(idxFile.ents)
           /\ \A i \in DOMAIN idxFile.ents : idxFile.ents[i] \in Nat \cup {None}
<1>1. idxFile \in Indexes
    BY DEF SegmentTypes
<1>2. idxFile.ents \in Seq(Nat \cup {None}) /\ idxFile.stamp \in Nat /\ idxFile = [stamp |-> idxFile.stamp, ents |-> idxFile.ents]
    BY <1>1 DEF Indexes
<1>. QED  BY <1>1, <1>2

LEMMA CellTypes ==
    ASSUME SegmentTypes
    PROVE  /\ cells \in Seq(Cells) /\ Len(cells) \in Nat /\ DOMAIN cells = 1 .. Len(cells) /\ hardCells \in 0 .. Len(cells)
           /\ \A i \in DOMAIN cells : cells[i] \in Cells /\ cells[i].rec \in Nat
           /\ Segment!RecsOf(cells) \in Seq(Nat) /\ Len(Segment!RecsOf(cells)) = Len(cells)
           /\ \A i \in 1 .. Len(cells) : Segment!RecsOf(cells)[i] = cells[i].rec
<1>1. cells \in Seq(Cells) /\ hardCells \in 0 .. Len(cells)
    BY DEF SegmentTypes
<1>. QED  BY <1>1, Listed

(* An index with an entry for every record is their list.                  *)
LEMMA IndexExact ==
    ASSUME SegmentTypes, idxFile # None
    PROVE  (Segment!Indexed /\ Len(idxFile.ents) = Len(cells)) <=> idxFile.ents = Segment!RecsOf(cells)
<1> DEFINE e == idxFile.ents
           c == Segment!RecsOf(cells)
<1>1. /\ e \in Seq(Nat \cup {None}) /\ DOMAIN e = 1 .. Len(e) /\ Len(e) \in Nat
      /\ c \in Seq(Nat \cup {None}) /\ Len(c) = Len(cells) /\ Len(cells) \in Nat /\ DOMAIN c = 1 .. Len(c)
      /\ \A i \in 1 .. Len(cells) : c[i] = cells[i].rec
  <2>1. c \in Seq(Nat) /\ Len(c) = Len(cells) /\ Len(cells) \in Nat /\ \A i \in 1 .. Len(cells) : c[i] = cells[i].rec
    BY CellTypes
  <2>. HIDE DEF c
  <2>2. c \in Seq(Nat \cup {None}) /\ DOMAIN c = 1 .. Len(c)
    BY <2>1
  <2>. QED  BY <2>1, <2>2, EntryTypes
<1>2. Segment!Indexed <=> Len(e) <= Len(cells) /\ \A i \in DOMAIN e : e[i] = cells[i].rec
    BY DEF Segment!Indexed
<1>. HIDE DEF e, c
<1>3. ASSUME Segment!Indexed, Len(e) = Len(cells) PROVE e = c
    BY <1>1, <1>2, <1>3
<1>4. ASSUME e = c PROVE Segment!Indexed /\ Len(e) = Len(cells)
    BY <1>1, <1>2, <1>4
<1>5. (Segment!Indexed /\ Len(e) = Len(cells)) <=> e = c
    BY <1>3, <1>4
<1>. QED  BY <1>5 DEF e, c

LEMMA IndexedWhole == ASSUME SegmentTypes, idxFile # None, Segment!Indexed PROVE NoHole
<1>1. \A i \in DOMAIN idxFile.ents : idxFile.ents[i] = cells[i].rec /\ i \in 1 .. Len(cells)
  <2>1. Len(idxFile.ents) \in Nat /\ Len(cells) \in Nat /\ DOMAIN idxFile.ents = 1 .. Len(idxFile.ents)
    BY CellTypes, EntryTypes
  <2>2. Len(idxFile.ents) <= Len(cells) /\ \A i \in DOMAIN idxFile.ents : idxFile.ents[i] = cells[i].rec
    BY DEF Segment!Indexed
  <2>. QED  BY <2>1, <2>2
<1>2. \A i \in 1 .. Len(cells) : cells[i].rec \in Nat
    BY CellTypes
<1>3. None \notin Nat
    BY NoneAssumption
<1>. QED  BY <1>1, <1>2, <1>3 DEF NoHole

(* Records that are cut off, or read back wrong, leave the others and      *)
(* their entries as they were.                                             *)
LEMMA RecordsCut ==
    ASSUME SInv, Len(cells') \in Nat, DOMAIN cells' = 1 .. Len(cells'), Len(cells') <= Len(cells), buffered' = << >>,
           \A i \in 1 .. Len(cells') : cells'[i].rec = cells[i].rec
    PROVE  /\ RecsOrdered'
           /\ UNCHANGED <<idxFile, hardIndex, rolled, holed>> => IndexOk'
<1>1. SegmentTypes /\ RecsOrdered /\ Len(cells) \in Nat /\ DOMAIN cells = 1 .. Len(cells)
    BY CellTypes DEF SInv
<1>2. \A i \in DOMAIN cells' : i \in DOMAIN cells /\ cells'[i].rec = cells[i].rec
    BY <1>1
<1>3. DOMAIN << >> = {}
    OBVIOUS
<1>4. RecsOrdered'
  <2>1. DOMAIN buffered' = {}
    BY <1>3
  <2>. QED  BY <1>1, <1>2, <2>1 DEF RecsOrdered
<1>5. ASSUME UNCHANGED <<idxFile, hardIndex, rolled, holed>> PROVE IndexOk'
  <2>1. NoHole' <=> NoHole
    BY <1>5 DEF NoHole
  <2>2. ASSUME idxFile # None PROVE Entries'
    <3>1. Entries /\ DOMAIN idxFile.ents = 1 .. Len(idxFile.ents) /\ idxFile.stamp \in Nat
      BY <1>1, <2>2, EntryTypes DEF SInv, IndexOk
    <3>2. \A i \in DOMAIN idxFile.ents : i <= Len(cells') => i <= Len(cells) /\ i \in DOMAIN cells'
      BY <1>1, <3>1
    <3>3. \A i \in DOMAIN idxFile.ents : i <= Len(cells') => idxFile.ents[i] = None \/ idxFile.ents[i] = cells'[i].rec
      BY <1>2, <3>1, <3>2 DEF Entries
    <3>4. idxFile.stamp # 0 => Len(cells') <= idxFile.stamp
      BY <1>1, <3>1 DEF Entries
    <3>. QED  BY <1>5, <2>1, <3>1, <3>3, <3>4 DEF Entries
  <2>3. ASSUME hardIndex.stamp # 0 PROVE StampSynced'
    <3>1. StampSynced /\ hardIndex.stamp \in Nat
      BY <1>1, <2>3 DEF SInv, IndexOk, SegmentTypes
    <3>2. Len(cells') <= hardIndex.stamp
      BY <1>1, <3>1 DEF StampSynced
    <3>. QED  BY <1>5, <2>1, <3>1, <3>2 DEF StampSynced
  <2>. QED  BY <1>5, <2>2, <2>3 DEF IndexOk
<1>. QED  BY <1>4, <1>5

LEMMA RollKeeps == ASSUME SInv, Segment!Roll PROVE SInv'
<1>1. /\ proc = "open" /\ buffered = << >> /\ Len(idxFile.ents) = Len(cells) /\ rolled' = TRUE /\ proc' = "sealing"
      /\ cells # << >> /\ hardCells = Len(cells)
      /\ UNCHANGED <<head, cells, hardCells, idxFile, hardIndex, buffered, committed, harm, rotten, severed, holed>>
    BY DEF Segment!Roll, Segment!files, Segment!past
<1>2. SegmentTypes' /\ RecsOrdered'
    BY <1>1 DEF SInv, SegmentTypes, RecsOrdered
<1>3. AtProc'
  <2>1. Segment!Indexed' <=> Segment!Indexed
    BY <1>1 DEF Segment!Indexed
  <2>. QED  BY <1>1, <2>1 DEF SInv, AtProc, Clean
<1>4. HeadAt'
  <2>1. cells # << >> => Len(cells) # 0
    BY CellTypes DEF SInv
  <2>. QED  BY <1>1, <2>1 DEF SInv, HeadAt
<1>. QED  BY <1>1, <1>2, <1>3, <1>4, FilesRest DEF SInv

LEMMA StampKeeps == ASSUME SInv, Segment!Stamp PROVE SInv'
<1>1. /\ proc = "sealing" /\ proc' = "stamped" /\ hardCells' = Len(cells)
      /\ idxFile' = [idxFile EXCEPT !.stamp = Len(idxFile.ents)]
      /\ UNCHANGED <<head, cells, buffered, hardIndex, rolled, committed, harm, rotten, severed, holed>>
    BY DEF Segment!Stamp, Segment!past
<1>2. /\ SegmentTypes /\ idxFile # None /\ Segment!Indexed /\ Len(idxFile.ents) = Len(cells)
      /\ rolled /\ Clean /\ head = "ok" /\ buffered = << >>
    BY <1>1 DEF SInv, AtProc, HeadAt, SegmentTypes
<1>3. idxFile' = [stamp |-> Len(cells), ents |-> idxFile.ents]
    BY <1>1, <1>2, EntryTypes DEF Indexes
<1>4. idxFile' \in Indexes /\ idxFile' # None /\ idxFile'.ents = idxFile.ents /\ idxFile'.stamp = Len(cells)
  <2>1. idxFile' \in Indexes
    BY <1>2, <1>3, CellTypes, EntryTypes DEF Indexes
  <2>. QED  BY <1>3, <2>1, NoneAssumption DEF Indexes
<1>5. SegmentTypes'
  <2>1. hardCells' \in 0 .. Len(cells')
    BY <1>1, <1>2, CellTypes
  <2>. QED  BY <1>1, <1>2, <1>4, <2>1 DEF SegmentTypes
<1>6. RecsOrdered' /\ HarmSeen'
    BY <1>1 DEF SInv, RecsOrdered, HarmSeen
<1>7. HardHeld'
  <2>1. \A i \in 1 .. hardCells : i \in 1 .. Len(cells)
    BY <1>2, CellTypes
  <2>. QED  BY <1>1, <1>2, <2>1, CellTypes DEF SInv, HardHeld, Clean
<1>8. Segment!Indexed' /\ Clean'
    BY <1>1, <1>2, <1>4 DEF Segment!Indexed, Clean
<1>9. HeadAt' /\ AtProc'
    BY <1>1, <1>2, <1>4, <1>8 DEF HeadAt, AtProc
<1>10. NoHole /\ NoHole'
  <2>1. NoHole
    BY <1>2, IndexedWhole
  <2>. QED  BY <1>4, <2>1 DEF NoHole
<1>11. Entries'
  <2>1. \A i \in DOMAIN idxFile.ents : idxFile.ents[i] = cells[i].rec
    BY <1>2 DEF Segment!Indexed
  <2>. QED  BY <1>1, <1>2, <1>4, <1>10, <2>1, CellTypes DEF Entries
<1>12. hardIndex.stamp # 0 => StampSynced'
    BY <1>1, <1>4, <1>10 DEF SInv, IndexOk, StampSynced
<1>. QED  BY <1>1, <1>5, <1>6, <1>7, <1>9, <1>11, <1>12 DEF SInv, IndexOk

LEMMA SyncIndexKeeps == ASSUME SInv, Segment!SyncIndex PROVE SInv'
<1>1. /\ proc = "stamped" /\ proc' = "sealed" /\ hardIndex' = [stamp |-> idxFile.stamp, n |-> Len(idxFile.ents)]
      /\ UNCHANGED <<head, cells, hardCells, buffered, idxFile, rolled, committed, harm, rotten, severed, holed>>
    BY DEF Segment!SyncIndex, Segment!past
<1>2. /\ SegmentTypes /\ idxFile # None /\ Segment!Indexed /\ Len(idxFile.ents) = Len(cells) /\ idxFile.stamp = Len(cells)
      /\ rolled /\ head = "ok" /\ buffered = << >>
    BY <1>1 DEF SInv, AtProc, HeadAt, SegmentTypes
<1>3. SegmentTypes'
    BY <1>1, <1>2, EntryTypes DEF SegmentTypes
<1>4. RecsOrdered' /\ HarmSeen' /\ HardHeld'
    BY <1>1 DEF SInv, RecsOrdered, HarmSeen, HardHeld
<1>5. Segment!Indexed' /\ idxFile' = [stamp |-> Len(cells), ents |-> Segment!RecsOf(cells)]' /\ NoHole /\ NoHole'
  <2>1. idxFile = [stamp |-> Len(cells), ents |-> Segment!RecsOf(cells)]
    BY <1>2, EntryTypes, IndexExact
  <2>2. NoHole
    BY <1>2, IndexedWhole
  <2>. QED  BY <1>1, <1>2, <2>1, <2>2 DEF Segment!Indexed, Segment!RecsOf, NoHole
<1>6. HeadAt' /\ AtProc'
    BY <1>1, <1>2, <1>5 DEF HeadAt, AtProc
<1>7. Entries' /\ StampSynced'
    BY <1>1, <1>2, <1>5, CellTypes DEF SInv, IndexOk, Entries, StampSynced
<1>. QED  BY <1>3, <1>4, <1>6, <1>7 DEF SInv, IndexOk

LEMMA KillKeepsSegment == ASSUME SInv, Segment!Kill PROVE SInv'
<1>1. /\ proc' = "down" /\ buffered' = << >>
      /\ UNCHANGED <<head, hardCells, hardIndex, rolled, committed, harm, rotten, severed, holed>>
    BY DEF Segment!Kill
<1>2. SegmentTypes /\ << >> \in Seq(Nat) /\ DOMAIN << >> = {}
    BY DEF SInv
<1>K. proc \notin {"down", "refused"}
    BY DEF Segment!Kill, Segment!Up
<1>3. CASE UNCHANGED <<cells, idxFile>>
  <2>1. SegmentTypes'
    BY <1>1, <1>2, <1>3 DEF SegmentTypes
  <2>2. RecsOrdered'
    BY <1>1, <1>2, <1>3 DEF SInv, RecsOrdered
  <2>3. HeadAt' /\ AtProc'
    BY <1>1, <1>K, <1>3 DEF SInv, HeadAt, AtProc
  <2>. QED  BY <1>1, <1>3, <2>1, <2>2, <2>3, FilesRest DEF SInv
<1>4. CASE /\ proc = "open" /\ buffered # << >> /\ UNCHANGED idxFile
           /\ cells' = Append(cells, [rec |-> Head(buffered), st |-> "short"])
  <2>1. /\ buffered \in Seq(Nat) /\ Len(buffered) \in Nat /\ Len(buffered) >= 1 /\ Head(buffered) = buffered[1] /\ buffered[1] \in Nat
    <3>1. buffered \in Seq(Nat)
      BY <1>2 DEF SegmentTypes
    <3>. QED  BY <1>4, <3>1
  <2>2. /\ cells' \in Seq(Cells) /\ Len(cells') = Len(cells) + 1 /\ DOMAIN cells' = 1 .. Len(cells) + 1
        /\ \A i \in 1 .. Len(cells) : cells'[i] = cells[i]
        /\ cells'[Len(cells) + 1] = [rec |-> buffered[1], st |-> "short"]
    <3>1. [rec |-> buffered[1], st |-> "short"] \in Cells
      BY <2>1 DEF Cells, States
    <3>2. cells \in Seq(Cells) /\ Len(cells) \in Nat
      BY <1>2, CellTypes
    <3>. QED  BY <1>4, <2>1, <3>1, <3>2
  <2>3. /\ \A i, j \in DOMAIN cells' : i < j => cells'[i].rec < cells'[j].rec
        /\ idxFile # None /\ Segment!Indexed' /\ IndexOk'
    <3>1. 1 \in 0 .. Len(buffered) /\ \A i \in 1 .. 1 : cells'[Len(cells) + i].rec = buffered[i]
      BY <2>1, <2>2
    <3>. QED  BY <1>1, <1>4, <2>2, <3>1, RecordsFlow
  <2>4. SegmentTypes'
    <3>1. hardCells' \in 0 .. Len(cells')
      BY <1>1, <1>2, <2>2, CellTypes
    <3>. QED  BY <1>1, <1>2, <1>4, <2>2, <3>1 DEF SegmentTypes
  <2>5. RecsOrdered'
    BY <1>1, <1>2, <2>3 DEF RecsOrdered
  <2>6. Clean /\ head \notin {"absent", "short", "blank"}
    BY <1>4 DEF SInv, AtProc, HeadAt
  <2>7. HardHeld'
    <3>1. \A i \in 1 .. hardCells : i \in 1 .. Len(cells)
      BY <1>2, CellTypes
    <3>2. \A i \in DOMAIN cells' : cells'[i].st # "long"
      <4>1. \A i \in DOMAIN cells' : i \in DOMAIN cells \/ i = Len(cells) + 1
        BY <1>2, <2>2, CellTypes
      <4>. QED  BY <1>2, <2>2, <2>6, <4>1, CellTypes DEF Clean
    <3>. QED  BY <1>1, <2>2, <3>1, <3>2 DEF SInv, HardHeld
  <2>8. HarmSeen'
    <3>1. \A i \in DOMAIN cells' : i \in DOMAIN cells \/ i = Len(cells')
      BY <1>2, <2>2, CellTypes
    <3>2. \A i \in DOMAIN cells : cells'[i].st = "ok"
      BY <1>2, <2>2, <2>6, CellTypes DEF Clean
    <3>3. cells'[Len(cells')].st = "short"
      BY <2>2
    <3>. QED  BY <3>1, <3>2, <3>3 DEF HarmSeen
  <2>9. HeadAt' /\ AtProc'
    BY <1>1, <2>6 DEF SInv, HeadAt, AtProc
  <2>. QED  BY <2>3, <2>4, <2>5, <2>7, <2>8, <2>9 DEF SInv
<1>5. CASE /\ proc = "indexing" /\ UNCHANGED cells
           /\ \E n \in Len(idxFile.ents) .. Len(cells) :
                idxFile' = [idxFile EXCEPT !.ents = @ \o SubSeq(Segment!RecsOf(cells), Len(@) + 1, n)]
  <2>1. idxFile # None /\ Segment!Indexed /\ ~rolled /\ head = "ok"
    BY <1>5 DEF SInv, AtProc, HeadAt
  <2>2. PICK n \in Len(idxFile.ents) .. Len(cells) :
           idxFile' = [idxFile EXCEPT !.ents = @ \o SubSeq(Segment!RecsOf(cells), Len(@) + 1, n)]
    BY <1>5
  <2>3. idxFile' \in Indexes /\ IndexOk'
    BY <1>1, <1>5, <2>1, <2>2, EntriesFollow
  <2>4. SegmentTypes'
    BY <1>1, <1>2, <1>5, <2>3 DEF SegmentTypes
  <2>5. RecsOrdered' /\ HardHeld' /\ HarmSeen'
    BY <1>1, <1>2, <1>5 DEF SInv, RecsOrdered, HardHeld, HarmSeen
  <2>6. HeadAt' /\ AtProc'
    BY <1>1, <2>1 DEF HeadAt, AtProc
  <2>. QED  BY <2>3, <2>4, <2>5, <2>6 DEF SInv
<1>. QED  BY <1>3, <1>4, <1>5 DEF Segment!Kill

LEMMA Listing == ASSUME NEW T, NEW n \in Nat, NEW f \in [1 .. n -> T] PROVE f \in Seq(T) /\ Len(f) = n
OBVIOUS

(* The sector of the header, or the one of record k.                       *)
HeaderRots == head = "ok" /\ head' = "blank" /\ UNCHANGED <<cells, rotten, severed>>
RecordRots(k, st) ==
    /\ cells' = [cells EXCEPT ![k].st = st]
    /\ rotten' = rotten \cup {cells[k].rec}
    /\ severed' = severed \cup (IF st = "long" THEN {cells[j].rec : j \in k + 1 .. Len(cells)} ELSE {})
    /\ UNCHANGED head
SectorLost == proc = "down" /\ harm' = TRUE /\ UNCHANGED <<hardCells, buffered, idxFile, hardIndex, rolled, proc, committed, holed>>

LEMMA RotCases ==
    ASSUME Segment!Rot
    PROVE  /\ SectorLost
           /\ HeaderRots \/ \E k \in 1 .. hardCells : \E st \in {"body", "blank", "less", "long"} : RecordRots(k, st)
BY DEF Segment!Rot, SectorLost, HeaderRots, RecordRots

LEMMA HeaderRotKeeps == ASSUME SInv, SectorLost, HeaderRots PROVE SInv'
<1>1. SegmentTypes' /\ RecsOrdered' /\ HardHeld' /\ HarmSeen' /\ HeadAt' /\ AtProc'
    BY DEF SectorLost, HeaderRots, SInv, SegmentTypes, RecsOrdered, HardHeld, HarmSeen, HeadAt, AtProc
<1>2. IndexOk'
  <2>1. NoHole' <=> NoHole
    BY DEF SectorLost, NoHole
  <2>. QED  BY <2>1 DEF SectorLost, HeaderRots, SInv, IndexOk, Entries, StampSynced
<1>. QED  BY <1>1, <1>2 DEF SInv

LEMMA RecordRotKeeps ==
    ASSUME SInv, SectorLost, NEW k \in 1 .. hardCells, NEW st \in {"body", "blank", "less", "long"}, RecordRots(k, st)
    PROVE  SInv'
<1>1. /\ proc = "down" /\ harm' = TRUE
      /\ UNCHANGED <<head, hardCells, buffered, idxFile, hardIndex, rolled, proc, committed, holed>>
    BY DEF SectorLost, RecordRots
<1>2. cells' = [cells EXCEPT ![k].st = st] /\ rotten' = rotten \cup {cells[k].rec}
    BY DEF RecordRots
<1>3. SegmentTypes /\ buffered = << >>
    BY <1>1 DEF SInv, AtProc
<1>4. k \in DOMAIN cells /\ \A i \in 1 .. hardCells : i \in DOMAIN cells
    BY <1>3, CellTypes
<1>5. /\ cells' \in Seq(Cells) /\ Len(cells') = Len(cells) /\ DOMAIN cells' = DOMAIN cells
      /\ \A i \in DOMAIN cells : cells'[i].rec = cells[i].rec /\ (i # k => cells'[i] = cells[i])
      /\ cells'[k].st = st
  <2>1. cells[k] \in Cells /\ cells \in Seq(Cells)
    BY <1>3, <1>4, CellTypes
  <2>2. [cells[k] EXCEPT !.st = st] = [rec |-> cells[k].rec, st |-> st]
    BY <2>1 DEF Cells
  <2>3. [rec |-> cells[k].rec, st |-> st] \in Cells
    BY <2>1 DEF Cells, States
  <2>4. cells' = [cells EXCEPT ![k] = [rec |-> cells[k].rec, st |-> st]]
    BY <1>2, <2>2
  <2>5. cells' \in Seq(Cells) /\ Len(cells') = Len(cells) /\ DOMAIN cells' = DOMAIN cells
    BY <1>4, <2>1, <2>3, <2>4
  <2>6. cells'[k] = [rec |-> cells[k].rec, st |-> st] /\ \A i \in DOMAIN cells : i # k => cells'[i] = cells[i]
    BY <1>4, <2>1, <2>4
  <2>7. cells'[k].rec = cells[k].rec /\ cells'[k].st = st
    BY <2>6
  <2>. QED  BY <2>5, <2>6, <2>7
<1>6. SegmentTypes'
    BY <1>1, <1>3, <1>5 DEF SegmentTypes
<1>7. RecsOrdered' /\ IndexOk'
  <2>1. \A i \in 1 .. Len(cells') : cells'[i].rec = cells[i].rec
    BY <1>3, <1>5, CellTypes
  <2>. QED  BY <1>1, <1>3, <1>5, <2>1, RecordsCut, CellTypes
<1>8. HardHeld'
  <2>S. severed \subseteq severed'
    BY DEF RecordRots
  <2>1. \A r \in committed' \ (rotten' \cup severed') : \E i \in 1 .. hardCells : cells'[i].rec = r
    BY <1>1, <1>2, <1>4, <1>5, <2>S DEF SInv, HardHeld
  <2>2. ASSUME NEW i \in 1 .. hardCells, cells'[i].st # "ok" PROVE cells'[i].st # "short" /\ cells'[i].rec \in rotten'
    <3>1. CASE i = k
      <4>1. st # "short" /\ cells'[k].st = st /\ cells'[k].rec = cells[k].rec
        BY <1>4, <1>5
      <4>2. cells[k].rec \in rotten'
        BY <1>2
      <4>. QED  BY <3>1, <4>1, <4>2
    <3>2. CASE i # k
      <4>1. cells'[i] = cells[i]
        BY <1>4, <1>5, <3>2
      <4>. QED  BY <1>2, <2>2, <4>1 DEF SInv, HardHeld
    <3>. QED  BY <3>1, <3>2
  <2>3. ASSUME NEW i \in 1 .. hardCells, NEW j \in 1 .. hardCells, i < j, cells'[i].st = "long"
        PROVE  cells'[j].rec \in severed'
    <3>1. i \in DOMAIN cells /\ j \in DOMAIN cells /\ cells'[j].rec = cells[j].rec
      BY <1>4, <1>5
    <3>2. CASE i = k
      <4>1. st = "long" /\ j \in k + 1 .. Len(cells)
        BY <1>3, <1>5, <2>3, <3>1, <3>2, CellTypes
      <4>2. cells[j].rec \in severed'
        BY <4>1 DEF RecordRots
      <4>. QED  BY <3>1, <4>2
    <3>3. CASE i # k
      <4>1. cells[i].st = "long"
        BY <1>5, <2>3, <3>1, <3>3
      <4>2. cells[j].rec \in severed
        BY <2>3, <4>1 DEF SInv, HardHeld
      <4>. QED  BY <2>S, <3>1, <4>2
    <3>. QED  BY <3>2, <3>3
  <2>4. ASSUME NEW i \in DOMAIN cells', cells'[i].st = "long" PROVE i \in 1 .. hardCells
    <3>1. i # k => cells[i].st = "long" /\ i \in DOMAIN cells
      BY <1>5, <2>4
    <3>2. i # k => i \in 1 .. hardCells
      BY <3>1 DEF SInv, HardHeld
    <3>. QED  BY <3>2
  <2>. QED  BY <1>1, <2>1, <2>2, <2>3, <2>4 DEF HardHeld
<1>9. HarmSeen' /\ AtProc'
    BY <1>1, <1>3, <1>4 DEF SInv, HarmSeen, AtProc
<1>10. HeadAt'
  <2>1. hardCells # 0
    BY <1>3, CellTypes
  <2>. QED  BY <1>1, <2>1 DEF SInv, HeadAt
<1>. QED  BY <1>6, <1>7, <1>8, <1>9, <1>10 DEF SInv

LEMMA RotKeeps == ASSUME SInv, Segment!Rot PROVE SInv'
BY RotCases, HeaderRotKeeps, RecordRotKeeps

(* The data after the power went: the records are a prefix of what they    *)
(* were, those that were synced as they were.                              *)
LEMMA CutCells ==
    ASSUME SInv, NEW n \in hardCells .. Len(cells),
           NEW st \in [hardCells + 1 .. n -> {"ok", "body", "blank", "less", "short"}],
           \A i \in DOMAIN st : st[i] = "short" => i = n,
           cells' = [i \in 1 .. n |-> IF i \in DOMAIN st THEN [cells[i] EXCEPT !.st = st[i]] ELSE cells[i]],
           harm' = (harm \/ \E i \in DOMAIN st : st[i] \in {"blank", "less"} \/ (st[i] = "body" /\ i < n)),
           hardCells' = hardCells, UNCHANGED <<committed, rotten, severed>>
    PROVE  /\ cells' \in Seq(Cells) /\ Len(cells') = n /\ n \in Nat /\ n <= Len(cells) /\ DOMAIN cells' = 1 .. n
           /\ hardCells' \in 0 .. n
           /\ \A i \in 1 .. n : cells'[i].rec = cells[i].rec
           /\ HardHeld' /\ HarmSeen'
<1>1. /\ SegmentTypes /\ Len(cells) \in Nat /\ hardCells \in Nat /\ n \in Nat /\ n <= Len(cells) /\ hardCells <= n
      /\ \A i \in 1 .. n : cells[i] \in Cells
    BY CellTypes DEF SInv
<1>2. ASSUME NEW i \in 1 .. n, i \in DOMAIN st
      PROVE  cells'[i] = [rec |-> cells[i].rec, st |-> st[i]]
  <2>1. cells[i] \in [rec : Nat, st : States]
    BY <1>1 DEF Cells
  <2>2. [cells[i] EXCEPT !.st = st[i]] = [rec |-> cells[i].rec, st |-> st[i]]
    BY <2>1
  <2>. QED  BY <1>2, <2>2
<1>3. ASSUME NEW i \in 1 .. n, i \notin DOMAIN st PROVE cells'[i] = cells[i]
    BY <1>3
<1>4. \A i \in 1 .. n : cells'[i].rec = cells[i].rec
  <2>1. ASSUME NEW i \in 1 .. n PROVE cells'[i].rec = cells[i].rec
    <3>1. CASE i \in DOMAIN st
      <4>1. cells'[i] = [rec |-> cells[i].rec, st |-> st[i]]
        BY <1>2, <3>1
      <4>. QED  BY <4>1
    <3>. QED  BY <1>3, <3>1
  <2>. QED  BY <2>1
<1>5. \A i \in 1 .. n : cells'[i] \in Cells
  <2>1. ASSUME NEW i \in 1 .. n PROVE cells'[i] \in Cells
    <3>1. CASE i \in DOMAIN st
      <4>1. cells'[i] = [rec |-> cells[i].rec, st |-> st[i]] /\ st[i] \in {"ok", "body", "blank", "less", "short"}
        BY <1>2, <3>1
      <4>. QED  BY <1>1, <4>1 DEF Cells, States
    <3>. QED  BY <1>1, <1>3, <3>1
  <2>. QED  BY <2>1
<1>6. cells' \in Seq(Cells) /\ Len(cells') = n /\ DOMAIN cells' = 1 .. n
  <2>1. DOMAIN cells' = 1 .. n /\ cells' = [i \in 1 .. n |-> cells'[i]]
    OBVIOUS
  <2>2. cells' \in [1 .. n -> Cells]
    BY <1>5, <2>1, Zenon
  <2>. QED  BY <1>1, <2>1, <2>2, Listing
<1>7. \A i \in 1 .. n : i \in DOMAIN st \/ i \in 1 .. hardCells
    BY <1>1
<1>8. \A i \in 1 .. hardCells : i \in 1 .. n /\ i \notin DOMAIN st
    BY <1>1
<1>9. HardHeld'
  <2>1. \A i \in 1 .. hardCells : cells'[i] = cells[i]
    BY <1>3, <1>8
  <2>2. HardHeld
    BY DEF SInv
  <2>3. \A r \in committed \ (rotten \cup severed) : \E i \in 1 .. hardCells : cells'[i].rec = r
    BY <2>1, <2>2 DEF HardHeld
  <2>4. \A i \in 1 .. hardCells : cells'[i].st # "ok" => cells'[i].st # "short" /\ cells'[i].rec \in rotten
    BY <2>1, <2>2 DEF HardHeld
  <2>5. \A i, j \in 1 .. hardCells : i < j /\ cells'[i].st = "long" => cells'[j].rec \in severed
    BY <2>1, <2>2 DEF HardHeld
  <2>6. ASSUME NEW i \in 1 .. n, cells'[i].st = "long" PROVE i \in 1 .. hardCells
    <3>1. ASSUME i \in DOMAIN st PROVE FALSE
      <4>1. cells'[i] = [rec |-> cells[i].rec, st |-> st[i]] /\ st[i] \in {"ok", "body", "blank", "less", "short"}
        BY <1>2, <3>1
      <4>. QED  BY <2>6, <4>1
    <3>. QED  BY <1>7, <3>1
  <2>7. \A i \in DOMAIN cells' : cells'[i].st = "long" => i \in 1 .. hardCells
    BY <1>6, <2>6
  <2>8. hardCells' = hardCells /\ committed' = committed /\ rotten' = rotten /\ severed' = severed
    OBVIOUS
  <2>. QED  BY <2>3, <2>4, <2>5, <2>7, <2>8, Zenon DEF HardHeld
<1>10. HarmSeen'
  <2>1. ASSUME ~harm', NEW i \in 1 .. n PROVE cells'[i].st \notin {"blank", "less", "long"} /\ (cells'[i].st # "ok" => i = n)
    <3>1. ~harm /\ \A j \in DOMAIN st : st[j] \notin {"blank", "less"} /\ ~(st[j] = "body" /\ j < n)
      BY <2>1
    <3>2. CASE i \in DOMAIN st
      <4>1. cells'[i].st = st[i] /\ st[i] \in {"ok", "body", "blank", "less", "short"}
        <5>1. cells'[i] = [rec |-> cells[i].rec, st |-> st[i]]
          BY <1>2, <3>2
        <5>. QED  BY <3>2, <5>1
      <4>2. ~(st[i] = "body" /\ i < n) /\ st[i] \notin {"blank", "less"} /\ (st[i] = "short" => i = n)
        BY <3>1, <3>2
      <4>. QED  BY <1>1, <4>1, <4>2
    <3>3. CASE i \notin DOMAIN st
      <4>1. cells'[i] = cells[i] /\ i \in DOMAIN cells /\ i <= n
        BY <1>1, <1>3, <3>3
      <4>2. cells[i].st \notin {"blank", "less", "long"} /\ (cells[i].st # "ok" => i = Len(cells))
        BY <3>1, <4>1 DEF SInv, HarmSeen
      <4>3. i = Len(cells) => i = n
        BY <1>1, <4>1
      <4>. QED  BY <4>1, <4>2, <4>3
    <3>. QED  BY <3>2, <3>3
  <2>. QED  BY <1>6, <2>1 DEF HarmSeen
<1>. QED  BY <1>1, <1>4, <1>6, <1>9, <1>10

(* The index after it: some of the entries that were not synced are gone,  *)
(* and the stamp is the one that was synced or the one that was not.       *)
LEMMA CutIndex ==
    ASSUME SInv, idxFile # None, NEW m \in hardIndex.n .. Len(idxFile.ents), NEW lost \in SUBSET (hardIndex.n + 1 .. m),
           NEW stamp \in {hardIndex.stamp, idxFile.stamp},
           idxFile' = [stamp |-> stamp, ents |-> [i \in 1 .. m |-> IF i \in lost THEN None ELSE idxFile.ents[i]]],
           holed' = (holed \/ (stamp = m /\ m > 0 /\ lost # {} /\ m \notin lost)),
           Len(cells') \in Nat, Len(cells') <= Len(cells), \A i \in 1 .. Len(cells') : cells'[i].rec = cells[i].rec,
           UNCHANGED <<hardIndex, rolled>>
    PROVE  idxFile' \in Indexes /\ IndexOk'
<1> DEFINE e == idxFile.ents
           f == idxFile'.ents
<1>1. /\ SegmentTypes /\ e \in Seq(Nat \cup {None}) /\ Len(e) \in Nat /\ DOMAIN e = 1 .. Len(e) /\ idxFile.stamp \in Nat
      /\ hardIndex.stamp \in Nat /\ hardIndex.n \in Nat /\ Len(cells) \in Nat
      /\ \A i \in DOMAIN e : e[i] \in Nat \cup {None}
  <2>1. SegmentTypes
    BY DEF SInv
  <2>. QED  BY <2>1, CellTypes, EntryTypes DEF SegmentTypes
<1>2. m \in Nat /\ m <= Len(e) /\ hardIndex.n <= m /\ stamp \in Nat /\ \A i \in 1 .. m : i \in DOMAIN e
    BY <1>1
<1>3. idxFile'.stamp = stamp /\ f = [i \in 1 .. m |-> IF i \in lost THEN None ELSE e[i]]
    OBVIOUS
<1>4. f \in Seq(Nat \cup {None}) /\ Len(f) = m /\ DOMAIN f = 1 .. m /\ \A i \in 1 .. m : f[i] = IF i \in lost THEN None ELSE e[i]
    BY <1>1, <1>2, <1>3
<1>5. idxFile' \in Indexes /\ idxFile' # None
  <2>1. idxFile' = [stamp |-> stamp, ents |-> f]
    BY <1>3
  <2>. HIDE DEF f
  <2>2. idxFile' \in Indexes
    BY <1>2, <1>4, <2>1 DEF Indexes
  <2>. QED  BY <2>2, NoneAssumption DEF Indexes
<1>6. Entries /\ (hardIndex.stamp # 0 => StampSynced)
    BY DEF SInv, IndexOk
<1>. HIDE DEF e, f
<1>7. \A i \in DOMAIN f : i <= Len(cells') => f[i] = None \/ f[i] = cells'[i].rec
  <2>1. \A i \in DOMAIN e : i <= Len(cells) => e[i] = None \/ e[i] = cells[i].rec
    BY <1>6 DEF Entries, e
  <2>2. \A i \in 1 .. m : i <= Len(cells') => i <= Len(cells) /\ cells'[i].rec = cells[i].rec
    BY <1>1, <1>2
  <2>. QED  BY <1>2, <1>4, <2>1, <2>2
<1>8. stamp # 0 => rolled /\ Len(e) <= stamp /\ Len(cells) <= stamp
  <2>1. CASE stamp = idxFile.stamp
    BY <1>6, <2>1 DEF Entries, e
  <2>2. CASE stamp = hardIndex.stamp
    <3>1. hardIndex.stamp # 0 => rolled /\ Len(e) <= hardIndex.stamp /\ Len(cells) <= hardIndex.stamp
      BY <1>1, <1>6 DEF StampSynced, e
    <3>. QED  BY <2>2, <3>1
  <2>. QED  BY <2>1, <2>2
<1>9. stamp # 0 => rolled' /\ Len(f) <= stamp /\ Len(cells') <= stamp
    BY <1>1, <1>2, <1>4, <1>8
<1>a. \A a, b \in Nat : a <= b /\ b <= a => a = b
    OBVIOUS
<1>10. hardIndex.stamp # 0 => m = Len(e) /\ lost = {} /\ f = e /\ NoHole
  <2>1. ASSUME hardIndex.stamp # 0 PROVE m = Len(e) /\ lost = {} /\ f = e /\ NoHole
    <3>1. hardIndex.n = Len(e) /\ NoHole
      BY <1>6, <2>1 DEF StampSynced, e
    <3>2. m = Len(e)
      BY <1>1, <1>2, <1>a, <3>1, Zenon
    <3>3. lost = {}
      <4>1. hardIndex.n = m /\ m \in Nat
        BY <1>2, <3>1, <3>2
      <4>2. \A i \in lost : i \in m + 1 .. m
        BY <4>1
      <4>. QED  BY <4>1, <4>2
    <3>. QED  BY <1>1, <1>4, <3>1, <3>2, <3>3
  <2>. QED  BY <2>1
<1>11. hardIndex.stamp # 0 => StampSynced'
  <2>1. ASSUME hardIndex.stamp # 0 PROVE StampSynced'
    <3>1. f = e /\ NoHole
      BY <1>10, <2>1
    <3>2. NoHole'
      BY <3>1 DEF NoHole, e, f
    <3>3. hardIndex.n = Len(f) /\ Len(cells') <= hardIndex.stamp /\ StampSynced
      <4>1. StampSynced
        BY <1>6, <2>1
      <4>2. Len(cells) <= hardIndex.stamp
        BY <4>1 DEF StampSynced
      <4>. QED  BY <1>1, <3>1, <4>1, <4>2 DEF StampSynced, e
    <3>. QED  BY <1>5, <3>2, <3>3 DEF StampSynced, f
  <2>. QED  BY <2>1
<1>12. f # << >> /\ stamp = Len(f) /\ f[Len(f)] # None => holed' \/ NoHole'
  <2>1. ASSUME f # << >>, stamp = Len(f), f[Len(f)] # None, ~holed' PROVE \A i \in DOMAIN f : f[i] # None
    <3>1. m > 0 /\ stamp = m /\ m \in 1 .. m
      <4>1. f = << >> \/ Len(f) # 0
        BY <1>4
      <4>. QED  BY <1>2, <1>4, <2>1, <4>1
    <3>2. m = Len(e) /\ stamp # 0
      <4>1. stamp # 0
        BY <1>2, <3>1
      <4>2. Len(e) <= m
        BY <1>8, <3>1, <4>1
      <4>. QED  BY <1>1, <1>2, <1>a, <4>1, <4>2, Zenon
    <3>3. m \notin lost /\ f[m] = e[m]
      BY <1>4, <2>1, <3>1
    <3>4. lost = {} /\ ~holed
      BY <2>1, <3>1, <3>3
    <3>5. f = e
      BY <1>1, <1>4, <3>2, <3>4
    <3>6. CASE stamp = hardIndex.stamp
      BY <1>10, <3>2, <3>5, <3>6 DEF NoHole, e
    <3>7. CASE stamp = idxFile.stamp
      <4>1. e # << >> /\ idxFile.stamp = Len(e) /\ e[Len(e)] # None
        BY <2>1, <3>5, <3>7
      <4>2. NoHole
        BY <1>6, <3>4, <4>1 DEF Entries, e
      <4>. QED  BY <3>5, <4>2 DEF NoHole, e
    <3>. QED  BY <3>6, <3>7
  <2>. QED  BY <2>1 DEF NoHole, f
<1>13. Entries'
    BY <1>3, <1>7, <1>9, <1>12 DEF Entries, f
<1>. QED  BY <1>5, <1>11, <1>13 DEF IndexOk

LEMMA PowerCutKeeps == ASSUME SInv, Segment!PowerCut PROVE SInv'
<1>1. /\ proc' = "down" /\ buffered' = << >> /\ UNCHANGED <<hardCells, hardIndex, rolled, committed, rotten, severed>>
      /\ head' \in Segment!LostHead /\ proc # "refused"
    BY DEF Segment!PowerCut
<1>H. /\ head' \in {"absent", "short", "written", "ok", "blank"}
      /\ head' \in {"absent", "short", "written"} => head \in {"absent", "short", "written"}
      /\ head' = "blank" => head \in {"written", "blank"}
      /\ head' = "written" => FALSE
  <2>1. CASE head = "written"
    <3>1. Segment!LostHead \subseteq {"absent", "short", "blank", "ok"}
      BY <2>1 DEF Segment!LostHead
    <3>. QED  BY <1>1, <2>1, <3>1
  <2>2. CASE head = "short"
    <3>1. Segment!LostHead \subseteq {"absent", "short"}
      BY <2>2 DEF Segment!LostHead
    <3>. QED  BY <1>1, <2>2, <3>1
  <2>3. CASE head \notin {"written", "short"}
    <3>1. Segment!LostHead = {head}
      BY <2>3 DEF Segment!LostHead
    <3>. QED  BY <1>1, <2>3, <3>1 DEF SInv, SegmentTypes
  <2>. QED  BY <2>1, <2>2, <2>3
<1>P. PICK n \in hardCells .. Len(cells) : \E st \in [hardCells + 1 .. n -> {"ok", "body", "blank", "less", "short"}] :
        /\ head' \in {"absent", "short"} => n = 0
        /\ \A i \in DOMAIN st : st[i] = "short" => i = n
        /\ cells' = [i \in 1 .. n |-> IF i \in DOMAIN st THEN [cells[i] EXCEPT !.st = st[i]] ELSE cells[i]]
        /\ harm' = (harm \/ \E i \in DOMAIN st : st[i] \in {"blank", "less"} \/ (st[i] = "body" /\ i < n))
    BY DEF Segment!PowerCut
<1>2. PICK st \in [hardCells + 1 .. n -> {"ok", "body", "blank", "less", "short"}] :
         /\ head' \in {"absent", "short"} => n = 0
         /\ \A i \in DOMAIN st : st[i] = "short" => i = n
         /\ cells' = [i \in 1 .. n |-> IF i \in DOMAIN st THEN [cells[i] EXCEPT !.st = st[i]] ELSE cells[i]]
         /\ harm' = (harm \/ \E i \in DOMAIN st : st[i] \in {"blank", "less"} \/ (st[i] = "body" /\ i < n))
    BY <1>P
<1>3. /\ cells' \in Seq(Cells) /\ Len(cells') = n /\ n \in Nat /\ n <= Len(cells) /\ DOMAIN cells' = 1 .. n
      /\ hardCells' \in 0 .. n
      /\ \A i \in 1 .. n : cells'[i].rec = cells[i].rec
      /\ HardHeld' /\ HarmSeen'
    BY <1>1, <1>2, CutCells
<1>4. RecsOrdered' /\ (UNCHANGED <<idxFile, hardIndex, rolled, holed>> => IndexOk')
    BY <1>1, <1>3, RecordsCut
<1>5. idxFile' \in Indexes \cup {None} /\ holed' \in BOOLEAN /\ IndexOk'
  <2>1. CASE idxFile = None
    <3>1. UNCHANGED <<idxFile, holed>>
      BY <2>1 DEF Segment!PowerCut
    <3>. QED  BY <1>1, <1>4, <3>1 DEF SInv, SegmentTypes
  <2>2. CASE idxFile # None
    <3>P. PICK m \in hardIndex.n .. Len(idxFile.ents) : \E lost \in SUBSET (hardIndex.n + 1 .. m) :
             \E stamp \in {hardIndex.stamp, idxFile.stamp} :
               /\ idxFile' = [stamp |-> stamp, ents |-> [i \in 1 .. m |-> IF i \in lost THEN None ELSE idxFile.ents[i]]]
               /\ holed' = (holed \/ (stamp = m /\ m > 0 /\ lost # {} /\ m \notin lost))
      BY <2>2 DEF Segment!PowerCut
    <3>1. PICK lost \in SUBSET (hardIndex.n + 1 .. m), stamp \in {hardIndex.stamp, idxFile.stamp} :
             /\ idxFile' = [stamp |-> stamp, ents |-> [i \in 1 .. m |-> IF i \in lost THEN None ELSE idxFile.ents[i]]]
             /\ holed' = (holed \/ (stamp = m /\ m > 0 /\ lost # {} /\ m \notin lost))
      BY <3>P
    <3>2. idxFile' \in Indexes /\ IndexOk'
      BY <1>1, <1>3, <2>2, <3>1, CutIndex
    <3>3. holed' \in BOOLEAN
      BY <3>1
    <3>. QED  BY <3>2, <3>3
  <2>. QED  BY <2>1, <2>2
<1>6. SegmentTypes'
  <2>1. << >> \in Seq(Nat)
    OBVIOUS
  <2>2. harm' \in BOOLEAN /\ head' \in {"absent", "short", "written", "ok", "blank"}
    BY <1>1, <1>2, <1>H DEF SInv, SegmentTypes
  <2>3. hardCells' \in 0 .. Len(cells')
    BY <1>3
  <2>. QED  BY <1>1, <1>3, <1>5, <2>1, <2>2, <2>3 DEF SInv, SegmentTypes
<1>7. AtProc'
    BY <1>1 DEF AtProc
<1>8. HeadAt'
  <2>1. head' \in {"absent", "short"} => cells' = << >>
    BY <1>2, <1>3
  <2>2. harm => harm'
    BY <1>2
  <2>. QED  BY <1>1, <1>H, <2>1, <2>2 DEF SInv, HeadAt
<1>. QED  BY <1>3, <1>4, <1>5, <1>6, <1>7, <1>8 DEF SInv

(* The stamp and the last entry vouch for the entries between, unless a    *)
(* power cut left a hole there.                                            *)
LEMMA SealedExact ==
    ASSUME SInv, idxFile # None, Segment!Sealed
    PROVE  holed \/ (Segment!Indexed /\ idxFile = [stamp |-> Len(cells), ents |-> Segment!RecsOf(cells)])
<1>1. SegmentTypes /\ Entries
    BY DEF SInv, IndexOk
<1>2. /\ idxFile = [stamp |-> idxFile.stamp, ents |-> idxFile.ents] /\ Len(idxFile.ents) \in Nat
      /\ DOMAIN idxFile.ents = 1 .. Len(idxFile.ents) /\ Len(cells) \in Nat
    BY <1>1, CellTypes, EntryTypes
<1>3. idxFile.stamp = Len(idxFile.ents)
    BY DEF Segment!Sealed
<1>4. CASE idxFile.ents = << >>
  <2>1. cells = << >>
    BY <1>4 DEF Segment!Sealed
  <2>2. Len(idxFile.ents) = 0 /\ Len(cells) = 0
    BY <1>4, <2>1
  <2>3. Segment!Indexed
    BY <1>2, <2>2 DEF Segment!Indexed
  <2>4. idxFile.ents = Segment!RecsOf(cells)
    BY <1>1, <2>2, <2>3, IndexExact
  <2>. QED  BY <1>2, <1>3, <2>2, <2>3, <2>4
<1>5. CASE idxFile.ents # << >>
  <2>1. idxFile.ents[Len(idxFile.ents)] # None /\ Len(idxFile.ents) = Len(cells)
    BY <1>5 DEF Segment!Sealed
  <2>2. ASSUME ~holed PROVE Segment!Indexed
    <3>1. NoHole
      BY <1>1, <1>3, <1>5, <2>1, <2>2 DEF Entries
    <3>2. \A i \in DOMAIN idxFile.ents : i <= Len(cells)
      BY <1>2, <2>1
    <3>. QED  BY <1>1, <1>2, <2>1, <3>1, <3>2 DEF Entries, NoHole, Segment!Indexed
  <2>3. Segment!Indexed => idxFile.ents = Segment!RecsOf(cells)
    BY <1>1, <2>1, IndexExact
  <2>. QED  BY <1>2, <1>3, <2>1, <2>2, <2>3
<1>. QED  BY <1>4, <1>5

LEMMA OpenSegmentKeeps == ASSUME SInv, Segment!OpenSegment PROVE SInv'
<1>1. /\ proc = "down" /\ UNCHANGED <<cells, hardCells, buffered, hardIndex, rolled, committed, harm, rotten, severed, holed>>
    BY DEF Segment!OpenSegment, Segment!past
<1>2. SegmentTypes /\ RecsOrdered /\ buffered = << >>
    BY <1>1 DEF SInv, AtProc
<1>3. RecsOrdered'
    BY <1>1, <1>2 DEF RecsOrdered
<1>4. CASE head \in {"absent", "short"}
  <2>1. head' = "absent" /\ idxFile' = None /\ proc' = "create"
    BY <1>4 DEF Segment!OpenSegment
  <2>2. cells = << >> /\ ~rolled
    BY <1>4 DEF SInv, HeadAt
  <2>3. hardIndex.stamp = 0
    BY <2>2 DEF SInv, IndexOk, StampSynced
  <2>4. IndexOk'
    BY <1>1, <2>1, <2>3 DEF IndexOk
  <2>5. SegmentTypes'
    BY <1>1, <1>2, <2>1 DEF SegmentTypes
  <2>6. HardHeld' /\ HarmSeen'
    BY <1>1 DEF SInv, HardHeld, HarmSeen
  <2>7. HeadAt' /\ AtProc'
    <3>1. Clean'
      BY <1>1, <2>2 DEF Clean
    <3>. QED  BY <1>1, <1>2, <1>4, <2>1, <2>2, <3>1 DEF SInv, HeadAt, AtProc
  <2>. QED  BY <1>3, <2>4, <2>5, <2>6, <2>7 DEF SInv
<1>6. CASE head = "blank"
  <2>1. proc' = "refused" /\ UNCHANGED <<head, idxFile>>
    BY <1>6 DEF Segment!OpenSegment
  <2>2. HardHeld' /\ HarmSeen' /\ IndexOk'
    BY <1>1, <2>1, FilesRest
  <2>3. SegmentTypes'
    BY <1>1, <1>2, <2>1 DEF SegmentTypes
  <2>4. HeadAt' /\ AtProc'
    BY <1>1, <1>2, <1>6, <2>1 DEF SInv, HeadAt, AtProc
  <2>. QED  BY <1>3, <2>2, <2>3, <2>4 DEF SInv
<1>5. CASE head \in {"written", "ok"}
  <2>1. UNCHANGED <<head, idxFile>> /\ proc' = IF rolled /\ idxFile # None /\ Segment!Sealed THEN "sealed" ELSE "recover"
    BY <1>5 DEF Segment!OpenSegment
  <2>H. HeadAt'
    BY <1>1, <1>5, <2>1 DEF SInv, HeadAt
  <2>2. HardHeld' /\ HarmSeen' /\ IndexOk'
    BY <1>1, <2>1, FilesRest
  <2>3. SegmentTypes'
    BY <1>1, <1>2, <2>1 DEF SegmentTypes
  <2>4. AtProc'
    <3>1. CASE rolled /\ idxFile # None /\ Segment!Sealed
      <4>1. proc' = "sealed"
        BY <2>1, <3>1
      <4>2. holed \/ (Segment!Indexed /\ idxFile = [stamp |-> Len(cells), ents |-> Segment!RecsOf(cells)])
        BY <1>2, <3>1, SealedExact
      <4>3. (holed \/ (Segment!Indexed /\ idxFile = [stamp |-> Len(cells), ents |-> Segment!RecsOf(cells)]))'
        BY <1>1, <2>1, <4>2 DEF Segment!Indexed, Segment!RecsOf
      <4>. QED  BY <1>1, <1>2, <1>5, <2>1, <3>1, <4>1, <4>3 DEF AtProc
    <3>2. CASE ~(rolled /\ idxFile # None /\ Segment!Sealed)
      BY <1>1, <1>2, <1>5, <2>1, <3>2 DEF AtProc
    <3>. QED  BY <3>1, <3>2
  <2>. QED  BY <1>3, <2>H, <2>2, <2>3, <2>4 DEF SInv
<1>. QED  BY <1>2, <1>4, <1>5, <1>6 DEF SegmentTypes

(* The first bad record is the one the scan finds.                         *)
LEMMA BadIsFirst ==
    ASSUME SegmentTypes, NEW k \in 1 .. Len(cells), cells[k].st # "ok"
    PROVE  /\ Segment!Bad \in 1 .. Len(cells) /\ cells[Segment!Bad].st # "ok"
           /\ \A j \in 1 .. (Segment!Bad - 1) : cells[j].st = "ok"
<1> DEFINE S == {i \in 1 .. Len(cells) : cells[i].st # "ok"}
<1>1. S \in SUBSET Nat /\ S # {} /\ Len(cells) \in Nat
    BY CellTypes
<1>2. PICK m \in S : \A y \in S : m <= y
  <2>. HIDE DEF S
  <2>. QED  BY <1>1, MinExists
<1>3. m \in 1 .. Len(cells) /\ cells[m].st # "ok"
    OBVIOUS
<1>4. \A j \in 1 .. (m - 1) : cells[j].st = "ok"
  <2>1. \A j \in 1 .. (m - 1) : j \in 1 .. Len(cells) /\ ~(m <= j)
    BY <1>1, <1>3
  <2>2. \A j \in 1 .. (m - 1) : j \notin S
    BY <1>2, <2>1
  <2>. QED  BY <2>1, <2>2
<1>. QED  BY <1>3, <1>4 DEF Segment!Bad

LEMMA ScanKeeps == ASSUME SInv, Segment!Scan PROVE SInv'
<1>1. proc = "recover" /\ UNCHANGED <<buffered, idxFile, hardIndex, rolled, committed, harm, rotten, severed, holed>>
    BY DEF Segment!Scan, Segment!past
<1>2. SegmentTypes /\ buffered = << >> /\ head \in {"written", "ok"}
    BY <1>1 DEF SInv, AtProc, HeadAt, SegmentTypes
<1>3. cells \in Seq(Cells) /\ Len(cells) \in Nat /\ DOMAIN cells = 1 .. Len(cells) /\ hardCells \in 0 .. Len(cells)
    BY <1>2, CellTypes
<1>4. CASE \A i \in 1 .. Len(cells) : cells[i].st = "ok"
  <2>1. proc' = "reconcile" /\ UNCHANGED <<head, cells, hardCells>>
    BY <1>4 DEF Segment!Scan
  <2>2. SegmentTypes' /\ RecsOrdered'
    BY <1>1, <2>1 DEF SInv, SegmentTypes, RecsOrdered
  <2>3. HardHeld' /\ HarmSeen' /\ IndexOk'
    BY <1>1, <2>1, FilesRest
  <2>4. Clean'
    BY <1>3, <1>4, <2>1 DEF Clean
  <2>5. HeadAt' /\ AtProc'
    BY <1>1, <1>2, <2>1, <2>4 DEF SInv, HeadAt, AtProc
  <2>. QED  BY <2>2, <2>3, <2>5 DEF SInv
<1>5. CASE ~ \A i \in 1 .. Len(cells) : cells[i].st = "ok"
  <2> DEFINE b == Segment!Bad
  <2>1. /\ b \in 1 .. Len(cells) /\ cells[b].st # "ok" /\ \A j \in 1 .. (b - 1) : cells[j].st = "ok"
    BY <1>2, <1>5, BadIsFirst
  <2>2. \/ /\ cells[b].st \in {"short", "long"} \/ Segment!LastAndKnown(b)
           /\ cells' = SubSeq(cells, 1, b - 1) /\ hardCells' = b - 1 /\ head' = "ok" /\ proc' = "reconcile"
        \/ /\ ~(cells[b].st \in {"short", "long"} \/ Segment!LastAndKnown(b))
           /\ proc' = "refused" /\ UNCHANGED <<head, cells, hardCells>>
    BY <1>5 DEF Segment!Scan
  <2>. HIDE DEF b
  <2>3. CASE /\ cells[b].st \in {"short", "long"} \/ Segment!LastAndKnown(b)
             /\ cells' = SubSeq(cells, 1, b - 1) /\ hardCells' = b - 1 /\ head' = "ok" /\ proc' = "reconcile"
    <3>1. b \in Nat /\ b - 1 \in Nat /\ b - 1 <= Len(cells) /\ b - 1 \in 0 .. Len(cells)
      BY <1>3, <2>1
    <3>2. /\ cells' \in Seq(Cells) /\ Len(cells') = b - 1 /\ DOMAIN cells' = 1 .. b - 1
          /\ \A i \in 1 .. b - 1 : cells'[i] = cells[i]
      <4>1. /\ SubSeq(cells, 0 + 1, b - 1) \in Seq(Cells) /\ Len(SubSeq(cells, 0 + 1, b - 1)) = b - 1 - 0
            /\ \A i \in 1 .. b - 1 - 0 : SubSeq(cells, 0 + 1, b - 1)[i] = cells[0 + i]
        <5>1. 0 \in 0 .. Len(cells) /\ b - 1 \in 0 .. Len(cells)
          BY <1>3, <3>1
        <5>. QED  BY <1>3, <5>1, Sliced
      <4>2. 0 + 1 = 1 /\ b - 1 - 0 = b - 1 /\ \A i \in 1 .. b - 1 : 0 + i = i
        BY <3>1
      <4>3. cells' \in Seq(Cells) /\ Len(cells') = b - 1 /\ \A i \in 1 .. b - 1 : cells'[i] = cells[i]
        BY <2>3, <4>1, <4>2
      <4>. QED  BY <4>3
    <3>3. \A i \in 1 .. b - 1 : cells'[i].st = "ok"
      BY <2>1, <3>2
    <3>4. RecsOrdered' /\ IndexOk'
      BY <1>1, <1>2, <3>1, <3>2, RecordsCut
    <3>5. SegmentTypes'
      <4>1. hardCells' \in 0 .. Len(cells')
        BY <2>3, <3>1, <3>2
      <4>. QED  BY <1>1, <1>2, <2>3, <3>2, <4>1 DEF SegmentTypes
    <3>6. ASSUME NEW i \in 1 .. hardCells, cells[i].rec \notin rotten \cup severed PROVE i \in 1 .. b - 1
      <4>1. ASSUME ~(i < b) PROVE FALSE
        <5>1. b \in 1 .. hardCells
          BY <1>3, <2>1, <4>1
        <5>2. cells[b].st # "short" /\ cells[b].rec \in rotten
          BY <2>1, <5>1 DEF SInv, HardHeld
        <5>L. cells[b].st # "long"
          <6>1. b # i
            BY <3>6, <5>2
          <6>2. b < i
            BY <1>3, <4>1, <5>1, <6>1
          <6>. QED  BY <3>6, <5>1, <6>2 DEF SInv, HardHeld
        <5>3. b = Len(cells)
          BY <2>3, <5>2, <5>L DEF Segment!LastAndKnown
        <5>4. i = b
          <6>1. i \in Nat /\ i <= Len(cells)
            BY <1>3
          <6>2. \A x, y \in Nat : x <= y /\ ~(x < y) => x = y
            OBVIOUS
          <6>. QED  BY <1>3, <4>1, <5>3, <6>1, <6>2, Zenon
        <5>. QED  BY <3>6, <5>2, <5>4
      <4>. QED  BY <1>3, <3>1, <4>1
    <3>7. HardHeld'
      <4>1. ASSUME NEW r \in committed \ (rotten \cup severed) PROVE \E i \in 1 .. b - 1 : cells'[i].rec = r
        <5>1. PICK i \in 1 .. hardCells : cells[i].rec = r
          BY <4>1 DEF SInv, HardHeld
        <5>2. i \in 1 .. b - 1
          BY <3>6, <5>1
        <5>. QED  BY <3>2, <5>1, <5>2
      <4>. QED  BY <1>1, <2>3, <3>2, <3>3, <4>1 DEF HardHeld
    <3>8. Clean' /\ HarmSeen'
      BY <3>2, <3>3 DEF Clean, HarmSeen
    <3>9. HeadAt' /\ AtProc'
      BY <1>1, <1>2, <2>3, <3>8 DEF HeadAt, AtProc
    <3>. QED  BY <3>4, <3>5, <3>7, <3>8, <3>9 DEF SInv
  <2>4. CASE /\ ~(cells[b].st \in {"short", "long"} \/ Segment!LastAndKnown(b))
             /\ proc' = "refused" /\ UNCHANGED <<head, cells, hardCells>>
    <3>1. harm
      <4>1. ASSUME ~harm PROVE FALSE
        <5>1. cells[b].st \notin {"blank", "less"} /\ b = Len(cells)
          BY <1>3, <2>1, <4>1 DEF SInv, HarmSeen
        <5>. QED  BY <2>4, <5>1 DEF Segment!LastAndKnown
      <4>. QED  BY <4>1
    <3>2. SegmentTypes' /\ RecsOrdered'
      BY <1>1, <2>4 DEF SInv, SegmentTypes, RecsOrdered
    <3>3. HardHeld' /\ HarmSeen' /\ IndexOk'
      BY <1>1, <2>4, FilesRest
    <3>4. HeadAt' /\ AtProc'
      BY <1>1, <1>2, <2>4, <3>1 DEF SInv, HeadAt, AtProc
    <3>. QED  BY <3>2, <3>3, <3>4 DEF SInv
  <2>. QED  BY <2>2, <2>3, <2>4
<1>. QED  BY <1>4, <1>5

LEMMA ReconcileKeeps == ASSUME SInv, Segment!Reconcile PROVE SInv'
<1>1. /\ proc = "reconcile" /\ proc' = (IF rolled THEN "sealing" ELSE "open")
      /\ UNCHANGED <<head, cells, hardCells, buffered, rolled, committed, harm, rotten, severed, holed>>
    BY DEF Segment!Reconcile, Segment!past
<1>2. SegmentTypes /\ Clean /\ buffered = << >> /\ head \in {"written", "ok"}
    BY <1>1 DEF SInv, AtProc, HeadAt, SegmentTypes
<1>H. HeadAt'
    BY <1>1, <1>2 DEF SInv, HeadAt
<1>3. HardHeld' /\ HarmSeen' /\ RecsOrdered'
    BY <1>1 DEF SInv, HardHeld, HarmSeen, RecsOrdered
<1>4. Clean'
    BY <1>1, <1>2 DEF Clean
<1>5. CASE idxFile # None /\ idxFile.ents = Segment!RecsOf(cells)
  <2>1. UNCHANGED <<idxFile, hardIndex>>
    BY <1>5 DEF Segment!Reconcile
  <2>2. Segment!Indexed /\ Len(idxFile.ents) = Len(cells)
    BY <1>2, <1>5, IndexExact
  <2>3. Segment!Indexed'
    BY <1>1, <2>1, <2>2 DEF Segment!Indexed
  <2>4. SegmentTypes'
    BY <1>1, <1>2, <2>1 DEF SegmentTypes
  <2>5. IndexOk'
    BY <1>1, <2>1, FilesRest
  <2>6. AtProc'
    BY <1>1, <1>2, <1>4, <1>5, <2>1, <2>2, <2>3 DEF AtProc
  <2>. QED  BY <1>3, <1>H, <2>4, <2>5, <2>6 DEF SInv
<1>6. CASE ~(idxFile # None /\ idxFile.ents = Segment!RecsOf(cells))
  <2> DEFINE s == IF idxFile = None THEN 0 ELSE idxFile.stamp
  <2>1. /\ idxFile' = [stamp |-> s, ents |-> Segment!RecsOf(cells)]
        /\ hardIndex' = [stamp |-> idxFile'.stamp, n |-> Len(cells)]
    BY <1>6 DEF Segment!Reconcile
  <2>2. s \in Nat /\ (s # 0 => rolled /\ Len(cells) <= s)
    <3>1. CASE idxFile = None
      BY <3>1
    <3>2. CASE idxFile # None
      <4>1. idxFile.stamp \in Nat /\ Entries
        BY <1>2, <3>2, EntryTypes DEF SInv, IndexOk
      <4>. QED  BY <3>2, <4>1 DEF Entries
    <3>. QED  BY <3>1, <3>2
  <2>. HIDE DEF s
  <2>3. /\ Segment!RecsOf(cells) \in Seq(Nat) /\ Len(Segment!RecsOf(cells)) = Len(cells) /\ Len(cells) \in Nat
        /\ \A i \in 1 .. Len(cells) : Segment!RecsOf(cells)[i] = cells[i].rec /\ cells[i].rec \in Nat
    BY <1>2, CellTypes, Listed
  <2>4. idxFile'.stamp = s /\ idxFile'.ents = Segment!RecsOf(cells) /\ hardIndex' = [stamp |-> s, n |-> Len(cells)]
    BY <2>1
  <2>5. Segment!RecsOf(cells) \in Seq(Nat \cup {None}) /\ DOMAIN Segment!RecsOf(cells) = 1 .. Len(cells)
    BY <2>3
  <2>6. idxFile' \in Indexes /\ idxFile' # None
    <3>1. idxFile' \in Indexes
      BY <2>1, <2>2, <2>5 DEF Indexes
    <3>. QED  BY <3>1, NoneAssumption DEF Indexes
  <2>7. Segment!Indexed' /\ NoHole'
    <3>1. \A i \in DOMAIN idxFile'.ents : idxFile'.ents[i] = cells[i].rec /\ idxFile'.ents[i] \in Nat
      BY <2>3, <2>4, <2>5
    <3>2. Len(idxFile'.ents) <= Len(cells)
      BY <2>3, <2>4
    <3>3. None \notin Nat
      BY NoneAssumption
    <3>. QED  BY <1>1, <3>1, <3>2, <3>3 DEF Segment!Indexed, NoHole
  <2>8. SegmentTypes'
    <3>1. hardIndex' \in [stamp : Nat, n : Nat]
      BY <2>2, <2>3, <2>4
    <3>. QED  BY <1>1, <1>2, <2>6, <3>1 DEF SegmentTypes
  <2>9. Entries'
    <3>1. \A i \in DOMAIN idxFile'.ents : idxFile'.ents[i] = cells'[i].rec
      BY <1>1, <2>7 DEF Segment!Indexed
    <3>2. idxFile'.stamp # 0 => rolled' /\ Len(idxFile'.ents) <= idxFile'.stamp /\ Len(cells') <= idxFile'.stamp
      BY <1>1, <2>2, <2>3, <2>4
    <3>. QED  BY <2>7, <3>1, <3>2 DEF Entries
  <2>10. hardIndex'.stamp # 0 => StampSynced'
    <3>1. hardIndex'.stamp = s /\ hardIndex'.n = Len(cells)
      BY <2>4
    <3>. QED  BY <1>1, <2>2, <2>3, <2>4, <2>6, <2>7, <3>1 DEF StampSynced
  <2>11. AtProc'
    <3>1. Len(idxFile'.ents) = Len(cells')
      BY <1>1, <2>3, <2>4
    <3>. QED  BY <1>1, <1>2, <1>4, <2>6, <2>7, <3>1 DEF AtProc
  <2>. QED  BY <1>3, <1>H, <2>8, <2>9, <2>10, <2>11 DEF SInv, IndexOk
<1>. QED  BY <1>5, <1>6

LEMMA SegmentStepKeeps == ASSUME SInv, [Segment!CNext]_segmentVars PROVE SInv'
<1>1. CASE UNCHANGED segmentVars
  <2>1. /\ UNCHANGED <<head, cells, hardCells, buffered, idxFile, hardIndex, rolled, proc, committed, harm, rotten, severed, holed>>
    BY <1>1 DEF segmentVars
  <2>2. SegmentTypes' /\ RecsOrdered'
    BY <2>1 DEF SInv, SegmentTypes, RecsOrdered
  <2>3. HardHeld' /\ HarmSeen' /\ IndexOk'
    BY <2>1, FilesRest
  <2>4. HeadAt' /\ AtProc'
    BY <2>1 DEF SInv, HeadAt, AtProc, Clean, Segment!Indexed, Segment!RecsOf
  <2>. QED  BY <2>2, <2>3, <2>4 DEF SInv
<1>2. CASE Segment!CNext
    BY <1>2, CreateKeeps, AppendRecordKeeps, SpillKeeps, SyncDataKeeps, WriteEntriesKeeps, RollKeeps, StampKeeps,
       SyncIndexKeeps, KillKeepsSegment, PowerCutKeeps, RotKeeps, OpenSegmentKeeps, ScanKeeps, ReconcileKeeps
       DEF Segment!CNext
<1>. QED  BY <1>1, <1>2

LEMMA SegmentImply == ASSUME SInv PROVE Segment!RecoverySound
<1>1. SegmentTypes /\ Len(cells) \in Nat /\ DOMAIN cells = 1 .. Len(cells) /\ hardCells \in 0 .. Len(cells)
    BY CellTypes DEF SInv
<1>2. committed \ (rotten \cup severed) \subseteq Segment!InData
  <2>1. \A i \in 1 .. hardCells : i \in DOMAIN cells
    BY <1>1
  <2>. QED  BY <2>1 DEF SInv, HardHeld, Segment!InData
<1>3. \A i \in 2 .. Len(cells) : cells[i - 1].rec < cells[i].rec
  <2>1. \A i \in 2 .. Len(cells) : i - 1 \in DOMAIN cells /\ i \in DOMAIN cells /\ i - 1 < i
    BY <1>1
  <2>. QED  BY <2>1 DEF SInv, RecsOrdered
<1>4. /\ proc \in {"open", "indexing", "sealing", "stamped"} => Segment!Indexed
      /\ proc = "sealed" => holed \/ (Segment!Indexed /\ idxFile = [stamp |-> Len(cells), ents |-> Segment!RecsOf(cells)])
      /\ proc = "refused" => harm \/ (head = "blank" /\ committed = {})
    BY DEF SInv, AtProc
<1>. QED  BY <1>2, <1>3, <1>4 DEF Segment!RecoverySound

=============================================================================
