----------------------- MODULE BackOfficeRecordsProofs -----------------------
(***************************************************************************)
(* Proofs about the records the back office edits, for any number of       *)
(* accounts, organizations, plans, calls and editors: accounts keep what   *)
(* they sign in with, and prices follow; and about the questions of a      *)
(* desk, a file and a table of countries. The last section is about the    *)
(* whole back office: its type invariant, and that two places that decide  *)
(* the same thing agree.                                                   *)
(*                                                                         *)
(* Accounts: an id has one holder, in a row or on its way to one, and a    *)
(* call under way fits the row it will write (AccountInv). Organizations:  *)
(* requests with a field in common know of each other, and a field only    *)
(* one of them has is what that one read or is about to copy (CompanyInv). *)
(* Plans: a row that no other caller crossed since it was read is the row  *)
(* that was read, and a name has one row or two that raced for it          *)
(* (PlanInv). Countries: the rows of a table that is unambiguous stay      *)
(* apart when it is seeded, and a name finds the row whose key it has      *)
(* (ResolveOwn).                                                           *)
(***************************************************************************)
EXTENDS BackOfficeProofs

-----------------------------------------------------------------------------
(* Accounts.                                                               *)

\* A person of an organization.
Document(d) ==
    /\ DOMAIN d = {"org", "role", "id", "pin", "mail", "status"}
    /\ d.org \in Orgs /\ d.role \in {"OPERATOR", "ORGANIZATION_ADMIN"} /\ d.pin \in BOOLEAN
    /\ d.id[2] \in Nat

\* Fields a call may set, and their values.
Fields(ch) ==
    /\ DOMAIN ch \subseteq {"role", "mail", "pin", "status", "id"}
    /\ "role" \in DOMAIN ch => ch["role"] \in {"OPERATOR", "ORGANIZATION_ADMIN"}
    /\ "pin" \in DOMAIN ch => ch["pin"] \in BOOLEAN
    /\ "id" \in DOMAIN ch => ch["id"] # Accts!NoId /\ ch["id"][2] \in Nat

\* An account there is.
There(u) == u \in AccountUsers /\ users[u] # Accts!Absent

\* A call, which has a document while it is under way, of somebody there if not of
\* somebody new.
CallOK(r) ==
    /\ r = [pc |-> r.pc, new |-> r.new, user |-> r.user, copy |-> r.copy, changes |-> r.changes,
            prefix |-> r.prefix, attempt |-> r.attempt]
    /\ r.pc \in {"idle", "taken", "company", "number", "save", "role", "status"} /\ r.new \in BOOLEAN
    /\ Fields(r.changes)
    /\ r.pc = "idle" => ~r.new /\ DOMAIN r.changes = {}
    /\ r.new => DOMAIN r.changes = {}
    /\ r.pc # "idle" => Document(r.copy)

\* Types of the accounts.
AccountTypes ==
    /\ DOMAIN users = AccountUsers /\ \A u \in AccountUsers : There(u) => Document(users[u])
    /\ counter \in [Orgs -> Nat]
    /\ DOMAIN call = Callers /\ \A c \in Callers : CallOK(call[c])
    /\ ids = [pc |-> ids.pc, left |-> ids.left, user |-> ids.user, prefix |-> ids.prefix,
              known |-> ids.known, number |-> ids.number, attempt |-> ids.attempt]
    /\ ids.number \in Nat /\ ids.user \notin ids.left
    /\ \A u \in ids.left : There(u)
    /\ ids.pc \in {"number", "write"} => There(ids.user)

\* An update is under way with a document of u.
Holds(c) == call[c].pc # "idle" /\ ~call[c].new

\* Whom one call holds is as the call has read him, and whom the migration holds has no
\* id.  Nobody is held twice, but who is raced.
OneHolder ==
    /\ \A c \in Callers : Holds(c) =>
         /\ There(call[c].user) /\ users[call[c].user].org = call[c].copy.org
         /\ call[c].user \notin raced => /\ users[call[c].user] = call[c].copy
                                         /\ call[c].user \notin ids.left \union {ids.user}
         /\ \A d \in Callers : d # c /\ Holds(d) /\ call[d].user = call[c].user => call[c].user \in raced
    /\ \A u \in ids.left \ raced : users[u].id = Accts!NoId
    /\ ids.pc \in {"number", "write"} /\ ids.user \notin raced => users[ids.user].id = Accts!NoId

\* The document that is about to be written fits its role, and only who has no id is to
\* get one.
Fitting(r) ==
    LET doc == Accts!Over(r.copy, r.changes) IN
    /\ r.new => /\ r.copy.role # "OPERATOR" => r.copy.mail # Accts!NoMail /\ ~r.copy.pin
                /\ r.pc = "save" /\ r.copy.role = "OPERATOR" => r.copy.id # Accts!NoId
                /\ r.pc # "save" => r.copy.id = Accts!NoId
    /\ ~r.new => /\ r.pc \notin {"role", "status"} /\ doc.role # "OPERATOR" => ~doc.pin
                 /\ r.pc = "save" /\ doc.role = "OPERATOR" => doc.id # Accts!NoId
                 /\ r.pc \in {"company", "number"} \/ "id" \in DOMAIN r.changes => r.copy.id = Accts!NoId
                 /\ "id" \in DOMAIN r.changes => r.pc = "save"
                 /\ r.pc = "role" => DOMAIN r.changes \subseteq {"role"}
                 /\ r.pc = "status" => DOMAIN r.changes \subseteq {"status"}

\* The id a call holds and has not stored (Operators' Drawn).
DrawnOf(r) == IF r.new THEN r.copy.id
              ELSE IF "id" \in DOMAIN r.changes THEN r.changes["id"] ELSE Accts!NoId

AllFitting == \A c \in Callers : call[c].pc # "idle" => Fitting(call[c])

\* Numbers of ids come from the organization's counter, and a number that is drawn and
\* not stored is nobody else's there.
NumbersApart ==
    /\ \A u \in AccountUsers : There(u) => users[u].id[2] <= counter[users[u].org]
    /\ \A c \in Callers : DrawnOf(call[c]) # Accts!NoId =>
         /\ 0 < DrawnOf(call[c])[2] /\ DrawnOf(call[c])[2] <= counter[call[c].copy.org]
         /\ \A u \in AccountUsers : There(u) /\ users[u].org = call[c].copy.org =>
              users[u].id[2] # DrawnOf(call[c])[2]
         /\ \A d \in Callers \ {c} :
              DrawnOf(call[d]) # Accts!NoId /\ call[d].copy.org = call[c].copy.org =>
              DrawnOf(call[d])[2] # DrawnOf(call[c])[2]
         /\ ids.pc = "write" /\ users[ids.user].org = call[c].copy.org =>
              ids.number # DrawnOf(call[c])[2]
    /\ ids.pc = "write" => 0 < ids.number /\ ids.number <= counter[users[ids.user].org]

\* The inductive invariant of the accounts.
AccountInv == AccountTypes /\ OneHolder /\ AllFitting /\ NumbersApart /\ Accts!CredentialsFitRole


\* A document with a body over it is one, with the fields of the body where there are some.
LEMMA OverFields ==
    ASSUME NEW d, NEW ch, Document(d), Fields(ch)
    PROVE  LET new == Accts!Over(d, ch) IN
           /\ Document(new) /\ new.org = d.org
           /\ new.role = IF "role" \in DOMAIN ch THEN ch["role"] ELSE d.role
           /\ new.pin = IF "pin" \in DOMAIN ch THEN ch["pin"] ELSE d.pin
           /\ new.mail = IF "mail" \in DOMAIN ch THEN ch["mail"] ELSE d.mail
           /\ new.id = IF "id" \in DOMAIN ch THEN ch["id"] ELSE d.id
<1>. DEFINE new == Accts!Over(d, ch)
<1>1. DOMAIN new = {"org", "role", "id", "pin", "mail", "status"}
  BY DEF Accts!Over, Document
<1>2. /\ new.org = d.org
      /\ new.role = IF "role" \in DOMAIN ch THEN ch["role"] ELSE d.role
      /\ new.pin = IF "pin" \in DOMAIN ch THEN ch["pin"] ELSE d.pin
      /\ new.mail = IF "mail" \in DOMAIN ch THEN ch["mail"] ELSE d.mail
      /\ new.id = IF "id" \in DOMAIN ch THEN ch["id"] ELSE d.id
  BY DEF Accts!Over, Document, Fields
<1>. HIDE DEF new
<1>3. Document(new)
  BY <1>1, <1>2 DEF Document, Fields
<1>. QED BY <1>2, <1>3 DEF new

\* Operators counts as this module does.
LEMMA AccountCounts == ASSUME NEW S PROVE Accts!Cardinality(S) = Cardinality(S)
BY DEF Accts!Cardinality, Cardinality

\* The accounts start in the invariant.
LEMMA AccountStart == Accts!Init => AccountInv
<1>. SUFFICES ASSUME Accts!Init PROVE AccountInv
  OBVIOUS
<1>1. /\ users = [u \in AccountUsers |-> IF u \in DOMAIN Roster THEN Roster[u] ELSE Accts!Absent]
      /\ call = [c \in Callers |-> Accts!Idle] /\ ids = Accts!IdsIdle /\ raced = {}
      /\ counter = [o \in Orgs |-> Accts!Cardinality({u \in DOMAIN Roster :
                                      Roster[u].org = o /\ Roster[u].id # Accts!NoId})]
      /\ bare = {u \in DOMAIN Roster : Roster[u].role = "OPERATOR" /\ Roster[u].id = Accts!NoId}
  BY DEF Accts!Init
<1>2. \A u \in AccountUsers : There(u) => u \in DOMAIN Roster /\ users[u] = Roster[u]
  BY <1>1 DEF There
<1>3. \A u \in DOMAIN Roster :
        /\ Document(Roster[u])
        /\ Roster[u].role # "OPERATOR" => Roster[u].mail # Accts!NoMail /\ ~Roster[u].pin
        /\ Roster[u].id[2] <= Cardinality({v \in DOMAIN Roster : /\ Roster[v].org = Roster[u].org
                                                              /\ Roster[v].id # Accts!NoId})
  BY AccountAssumption DEF Document, Accts!NoMail, Accts!NoId
<1>12. \A o \in Orgs : counter[o] = Cardinality({u \in DOMAIN Roster :
                                      Roster[u].org = o /\ Roster[u].id # Accts!NoId})
  BY <1>1, AccountCounts
<1>4. \A o \in Orgs : counter[o] \in Nat
  <2>. SUFFICES ASSUME NEW o \in Orgs PROVE counter[o] \in Nat
    OBVIOUS
  <2>. DEFINE T == {u \in DOMAIN Roster : Roster[u].org = o /\ Roster[u].id # Accts!NoId}
  <2>1. T \subseteq AccountUsers /\ IsFiniteSet(AccountUsers)
    BY AccountAssumption
  <2>2. counter[o] = Cardinality(T)
    BY <1>12
  <2>. HIDE DEF T
  <2>3. IsFiniteSet(T)
    BY <2>1, FS_Subset
  <2>. QED BY <2>2, <2>3, FS_CardinalityType
<1>5. \A c \in Callers : call[c] = Accts!Idle
  BY <1>1
<1>6. /\ ids.pc = "idle" /\ ids.left = {} /\ ids.number = 0
      /\ ids = [pc |-> ids.pc, left |-> ids.left, user |-> ids.user, prefix |-> ids.prefix,
                known |-> ids.known, number |-> ids.number, attempt |-> ids.attempt]
  BY <1>1 DEF Accts!IdsIdle
<1>7. AccountTypes
  <2>1. CallOK(Accts!Idle)
    BY DEF Accts!Idle, CallOK, Fields
  <2>2. counter \in [Orgs -> Nat]
    BY <1>1, <1>4
  <2>3. \A u \in AccountUsers : There(u) => Document(users[u])
    BY <1>2, <1>3
  <2>4. DOMAIN call = Callers /\ DOMAIN users = AccountUsers
    BY <1>1
  <2>. QED BY <1>5, <1>6, <2>1, <2>2, <2>3, <2>4 DEF AccountTypes
<1>8. OneHolder
  BY <1>5, <1>6 DEF OneHolder, Holds, Accts!Idle
<1>9. AllFitting
  BY <1>5 DEF AllFitting, Accts!Idle
<1>10. NumbersApart
  <2>1. \A u \in AccountUsers : There(u) => users[u].id[2] <= counter[users[u].org]
    <3>. SUFFICES ASSUME NEW u \in AccountUsers, There(u)
                  PROVE  users[u].id[2] <= counter[users[u].org]
      OBVIOUS
    <3>1. u \in DOMAIN Roster /\ users[u] = Roster[u] /\ Roster[u].org \in Orgs
      BY <1>2, <1>3 DEF Document
    <3>2. counter[Roster[u].org] = Cardinality({v \in DOMAIN Roster : /\ Roster[v].org = Roster[u].org
                                                                   /\ Roster[v].id # Accts!NoId})
      BY <1>12, <3>1
    <3>. QED BY <1>3, <3>1, <3>2
  <2>2. \A c \in Callers : DrawnOf(call[c]) = Accts!NoId
    BY <1>5 DEF DrawnOf, Accts!Idle
  <2>. QED BY <1>6, <2>1, <2>2 DEF NumbersApart
<1>11. Accts!CredentialsFitRole
  BY <1>1, <1>2, <1>3 DEF Accts!CredentialsFitRole, There
<1>. QED BY <1>7, <1>8, <1>9, <1>10, <1>11 DEF AccountInv

\* A call that goes on, begins or ends keeps the invariant, if what it is about to write
\* fits, whom it begins to hold is not held or raced, and a number it draws is the
\* counter's next.
LEMMA CallKeeps ==
    ASSUME AccountInv, NEW c \in Callers, NEW r,
           DOMAIN call' = Callers, call'[c] = r, \A d \in Callers \ {c} : call'[d] = call[d],
           UNCHANGED <<users, ids, bare>>, raced \subseteq raced',
           CallOK(r), r.pc # "idle" => Fitting(r),
           r.pc # "idle" /\ ~r.new =>
               \/ Holds(c) /\ r.user = call[c].user /\ r.copy = call[c].copy
               \/ There(r.user) /\ r.copy = users[r.user] /\ (r.user \in Accts!Held => r.user \in raced'),
           counter' \in [Orgs -> Nat], \A o \in Orgs : counter[o] <= counter'[o],
           \/ DrawnOf(r) = Accts!NoId
           \/ DrawnOf(r) = DrawnOf(call[c]) /\ r.copy.org = call[c].copy.org
           \/ /\ r.pc # "idle" /\ DrawnOf(r)[2] = counter[r.copy.org] + 1
              /\ counter'[r.copy.org] = counter[r.copy.org] + 1
    PROVE  AccountInv'
<1>1. AccountTypes'
  BY DEF AccountInv, AccountTypes, There
<1>2. \A d \in Callers : Holds(d)' =>
        \/ Holds(d) /\ call'[d].user = call[d].user /\ call'[d].copy = call[d].copy
        \/ /\ d = c /\ There(r.user) /\ r.copy = users[r.user]
           /\ r.user \in Accts!Held => r.user \in raced'
  BY DEF Holds
<1>3. OneHolder'
  <2>1. ASSUME NEW d \in Callers, Holds(d)'
        PROVE  /\ There(call[d].user)' /\ users[call'[d].user].org = call'[d].copy.org
               /\ call'[d].user \notin raced' => /\ users[call'[d].user] = call'[d].copy
                                                /\ call'[d].user \notin ids.left \union {ids.user}
    <3>1. CASE Holds(d) /\ call'[d].user = call[d].user /\ call'[d].copy = call[d].copy
      BY <3>1 DEF AccountInv, OneHolder, There
    <3>2. CASE d = c /\ There(r.user) /\ r.copy = users[r.user] /\ (r.user \in Accts!Held => r.user \in raced')
      BY <3>2 DEF There, Accts!Held
    <3>. QED BY <1>2, <2>1, <3>1, <3>2
  <2>2. ASSUME NEW d \in Callers, NEW e \in Callers, d # e, Holds(d)', Holds(e)', call'[d].user = call'[e].user
        PROVE  call'[d].user \in raced'
    <3>1. ASSUME NEW a \in Callers, NEW b \in Callers, a # b, Holds(a)', Holds(b)', call'[a].user = call'[b].user,
                 b # c
          PROVE  call'[a].user \in raced'
      <4>1. call'[b] = call[b] /\ Holds(b)
        BY <3>1 DEF Holds
      <4>2. call[b].user \in Accts!Held
        BY <4>1 DEF Accts!Held, Holds
      <4>3. CASE Holds(a) /\ call'[a].user = call[a].user
        BY <3>1, <4>1, <4>3 DEF AccountInv, OneHolder
      <4>. QED BY <1>2, <3>1, <4>1, <4>2, <4>3
    <3>. QED BY <2>2, <3>1
  <2>. QED BY <2>1, <2>2 DEF AccountInv, OneHolder
<1>4. AllFitting'
  <2>1. \A s : Fitting(s)' <=> Fitting(s)
    BY DEF Fitting, Accts!Over
  <2>. QED BY <2>1 DEF AccountInv, AllFitting
<1>5. NumbersApart'
  <2>. DEFINE Far(s) == /\ 0 < DrawnOf(s)[2] /\ DrawnOf(s)[2] <= counter'[s.copy.org]
                        /\ \A u \in AccountUsers : There(u) /\ users[u].org = s.copy.org =>
                             users[u].id[2] # DrawnOf(s)[2]
                        /\ ids.pc = "write" /\ users[ids.user].org = s.copy.org => ids.number # DrawnOf(s)[2]
  <2>1. \A u \in AccountUsers : There(u) => /\ users[u].org \in Orgs /\ users[u].id[2] \in Nat
                                            /\ users[u].id[2] <= counter[users[u].org]
    BY DEF AccountInv, AccountTypes, NumbersApart, Document
  <2>2. ids.pc = "write" => /\ 0 < ids.number /\ ids.number <= counter[users[ids.user].org]
                            /\ users[ids.user].org \in Orgs /\ ids.number \in Nat
    BY DEF AccountInv, AccountTypes, NumbersApart, Document, There
  <2>3. \A d \in Callers : DrawnOf(call[d]) # Accts!NoId =>
          call[d].copy.org \in Orgs /\ DrawnOf(call[d])[2] \in Nat /\ DrawnOf(call[d])[2] <= counter[call[d].copy.org]
    <3>. SUFFICES ASSUME NEW d \in Callers, DrawnOf(call[d]) # Accts!NoId
                  PROVE  call[d].copy.org \in Orgs /\ DrawnOf(call[d])[2] \in Nat /\ DrawnOf(call[d])[2] <= counter[call[d].copy.org]
      OBVIOUS
    <3>1. CallOK(call[d])
      BY DEF AccountInv, AccountTypes
    <3>2. call[d].pc # "idle"
      BY <3>1 DEF CallOK, DrawnOf
    <3>3. Document(call[d].copy) /\ Fields(call[d].changes)
      BY <3>1, <3>2 DEF CallOK
    <3>4. call[d].copy.org \in Orgs /\ DrawnOf(call[d])[2] \in Nat
      BY <3>3 DEF Document, Fields, DrawnOf
    <3>. QED BY <3>4 DEF AccountInv, NumbersApart
  <2>4. ASSUME NEW d \in Callers, DrawnOf(call[d]) # Accts!NoId, NEW s, DrawnOf(s) = DrawnOf(call[d]),
               s.copy.org = call[d].copy.org
        PROVE  Far(s)
    <3>1. counter[s.copy.org] \in Nat /\ counter'[s.copy.org] \in Nat /\ counter[s.copy.org] <= counter'[s.copy.org]
      BY <2>3, <2>4 DEF AccountInv, AccountTypes
    <3>. QED BY <2>3, <2>4, <3>1 DEF AccountInv, NumbersApart
  <2>5. CASE DrawnOf(r) = Accts!NoId
    <3>1. \A d \in Callers : DrawnOf(call'[d]) # Accts!NoId => d # c /\ call'[d] = call[d]
      BY <2>5
    <3>. QED BY <2>1, <2>2, <2>4, <3>1 DEF AccountInv, AccountTypes, NumbersApart, DrawnOf, There
  <2>6. CASE DrawnOf(r) # Accts!NoId /\ DrawnOf(r) = DrawnOf(call[c]) /\ r.copy.org = call[c].copy.org
    <3>1. \A d \in Callers : DrawnOf(call'[d]) = DrawnOf(call[d]) /\
             (DrawnOf(call[d]) # Accts!NoId => call'[d].copy.org = call[d].copy.org)
      BY <2>6
    <3>. QED BY <2>1, <2>2, <2>4, <3>1 DEF AccountInv, AccountTypes, NumbersApart, DrawnOf, There
  <2>7. CASE /\ r.pc # "idle" /\ DrawnOf(r)[2] = counter[r.copy.org] + 1
             /\ counter'[r.copy.org] = counter[r.copy.org] + 1
    <3>1. r.copy.org \in Orgs
      BY <2>7 DEF CallOK, Document
    <3>2. counter[r.copy.org] \in Nat
      BY <3>1 DEF AccountInv, AccountTypes
    <3>3. Far(r)
      BY <2>1, <2>2, <2>7, <3>1, <3>2
    <3>4. \A d \in Callers \ {c} : DrawnOf(call[d]) # Accts!NoId /\ call[d].copy.org = r.copy.org =>
             DrawnOf(call[d])[2] # DrawnOf(r)[2]
      BY <2>3, <2>7, <3>2
    <3>. QED BY <2>1, <2>2, <2>4, <3>3, <3>4 DEF AccountInv, AccountTypes, NumbersApart, DrawnOf, There
  <2>. QED BY <2>5, <2>6, <2>7
<1>6. Accts!CredentialsFitRole'
  BY DEF AccountInv, Accts!CredentialsFitRole
<1>. QED BY <1>1, <1>3, <1>4, <1>5, <1>6 DEF AccountInv

\* Somebody's document is written and calls end.  The invariant is kept if no call and no
\* part of the migration that goes on holds him, unless he is raced, his number is known
\* to the counter and to nobody who is about to write it, and he fits his role.
LEMMA WriteKeeps ==
    ASSUME AccountInv, NEW u \in AccountUsers, NEW d,
           users' = [users EXCEPT ![u] = d], Document(d),
           There(u) => d.org = users[u].org, d.id[2] <= counter[d.org],
           DOMAIN call' = Callers, \A c \in Callers : call'[c] = call[c] \/ call'[c] = Accts!Idle,
           UNCHANGED <<counter, raced>>,
           u \notin raced => \A c \in Callers : Holds(c)' => call[c].user # u,
           ids' = [pc |-> ids'.pc, left |-> ids'.left, user |-> ids'.user, prefix |-> ids'.prefix,
                   known |-> ids'.known, number |-> ids'.number, attempt |-> ids'.attempt],
           ids'.left \subseteq ids.left, ids'.user \in {ids.user, "none"}, ids'.number = ids.number,
           ids'.pc \in {"number", "write"} => ids'.pc = ids.pc /\ ids'.user = ids.user,
           ids'.user \notin ids'.left,
           u \in ids'.left => u \in raced,
           u = ids'.user /\ ids'.pc \in {"number", "write"} => u \in raced,
           \A c \in Callers : DrawnOf(call'[c]) # Accts!NoId /\ call'[c].copy.org = d.org =>
               d.id[2] # DrawnOf(call'[c])[2],
           \A v \in AccountUsers \ {u} : v \in bare => v \in bare',
           \/ u \in raced \union bare'
           \/ IF d.role = "OPERATOR" THEN d.id # Accts!NoId ELSE d.mail # Accts!NoMail /\ ~d.pin
    PROVE  AccountInv'
<1>1. /\ DOMAIN users = AccountUsers /\ DOMAIN users' = AccountUsers /\ users'[u] = d
      /\ \A v \in AccountUsers \ {u} : users'[v] = users[v]
  BY DEF AccountInv, AccountTypes
<1>2. d # Accts!Absent
  BY AccountAssumption DEF Document, Accts!Absent
<1>3. /\ \A v : There(v) => There(v)' /\ users'[v].org = users[v].org
      /\ \A v : There(v)' => v = u \/ (There(v) /\ users'[v] = users[v])
      /\ There(u)'
  <2>1. \A v \in AccountUsers : There(v)' <=> v = u \/ There(v)
    BY <1>1, <1>2 DEF There
  <2>2. \A v : (There(v) => v \in AccountUsers) /\ (There(v)' => v \in AccountUsers)
    BY DEF There
  <2>3. ASSUME NEW v, There(v) PROVE There(v)' /\ users'[v].org = users[v].org
    <3>1. CASE v = u
      BY <1>1, <2>1, <2>3, <3>1
    <3>2. CASE v # u
      BY <1>1, <2>1, <2>2, <2>3, <3>2
    <3>. QED BY <3>1, <3>2
  <2>4. ASSUME NEW v, There(v)' PROVE v = u \/ (There(v) /\ users'[v] = users[v])
    <3>1. v \in AccountUsers
      BY <2>4 DEF There
    <3>2. v = u \/ There(v)
      BY <2>1, <2>4, <3>1
    <3>. QED BY <1>1, <3>1, <3>2
  <2>5. There(u)'
    BY <2>1
  <2>. QED BY <2>3, <2>4, <2>5
<1>4. \A c \in Callers : call'[c].pc # "idle" => call'[c] = call[c]
  BY DEF Accts!Idle
<1>5. AccountTypes'
  <2>1. CallOK(Accts!Idle)
    BY DEF Accts!Idle, CallOK, Fields
  <2>2. \A v \in AccountUsers : There(v)' => Document(users'[v])
    BY <1>1, <1>3 DEF AccountInv, AccountTypes
  <2>3. \A v \in ids'.left : There(v)'
    BY <1>3 DEF AccountInv, AccountTypes
  <2>4. ids'.pc \in {"number", "write"} => There(ids.user)'
    <3>. SUFFICES ASSUME ids'.pc \in {"number", "write"} PROVE There(ids.user)'
      OBVIOUS
    <3>1. There(ids.user) /\ ids'.user = ids.user
      BY DEF AccountInv, AccountTypes
    <3>. QED BY <1>3, <3>1 DEF There
  <2>5. \A c \in Callers : CallOK(call'[c])
    BY <2>1 DEF AccountInv, AccountTypes
  <2>6. counter' \in [Orgs -> Nat] /\ ids'.number \in Nat
    BY DEF AccountInv, AccountTypes
  <2>. HIDE DEF AccountInv
  <2>. QED BY <1>1, <2>2, <2>3, <2>4, <2>5, <2>6 DEF AccountTypes, CallOK, Document, Fields
<1>6. OneHolder'
  <2>1. ASSUME NEW c \in Callers, Holds(c)'
        PROVE  /\ There(call[c].user)' /\ users'[call'[c].user].org = call'[c].copy.org
               /\ call'[c].user \notin raced => /\ users'[call'[c].user] = call'[c].copy
                                               /\ call'[c].user \notin ids'.left \union {ids'.user}
               /\ \A e \in Callers : e # c /\ Holds(e)' /\ call'[e].user = call'[c].user => call'[c].user \in raced
    <3>1. call'[c] = call[c] /\ Holds(c)
      BY <1>4, <2>1 DEF Holds
    <3>2. There(call[c].user) /\ users[call[c].user].org = call[c].copy.org
      BY <3>1 DEF AccountInv, OneHolder
    <3>3. /\ There(call[c].user)' /\ users'[call'[c].user].org = call'[c].copy.org
      BY <1>3, <3>1, <3>2
    <3>4. ASSUME call[c].user \notin raced
          PROVE  /\ users'[call[c].user] = call[c].copy
                 /\ call[c].user \notin ids'.left \union {ids'.user}
      <4>1. call[c].user # u
        BY <2>1, <3>4
      <4>2. call[c].user # "none"
        BY <3>2, AccountAssumption DEF There
      <4>. QED BY <1>1, <3>1, <3>2, <3>4, <4>1, <4>2 DEF AccountInv, OneHolder, There
    <3>5. ASSUME NEW e \in Callers, e # c, Holds(e)', call'[e].user = call'[c].user
          PROVE  call'[c].user \in raced
      <4>1. call'[e] = call[e] /\ Holds(e)
        BY <1>4, <3>5 DEF Holds
      <4>. QED BY <3>1, <3>5, <4>1 DEF AccountInv, OneHolder
    <3>. QED BY <3>1, <3>3, <3>4, <3>5
  <2>2. \A v \in ids'.left \ raced : users'[v].id = Accts!NoId
    <3>. SUFFICES ASSUME NEW v \in ids'.left \ raced PROVE users'[v].id = Accts!NoId
      OBVIOUS
    <3>1. There(v) /\ v # u /\ users[v].id = Accts!NoId
      BY DEF AccountInv, AccountTypes, OneHolder
    <3>. QED BY <1>1, <3>1 DEF There
  <2>3. ids'.pc \in {"number", "write"} /\ ids'.user \notin raced => users'[ids'.user].id = Accts!NoId
    <3>. SUFFICES ASSUME ids'.pc \in {"number", "write"}, ids'.user \notin raced
                  PROVE  users'[ids'.user].id = Accts!NoId
      OBVIOUS
    <3>1. There(ids.user) /\ ids'.user = ids.user /\ ids.user # u /\ users[ids.user].id = Accts!NoId
      BY DEF AccountInv, AccountTypes, OneHolder
    <3>. QED BY <1>1, <3>1 DEF There
  <2>. QED BY <2>1, <2>2, <2>3 DEF OneHolder
<1>7. AllFitting'
  <2>1. \A s : Fitting(s)' <=> Fitting(s)
    BY DEF Fitting, Accts!Over
  <2>. QED BY <1>4, <2>1 DEF AccountInv, AllFitting
<1>8. NumbersApart'
  <2>1. \A c \in Callers : DrawnOf(call'[c]) # Accts!NoId => call'[c] = call[c]
    BY DEF DrawnOf, Accts!Idle
  <2>2. \A v \in AccountUsers : There(v)' => users'[v].id[2] <= counter'[users'[v].org]
    BY <1>1, <1>3 DEF AccountInv, NumbersApart
  <2>3. ASSUME NEW c \in Callers, DrawnOf(call'[c]) # Accts!NoId
        PROVE  /\ 0 < DrawnOf(call'[c])[2] /\ DrawnOf(call'[c])[2] <= counter'[call'[c].copy.org]
               /\ \A v \in AccountUsers : There(v)' /\ users'[v].org = call'[c].copy.org =>
                    users'[v].id[2] # DrawnOf(call'[c])[2]
               /\ \A e \in Callers \ {c} :
                    DrawnOf(call'[e]) # Accts!NoId /\ call'[e].copy.org = call'[c].copy.org =>
                    DrawnOf(call'[e])[2] # DrawnOf(call'[c])[2]
               /\ ids'.pc = "write" /\ users'[ids'.user].org = call'[c].copy.org =>
                    ids'.number # DrawnOf(call'[c])[2]
    <3>1. call'[c] = call[c]
      BY <2>1, <2>3
    <3>2. /\ 0 < DrawnOf(call'[c])[2] /\ DrawnOf(call'[c])[2] <= counter'[call'[c].copy.org]
      BY <2>3, <3>1 DEF AccountInv, NumbersApart
    <3>3. \A v \in AccountUsers : There(v)' /\ users'[v].org = call'[c].copy.org =>
                    users'[v].id[2] # DrawnOf(call'[c])[2]
      BY <1>1, <1>3, <2>3, <3>1 DEF AccountInv, NumbersApart
    <3>4. \A e \in Callers \ {c} :
                    DrawnOf(call'[e]) # Accts!NoId /\ call'[e].copy.org = call'[c].copy.org =>
                    DrawnOf(call'[e])[2] # DrawnOf(call'[c])[2]
      BY <2>1, <2>3, <3>1 DEF AccountInv, NumbersApart
    <3>5. ids'.pc = "write" => users'[ids'.user].org = users[ids.user].org /\ ids.pc = "write"
      BY <1>3 DEF AccountInv, AccountTypes
    <3>. QED BY <2>3, <3>1, <3>2, <3>3, <3>4, <3>5 DEF AccountInv, NumbersApart
  <2>4. ids'.pc = "write" => 0 < ids'.number /\ ids'.number <= counter'[users'[ids'.user].org]
    BY <1>3 DEF AccountInv, AccountTypes, NumbersApart
  <2>. QED BY <2>2, <2>3, <2>4 DEF NumbersApart
<1>9. Accts!CredentialsFitRole'
  <2>. SUFFICES ASSUME NEW v \in AccountUsers, v \notin raced, v \notin bare', users'[v] # Accts!Absent
                PROVE  IF users'[v].role = "OPERATOR" THEN users'[v].id # Accts!NoId
                       ELSE users'[v].mail # Accts!NoMail /\ ~users'[v].pin
    BY DEF Accts!CredentialsFitRole
  <2>1. CASE v = u
    BY <1>1, <2>1
  <2>2. CASE v # u
    BY <1>1, <2>2 DEF AccountInv, Accts!CredentialsFitRole
  <2>. QED BY <2>1, <2>2
<1>. QED BY <1>5, <1>6, <1>7, <1>8, <1>9 DEF AccountInv

\* The migration goes on without a write, or to its next attempt.
LEMMA IdsKeeps ==
    ASSUME AccountInv, UNCHANGED <<users, call, bare>>, raced \subseteq raced',
           ids' = [pc |-> ids'.pc, left |-> ids'.left, user |-> ids'.user, prefix |-> ids'.prefix,
                   known |-> ids'.known, number |-> ids'.number, attempt |-> ids'.attempt],
           ids'.number \in Nat, ids'.user \notin ids'.left,
           \A v \in ids'.left : There(v), ids'.pc \in {"number", "write"} => There(ids'.user),
           \A v \in (ids'.left \union {ids'.user}) \intersect AccountUsers :
               \/ v \in raced' \/ v \in ids.left
               \/ v = ids.user /\ ids.pc \in {"number", "write"}
               \/ v \notin Accts!Held /\ users[v].id = Accts!NoId,
           counter' \in [Orgs -> Nat], \A o \in Orgs : counter[o] <= counter'[o],
           ids'.pc = "write" => LET o == users[ids'.user].org IN
                                counter'[o] = counter[o] + 1 /\ ids'.number = counter[o] + 1
    PROVE  AccountInv'
<1>1. AccountTypes'
  BY DEF AccountInv, AccountTypes, There
<1>2. OneHolder'
  <2>1. ASSUME NEW c \in Callers, Holds(c)'
        PROVE  /\ There(call[c].user)' /\ users'[call'[c].user].org = call'[c].copy.org
               /\ call'[c].user \notin raced' => /\ users'[call'[c].user] = call'[c].copy
                                                /\ call'[c].user \notin ids'.left \union {ids'.user}
               /\ \A e \in Callers : e # c /\ Holds(e)' /\ call'[e].user = call'[c].user => call'[c].user \in raced'
    <3>1. Holds(c) /\ There(call[c].user) /\ call[c].user \in AccountUsers /\ call[c].user \in Accts!Held
      BY <2>1 DEF AccountInv, OneHolder, Holds, There, Accts!Held
    <3>. QED BY <2>1, <3>1 DEF AccountInv, OneHolder, Holds, There
  <2>2. \A v \in ids'.left \ raced' : users'[v].id = Accts!NoId
    BY DEF AccountInv, OneHolder, There
  <2>3. ids'.pc \in {"number", "write"} /\ ids'.user \notin raced' => users'[ids'.user].id = Accts!NoId
    BY DEF AccountInv, OneHolder, There
  <2>. QED BY <2>1, <2>2, <2>3 DEF OneHolder
<1>3. AllFitting'
  <2>1. \A s : Fitting(s)' <=> Fitting(s)
    BY DEF Fitting, Accts!Over
  <2>. QED BY <2>1 DEF AccountInv, AllFitting
<1>4. NumbersApart'
  <2>1. \A v \in AccountUsers : There(v) => users[v].org \in Orgs /\ users[v].id[2] \in Nat
    BY DEF AccountInv, AccountTypes, Document
  <2>2. \A o \in Orgs : counter[o] \in Nat /\ counter'[o] \in Nat /\ counter[o] <= counter'[o]
    BY DEF AccountInv, AccountTypes
  <2>3. \A v \in AccountUsers : There(v) => users[v].id[2] <= counter'[users[v].org]
    BY <2>1, <2>2 DEF AccountInv, NumbersApart
  <2>4. ASSUME NEW c \in Callers, DrawnOf(call[c]) # Accts!NoId
        PROVE  /\ call[c].copy.org \in Orgs /\ DrawnOf(call[c])[2] \in Nat
               /\ DrawnOf(call[c])[2] <= counter[call[c].copy.org]
    <3>1. CallOK(call[c])
      BY DEF AccountInv, AccountTypes
    <3>2. call[c].pc # "idle"
      BY <2>4, <3>1 DEF CallOK, DrawnOf
    <3>3. Document(call[c].copy) /\ Fields(call[c].changes)
      BY <3>1, <3>2 DEF CallOK
    <3>4. call[c].copy.org \in Orgs /\ DrawnOf(call[c])[2] \in Nat
      BY <2>4, <3>3 DEF Document, Fields, DrawnOf
    <3>. QED BY <2>4, <3>4 DEF AccountInv, NumbersApart
  <2>5. ids'.pc = "write" => users[ids'.user].org \in Orgs
    BY <2>1 DEF There
  <2>6. ASSUME NEW c \in Callers, DrawnOf(call[c]) # Accts!NoId
        PROVE  /\ DrawnOf(call[c])[2] <= counter'[call[c].copy.org]
               /\ ids'.pc = "write" /\ users[ids'.user].org = call[c].copy.org => ids'.number # DrawnOf(call[c])[2]
    BY <2>2, <2>4, <2>5, <2>6
  <2>7. ids'.pc = "write" => 0 < ids'.number /\ ids'.number <= counter'[users[ids'.user].org]
    BY <2>2, <2>5
  <2>. QED BY <2>3, <2>6, <2>7 DEF AccountInv, NumbersApart, DrawnOf, There
<1>5. Accts!CredentialsFitRole'
  BY DEF AccountInv, Accts!CredentialsFitRole
<1>. QED BY <1>1, <1>2, <1>3, <1>4, <1>5 DEF AccountInv

\* What is known of a call and of the document it has.
LEMMA CallKnown ==
    ASSUME AccountInv, NEW c \in Callers
    PROVE  /\ DOMAIN call = Callers /\ CallOK(call[c])
           /\ call[c].pc # "idle" => Fitting(call[c])
           /\ counter \in [Orgs -> Nat]
           /\ \A u \in AccountUsers : There(u) => Document(users[u])
  BY DEF AccountInv, AccountTypes, AllFitting

\* createOperator begins.
LEMMA CreateKeeps ==
    ASSUME AccountInv, NEW c \in Callers, NEW o \in Orgs, NEW role \in {"OPERATOR", "ORGANIZATION_ADMIN"},
           NEW mail, Accts!Create(c, o, role, mail)
    PROVE  AccountInv'
<1>. DEFINE r == [pc |-> IF mail # Accts!NoMail THEN "taken" ELSE "company", new |-> TRUE, user |-> "none",
                  copy |-> Accts!Person(o, role, Accts!NoId, role = "OPERATOR", mail), changes |-> << >>,
                  prefix |-> "none", attempt |-> 0]
<1>1. /\ DOMAIN call = Callers /\ counter \in [Orgs -> Nat]
      /\ call' = [call EXCEPT ![c] = [Accts!Idle EXCEPT
                     !.pc = IF mail # Accts!NoMail THEN "taken" ELSE "company", !.new = TRUE,
                     !.copy = Accts!Person(o, role, Accts!NoId, role = "OPERATOR", mail)]]
      /\ UNCHANGED <<counter, users, ids, raced, bare>>
      /\ role = "ORGANIZATION_ADMIN" => mail # Accts!NoMail
  BY CallKnown DEF Accts!Create
<1>2. call'[c] = r /\ DOMAIN call' = Callers /\ \A d \in Callers \ {c} : call'[d] = call[d]
  BY <1>1 DEF Accts!Idle
<1>3. /\ Document(r.copy) /\ r.copy.role = role /\ r.copy.mail = mail /\ r.copy.id = Accts!NoId
      /\ r.copy.pin = (role = "OPERATOR")
  BY DEF Document, Accts!Person, Accts!NoId
<1>4. CallOK(r) /\ Fitting(r) /\ r.new /\ DrawnOf(r) = Accts!NoId
  <2>1. /\ r = [pc |-> r.pc, new |-> r.new, user |-> r.user, copy |-> r.copy, changes |-> r.changes,
                prefix |-> r.prefix, attempt |-> r.attempt]
        /\ r.pc \in {"taken", "company"} /\ r.new = TRUE /\ DOMAIN r.changes = {}
    OBVIOUS
  <2>. HIDE DEF r
  <2>2. CallOK(r)
    BY <1>3, <2>1 DEF CallOK, Fields
  <2>3. Fitting(r) /\ DrawnOf(r) = Accts!NoId
    BY <1>1, <1>3, <2>1 DEF Fitting, DrawnOf
  <2>. QED BY <2>1, <2>2, <2>3
<1>5. \A p \in Orgs : counter[p] <= counter'[p]
  BY <1>1
<1>. HIDE DEF r, AccountInv
<1>. QED BY <1>1, <1>2, <1>4, <1>5, CallKeeps

\* A call that begins with somebody's document holds him.
LEMMA HoldKeeps ==
    ASSUME AccountInv, NEW c \in Callers, NEW u \in AccountUsers, NEW ch, Fields(ch), "id" \notin DOMAIN ch,
           NEW pc \in {"taken", "company", "save", "role", "status"}, Accts!Hold(c, u, pc, ch),
           LET doc == Accts!Over(users[u], ch) IN
           /\ pc \notin {"role", "status"} /\ doc.role # "OPERATOR" => ~doc.pin
           /\ pc = "save" /\ doc.role = "OPERATOR" => users[u].id # Accts!NoId
           /\ pc = "company" => users[u].id = Accts!NoId
           /\ pc = "role" => DOMAIN ch \subseteq {"role"}
           /\ pc = "status" => DOMAIN ch \subseteq {"status"}
    PROVE  AccountInv'
<1>. DEFINE r == [pc |-> pc, new |-> FALSE, user |-> u, copy |-> users[u], changes |-> ch,
                  prefix |-> "none", attempt |-> 0]
<1>1. /\ DOMAIN call = Callers /\ counter \in [Orgs -> Nat] /\ users[u].status # 2
      /\ call' = [call EXCEPT ![c] = [Accts!Idle EXCEPT !.pc = pc, !.user = u, !.copy = users[u],
                                                        !.changes = ch]]
      /\ raced' = IF u \in Accts!Held THEN raced \union {u} ELSE raced
      /\ UNCHANGED <<counter, users, ids, bare>>
  BY CallKnown DEF Accts!Hold, Accts!Live
<1>2. call'[c] = r /\ DOMAIN call' = Callers /\ \A d \in Callers \ {c} : call'[d] = call[d]
  BY <1>1 DEF Accts!Idle
<1>3. There(u)
  BY <1>1 DEF There, Accts!Absent
<1>4. Document(users[u])
  BY <1>3, CallKnown
<1>5. Accts!Over(users[u], ch).id = users[u].id
  BY <1>4, OverFields
<1>6. /\ CallOK(r) /\ Fitting(r) /\ DrawnOf(r) = Accts!NoId /\ ~r.new
      /\ r.user = u /\ r.copy = users[u]
  BY <1>4, <1>5 DEF CallOK, Fitting, DrawnOf
<1>7. \A p \in Orgs : counter[p] <= counter'[p]
  BY <1>1
<1>8. raced \subseteq raced' /\ (r.user \in Accts!Held => r.user \in raced')
  BY <1>1
<1>. HIDE DEF r, AccountInv
<1>. QED BY <1>1, <1>2, <1>3, <1>6, <1>7, <1>8, CallKeeps

\* What is modified of a document makes the same document as the whole body.
LEMMA ModifiedFields ==
    ASSUME NEW d, NEW b, Document(d), Fields(b)
    PROVE  LET ch == Accts!Modified(d, b) IN
           /\ Fields(ch) /\ DOMAIN ch \subseteq DOMAIN b
           /\ Accts!Over(d, ch).role = Accts!Over(d, b).role
           /\ Accts!Over(d, ch).pin = Accts!Over(d, b).pin
<1>. DEFINE ch == Accts!Modified(d, b)
<1>1. /\ DOMAIN ch \subseteq DOMAIN b
      /\ \A f \in DOMAIN ch : ch[f] = b[f]
      /\ \A f \in DOMAIN b \ DOMAIN ch : b[f] = d[f]
      /\ "pin" \in DOMAIN b => "pin" \in DOMAIN ch
  BY DEF Accts!Modified
<1>. HIDE DEF ch
<1>2. Fields(ch)
  BY <1>1 DEF Fields
<1>. QED BY <1>1, <1>2, OverFields DEF ch

\* updateOperatorById takes the PIN of whoever is no operator after it.
LEMMA UpdateKeeps ==
    ASSUME AccountInv, NEW c \in Callers, NEW u \in AccountUsers, NEW body \in Accts!Bodies,
           Accts!Update(c, u, body)
    PROVE  AccountInv'
<1>. DEFINE b == Accts!ClearPin(users[u], body)
            ch == Accts!Modified(users[u], b)
            pc == IF "mail" \in DOMAIN body /\ body.mail # Accts!NoMail THEN "taken"
                  ELSE IF Accts!LacksId(users[u], body) THEN "company" ELSE "save"
<1>1. /\ "pin" \in DOMAIN body => Accts!Over(users[u], body).role = "OPERATOR"
      /\ Accts!Hold(c, u, pc, ch)
  BY DEF Accts!Update
<1>2. There(u) /\ Document(users[u])
  <2>1. users[u].status # 2
    BY <1>1 DEF Accts!Hold, Accts!Live
  <2>2. There(u)
    BY <2>1 DEF There, Accts!Absent
  <2>. QED BY <2>2, CallKnown
<1>3. Fields(body) /\ "id" \notin DOMAIN body
  BY DEF Accts!Bodies, Fields
<1>4. /\ Fields(b) /\ "id" \notin DOMAIN b
      /\ Accts!Over(users[u], b).role = Accts!Over(users[u], body).role
      /\ Accts!Over(users[u], b).role # "OPERATOR" => ~Accts!Over(users[u], b).pin
  <2>1. CASE Accts!Over(users[u], body).role = "OPERATOR" \/ ~users[u].pin
    <3>1. b = body
      BY <2>1 DEF Accts!ClearPin
    <3>. HIDE DEF b
    <3>. QED BY <1>1, <1>2, <1>3, <2>1, <3>1, OverFields
  <2>2. CASE Accts!Over(users[u], body).role # "OPERATOR" /\ users[u].pin
    <3>1. b = Accts!With(body, "pin", FALSE)
      BY <2>2 DEF Accts!ClearPin
    <3>2. /\ DOMAIN b = DOMAIN body \union {"pin"} /\ b["pin"] = FALSE
          /\ \A f \in DOMAIN body \ {"pin"} : b[f] = body[f]
      BY <3>1 DEF Accts!With
    <3>. HIDE DEF b
    <3>3. Fields(b) /\ "id" \notin DOMAIN b
      BY <1>3, <3>2 DEF Fields
    <3>4. "role" \in DOMAIN b <=> "role" \in DOMAIN body
      BY <3>2
    <3>5. "role" \in DOMAIN body => b["role"] = body["role"]
      BY <3>2
    <3>. QED BY <1>2, <1>3, <3>2, <3>3, <3>4, <3>5, OverFields
  <2>. QED BY <1>2, <2>1, <2>2 DEF Document
<1>5. /\ Fields(ch) /\ "id" \notin DOMAIN ch
      /\ Accts!Over(users[u], ch).role = Accts!Over(users[u], body).role
      /\ Accts!Over(users[u], ch).role # "OPERATOR" => ~Accts!Over(users[u], ch).pin
  <2>. HIDE DEF b
  <2>. QED BY <1>2, <1>4, ModifiedFields
<1>6. /\ pc \in {"taken", "company", "save"}
      /\ pc = "save" /\ Accts!Over(users[u], ch).role = "OPERATOR" => users[u].id # Accts!NoId
      /\ pc = "company" => users[u].id = Accts!NoId
  <2>. HIDE DEF ch
  <2>. QED BY <1>5 DEF Accts!LacksId
<1>. HIDE DEF pc, ch, AccountInv
<1>. QED BY <1>1, <1>5, <1>6, HoldKeeps

\* updateOperatorRoleById, updateOperatorStatusById and deleteOperatorById set one field.
LEMMA SetKeeps ==
    ASSUME AccountInv, NEW c \in Callers, NEW u \in AccountUsers,
           \/ \E role \in {"OPERATOR", "ORGANIZATION_ADMIN"} : Accts!SetRole(c, u, role)
           \/ \E status \in 0..2 : Accts!SetStatus(c, u, status)
    PROVE  AccountInv'
<1>1. ASSUME NEW role \in {"OPERATOR", "ORGANIZATION_ADMIN"}, Accts!SetRole(c, u, role) PROVE AccountInv'
  <2>. DEFINE ch == Accts!Modified(users[u], [role |-> role])
  <2>1. Fields(ch) /\ DOMAIN ch \subseteq {"role"}
    BY DEF Fields, Accts!Modified
  <2>2. Accts!Hold(c, u, "role", ch)
    BY <1>1 DEF Accts!SetRole
  <2>. HIDE DEF ch, AccountInv
  <2>. QED BY <2>1, <2>2, HoldKeeps
<1>2. ASSUME NEW to \in 0..2, Accts!SetStatus(c, u, to) PROVE AccountInv'
  <2>. DEFINE ch == Accts!Modified(users[u], [status |-> to])
  <2>1. Fields(ch) /\ DOMAIN ch \subseteq {"status"}
    BY DEF Fields, Accts!Modified
  <2>2. Accts!Hold(c, u, "status", ch)
    BY <1>2 DEF Accts!SetStatus
  <2>. HIDE DEF ch, AccountInv
  <2>. QED BY <2>1, <2>2, HoldKeeps
<1>. QED BY <1>1, <1>2

\* A look-up of the address or of the company goes on with the document as it is.
LEMMA LookKeeps ==
    ASSUME AccountInv, NEW c \in Callers, Accts!CheckMail(c) \/ Accts!ReadCompany(c)
    PROVE  AccountInv'
<1>1. /\ CallOK(call[c]) /\ DOMAIN call = Callers /\ counter \in [Orgs -> Nat]
      /\ call[c].pc # "idle" => Fitting(call[c])
  BY CallKnown
<1>2. call[c] = [pc |-> call[c].pc, new |-> call[c].new, user |-> call[c].user, copy |-> call[c].copy,
                 changes |-> call[c].changes, prefix |-> call[c].prefix, attempt |-> call[c].attempt]
  BY <1>1 DEF CallOK
<1>3. call[c].pc \in {"taken", "company"} /\ UNCHANGED <<counter, users, ids, raced, bare>>
  BY DEF Accts!CheckMail, Accts!ReadCompany
<1>4. /\ Document(call[c].copy) /\ Fields(call[c].changes)
      /\ Accts!Over(call[c].copy, call[c].changes).id = call[c].copy.id \/ "id" \in DOMAIN call[c].changes
      /\ call[c].new => Accts!Over(call[c].copy, call[c].changes).role = call[c].copy.role
  BY <1>1, <1>3, OverFields DEF CallOK
<1>5. \A p \in Orgs : counter[p] <= counter'[p]
  BY <1>1, <1>3
<1>6. \/ call'[c] = Accts!Idle
      \/ \E pc, prefix :
           /\ call'[c] = [pc |-> pc, new |-> call[c].new, user |-> call[c].user, copy |-> call[c].copy,
                          changes |-> call[c].changes, prefix |-> prefix, attempt |-> call[c].attempt]
           /\ \/ /\ call[c].pc = "taken"
                 /\ pc = IF /\ Accts!Over(call[c].copy, call[c].changes).role = "OPERATOR"
                            /\ call[c].new \/ Accts!LacksId(call[c].copy, call[c].changes)
                         THEN "company" ELSE "save"
              \/ call[c].pc = "company" /\ pc = "number"
  BY <1>1, <1>2 DEF Accts!CheckMail, Accts!ReadCompany
<1>7. DOMAIN call' = Callers /\ \A d \in Callers \ {c} : call'[d] = call[d]
  BY <1>1 DEF Accts!CheckMail, Accts!ReadCompany
<1>8. CASE call'[c] = Accts!Idle
  <2>1. CallOK(Accts!Idle) /\ Accts!Idle.pc = "idle" /\ DrawnOf(Accts!Idle) = Accts!NoId
    BY DEF CallOK, Fields, Accts!Idle, DrawnOf
  <2>. HIDE DEF AccountInv
  <2>. QED BY <1>1, <1>3, <1>5, <1>7, <1>8, <2>1, CallKeeps
<1>9. ASSUME NEW pc, NEW prefix,
             call'[c] = [pc |-> pc, new |-> call[c].new, user |-> call[c].user, copy |-> call[c].copy,
                         changes |-> call[c].changes, prefix |-> prefix, attempt |-> call[c].attempt],
             \/ /\ call[c].pc = "taken"
                /\ pc = IF /\ Accts!Over(call[c].copy, call[c].changes).role = "OPERATOR"
                           /\ call[c].new \/ Accts!LacksId(call[c].copy, call[c].changes)
                        THEN "company" ELSE "save"
             \/ call[c].pc = "company" /\ pc = "number"
      PROVE  AccountInv'
  <2>. DEFINE r == [pc |-> pc, new |-> call[c].new, user |-> call[c].user, copy |-> call[c].copy,
                    changes |-> call[c].changes, prefix |-> prefix, attempt |-> call[c].attempt]
  <2>1. /\ r = [pc |-> r.pc, new |-> r.new, user |-> r.user, copy |-> r.copy, changes |-> r.changes,
                prefix |-> r.prefix, attempt |-> r.attempt]
        /\ r.pc = pc /\ r.new = call[c].new /\ r.user = call[c].user /\ r.copy = call[c].copy
        /\ r.changes = call[c].changes
    OBVIOUS
  <2>2. call'[c] = r /\ pc \in {"company", "save", "number"}
    BY <1>9
  <2>. HIDE DEF r
  <2>3. CallOK(r) /\ DrawnOf(r) = DrawnOf(call[c])
    BY <1>1, <1>4, <2>1, <2>2 DEF CallOK, DrawnOf
  <2>4. Fitting(r)
    <3>1. /\ Fitting(call[c]) /\ call[c].pc \in {"taken", "company"}
          /\ "id" \in DOMAIN call[c].changes => call[c].new
      BY <1>1, <1>3 DEF Fitting
    <3>2. CASE call[c].new
      <4>1. /\ call[c].copy.role # "OPERATOR" => call[c].copy.mail # Accts!NoMail /\ ~call[c].copy.pin
            /\ call[c].copy.id = Accts!NoId
        BY <3>1, <3>2 DEF Fitting
      <4>2. pc = "save" => call[c].copy.role # "OPERATOR"
        BY <1>4, <1>9, <3>2
      <4>. QED BY <2>1, <3>2, <4>1, <4>2 DEF Fitting
    <3>3. CASE ~call[c].new
      BY <1>4, <1>9, <2>1, <3>1, <3>3 DEF Fitting, Accts!LacksId
    <3>. QED BY <1>1, <3>2, <3>3 DEF CallOK
  <2>5. r.pc # "idle" /\ ~r.new => Holds(c) /\ r.user = call[c].user /\ r.copy = call[c].copy
    BY <1>3, <2>1 DEF Holds
  <2>. HIDE DEF AccountInv
  <2>. QED BY <1>1, <1>3, <1>5, <1>7, <2>1, <2>2, <2>3, <2>4, <2>5, CallKeeps
<1>. QED BY <1>6, <1>8, <1>9

\* The next number of the organization makes the id.
LEMMA DrawKeeps ==
    ASSUME AccountInv, NEW c \in Callers, Accts!DrawNumber(c)
    PROVE  AccountInv'
<1>. DEFINE o == call[c].copy.org
            id == <<call[c].prefix, counter[o] + 1>>
            r == [pc |-> "save", new |-> call[c].new, user |-> call[c].user,
                  copy |-> IF call[c].new THEN [call[c].copy EXCEPT !.id = id] ELSE call[c].copy,
                  changes |-> IF call[c].new THEN call[c].changes ELSE Accts!With(call[c].changes, "id", id),
                  prefix |-> call[c].prefix, attempt |-> call[c].attempt]
<1>1. /\ CallOK(call[c]) /\ DOMAIN call = Callers /\ counter \in [Orgs -> Nat]
      /\ call[c].pc # "idle" => Fitting(call[c])
  BY CallKnown
<1>2. /\ call[c].pc = "number" /\ counter' = [counter EXCEPT ![o] = @ + 1]
      /\ call' = IF call[c].new THEN [call EXCEPT ![c].pc = "save", ![c].copy.id = id]
                  ELSE [call EXCEPT ![c].pc = "save", ![c].changes = Accts!With(@, "id", id)]
      /\ UNCHANGED <<users, ids, raced, bare>>
  BY DEF Accts!DrawNumber, Accts!Draw
<1>3. call[c] = [pc |-> call[c].pc, new |-> call[c].new, user |-> call[c].user, copy |-> call[c].copy,
                 changes |-> call[c].changes, prefix |-> call[c].prefix, attempt |-> call[c].attempt]
  BY <1>1 DEF CallOK
<1>4. Document(call[c].copy) /\ Fields(call[c].changes) /\ Fitting(call[c]) /\ call[c].new \in BOOLEAN
  BY <1>1, <1>2 DEF CallOK
<1>5. o \in Orgs /\ counter[o] \in Nat
  BY <1>1, <1>4 DEF Document
<1>6. id[2] = counter[o] + 1 /\ id # Accts!NoId
  BY <1>5 DEF Accts!NoId
<1>7. /\ counter' \in [Orgs -> Nat] /\ \A p \in Orgs : counter[p] <= counter'[p]
      /\ counter'[o] = counter[o] + 1
  BY <1>1, <1>2, <1>5
<1>. HIDE DEF o, id
<1>8. DOMAIN call' = Callers /\ call'[c] = r /\ \A d \in Callers \ {c} : call'[d] = call[d]
  BY <1>1, <1>2, <1>3
<1>9. /\ r = [pc |-> r.pc, new |-> r.new, user |-> r.user, copy |-> r.copy, changes |-> r.changes,
              prefix |-> r.prefix, attempt |-> r.attempt]
      /\ r.pc = "save" /\ r.new = call[c].new /\ r.user = call[c].user
      /\ call[c].new => r.copy = [call[c].copy EXCEPT !.id = id] /\ r.changes = call[c].changes
      /\ ~call[c].new => r.copy = call[c].copy /\ r.changes = Accts!With(call[c].changes, "id", id)
  OBVIOUS
<1>. HIDE DEF r
<1>10. /\ CallOK(r) /\ Fitting(r) /\ DrawnOf(r) = id /\ r.copy.org = o
  <2>1. CASE call[c].new
    <3>1. /\ Document(r.copy) /\ r.copy.id = id /\ r.copy.role = call[c].copy.role
          /\ r.copy.pin = call[c].copy.pin /\ r.copy.mail = call[c].copy.mail /\ r.copy.org = o
      BY <1>4, <1>5, <1>6, <1>9, <2>1 DEF Document, o
    <3>2. CallOK(r)
      BY <1>1, <1>9, <2>1, <3>1 DEF CallOK
    <3>. QED BY <1>4, <1>6, <1>9, <2>1, <3>1, <3>2 DEF Fitting, DrawnOf
  <2>2. CASE ~call[c].new
    <3>1. /\ DOMAIN r.changes = DOMAIN call[c].changes \union {"id"} /\ r.changes["id"] = id
          /\ \A f \in DOMAIN call[c].changes \ {"id"} : r.changes[f] = call[c].changes[f]
      BY <1>9, <2>2 DEF Accts!With
    <3>2. Fields(r.changes)
      BY <1>4, <1>5, <1>6, <3>1 DEF Fields
    <3>3. CallOK(r)
      BY <1>1, <1>4, <1>9, <2>2, <3>2 DEF CallOK
    <3>4. /\ Accts!Over(r.copy, r.changes).role = Accts!Over(call[c].copy, call[c].changes).role
          /\ Accts!Over(r.copy, r.changes).pin = Accts!Over(call[c].copy, call[c].changes).pin
          /\ Accts!Over(r.copy, r.changes).id = id
      BY <1>4, <1>9, <2>2, <3>1, <3>2, OverFields
    <3>. QED BY <1>2, <1>4, <1>6, <1>9, <2>2, <3>1, <3>3, <3>4 DEF Fitting, DrawnOf, o
  <2>. QED BY <1>4, <2>1, <2>2
<1>11. r.pc # "idle" /\ ~r.new => Holds(c) /\ r.user = call[c].user /\ r.copy = call[c].copy
  BY <1>2, <1>9 DEF Holds
<1>12. /\ DrawnOf(r)[2] = counter[r.copy.org] + 1 /\ counter'[r.copy.org] = counter[r.copy.org] + 1
       /\ UNCHANGED <<users, ids, bare>> /\ raced \subseteq raced' /\ r.pc # "idle"
  BY <1>2, <1>6, <1>7, <1>9, <1>10
<1>. HIDE DEF AccountInv
<1>. QED BY <1>7, <1>8, <1>10, <1>11, <1>12, CallKeeps

\* A call that ends without a write.
LEMMA EndKeeps ==
    ASSUME AccountInv, NEW c \in Callers, call' = [call EXCEPT ![c] = Accts!Idle],
           UNCHANGED <<counter, users, ids, raced, bare>>
    PROVE  AccountInv'
<1>1. DOMAIN call = Callers /\ counter \in [Orgs -> Nat]
  BY CallKnown
<1>2. DOMAIN call' = Callers /\ call'[c] = Accts!Idle /\ \A d \in Callers \ {c} : call'[d] = call[d]
  BY <1>1
<1>3. CallOK(Accts!Idle) /\ Accts!Idle.pc = "idle" /\ DrawnOf(Accts!Idle) = Accts!NoId
  BY DEF CallOK, Fields, Accts!Idle, DrawnOf
<1>4. \A p \in Orgs : counter[p] <= counter'[p]
  BY <1>1
<1>. HIDE DEF AccountInv
<1>. QED BY <1>1, <1>2, <1>3, <1>4, CallKeeps

\* The numbers that calls have drawn are their organization's.
LEMMA DrawnKnown ==
    ASSUME AccountInv, NEW c \in Callers, DrawnOf(call[c]) # Accts!NoId
    PROVE  /\ call[c].copy.org \in Orgs /\ DrawnOf(call[c])[2] \in Nat /\ call[c].pc # "idle"
           /\ 0 < DrawnOf(call[c])[2] /\ DrawnOf(call[c])[2] <= counter[call[c].copy.org]
<1>1. CallOK(call[c])
  BY CallKnown
<1>2. call[c].pc # "idle"
  BY <1>1 DEF CallOK, DrawnOf
<1>3. Document(call[c].copy) /\ Fields(call[c].changes)
  BY <1>1, <1>2 DEF CallOK
<1>4. call[c].copy.org \in Orgs /\ DrawnOf(call[c])[2] \in Nat
  BY <1>3 DEF Document, Fields, DrawnOf
<1>. QED BY <1>2, <1>4 DEF AccountInv, NumbersApart

\* A new account is inserted, or the next attempt draws anew.
LEMMA AccountInsertKeeps ==
    ASSUME AccountInv, NEW c \in Callers, Accts!Insert(c)
    PROVE  AccountInv'
<1>. DEFINE new == call[c].copy
<1>1. /\ CallOK(call[c]) /\ DOMAIN call = Callers /\ counter \in [Orgs -> Nat]
      /\ call[c].pc # "idle" => Fitting(call[c])
  BY CallKnown
<1>2. call[c].pc = "save" /\ call[c].new /\ UNCHANGED <<counter, ids, raced, bare>>
  BY DEF Accts!Insert
<1>3. /\ Document(new) /\ DrawnOf(call[c]) = new.id
      /\ new.role # "OPERATOR" => new.mail # Accts!NoMail /\ ~new.pin
      /\ new.role = "OPERATOR" => new.id # Accts!NoId
  BY <1>1, <1>2 DEF CallOK, Fitting, DrawnOf
<1>4. CASE Accts!IdTaken(new.id, "none") \/ Accts!MailTaken(new.mail, "none")
  <2>1. /\ UNCHANGED users
        /\ call' = IF call[c].attempt + 1 = MaxAttempts THEN [call EXCEPT ![c] = Accts!Idle]
                   ELSE [call EXCEPT ![c].attempt = @ + 1, ![c].copy.id = Accts!NoId,
                           ![c].pc = IF new.role = "OPERATOR" THEN "company" ELSE "save"]
    BY <1>4 DEF Accts!Insert
  <2>2. CASE call[c].attempt + 1 = MaxAttempts
    <3>. HIDE DEF AccountInv
    <3>. QED BY <1>2, <2>1, <2>2, EndKeeps
  <2>3. CASE call[c].attempt + 1 # MaxAttempts
    <3>. DEFINE r == [pc |-> IF new.role = "OPERATOR" THEN "company" ELSE "save", new |-> call[c].new,
                      user |-> call[c].user, copy |-> [new EXCEPT !.id = Accts!NoId],
                      changes |-> call[c].changes, prefix |-> call[c].prefix, attempt |-> call[c].attempt + 1]
    <3>1. call[c] = [pc |-> call[c].pc, new |-> call[c].new, user |-> call[c].user, copy |-> call[c].copy,
                     changes |-> call[c].changes, prefix |-> call[c].prefix, attempt |-> call[c].attempt]
      BY <1>1 DEF CallOK
    <3>2. DOMAIN call' = Callers /\ call'[c] = r /\ \A d \in Callers \ {c} : call'[d] = call[d]
      BY <1>1, <2>1, <2>3, <3>1
    <3>3. /\ r = [pc |-> r.pc, new |-> r.new, user |-> r.user, copy |-> r.copy, changes |-> r.changes,
                  prefix |-> r.prefix, attempt |-> r.attempt]
          /\ r.pc = IF new.role = "OPERATOR" THEN "company" ELSE "save"
          /\ r.new = call[c].new /\ r.changes = call[c].changes /\ r.copy = [new EXCEPT !.id = Accts!NoId]
      OBVIOUS
    <3>. HIDE DEF r
    <3>4. /\ Document(r.copy) /\ r.copy.id = Accts!NoId /\ r.copy.role = new.role
          /\ r.copy.pin = new.pin /\ r.copy.mail = new.mail
      BY <1>3, <3>3 DEF Document, Accts!NoId
    <3>5. CallOK(r)
      BY <1>1, <1>2, <3>3, <3>4 DEF CallOK
    <3>6. Fitting(r) /\ DrawnOf(r) = Accts!NoId
      BY <1>2, <1>3, <3>3, <3>4 DEF Fitting, DrawnOf
    <3>7. \A p \in Orgs : counter[p] <= counter'[p]
      BY <1>1, <1>2
    <3>. HIDE DEF AccountInv
    <3>. QED BY <1>1, <1>2, <2>1, <3>2, <3>3, <3>5, <3>6, <3>7, CallKeeps
  <2>. QED BY <2>2, <2>3
<1>5. CASE ~(Accts!IdTaken(new.id, "none") \/ Accts!MailTaken(new.mail, "none"))
  <2>1. PICK u \in AccountUsers : users[u] = Accts!Absent /\ users' = [users EXCEPT ![u] = new]
    BY <1>5 DEF Accts!Insert
  <2>2. call' = [call EXCEPT ![c] = Accts!Idle]
    BY <1>5 DEF Accts!Insert
  <2>3. DOMAIN call' = Callers /\ \A d \in Callers : call'[d] = call[d] \/ call'[d] = Accts!Idle
    BY <1>1, <2>2
  <2>4. ~There(u)
    BY <2>1 DEF There
  <2>5. \A d \in Callers : Holds(d)' => call[d].user # u
    <3>. SUFFICES ASSUME NEW d \in Callers, Holds(d)' PROVE call[d].user # u
      OBVIOUS
    <3>1. Holds(d)
      BY <2>3 DEF Holds, Accts!Idle
    <3>. QED BY <2>4, <3>1 DEF AccountInv, OneHolder
  <2>6. new.id[2] <= counter[new.org]
    <3>1. CASE new.id = Accts!NoId
      BY <1>1, <1>3, <3>1 DEF Accts!NoId, Document
    <3>2. CASE new.id # Accts!NoId
      BY <1>3, <3>2, DrawnKnown
    <3>. QED BY <3>1, <3>2
  <2>7. \A d \in Callers : DrawnOf(call'[d]) # Accts!NoId /\ call'[d].copy.org = new.org =>
               new.id[2] # DrawnOf(call'[d])[2]
    <3>. SUFFICES ASSUME NEW d \in Callers, DrawnOf(call'[d]) # Accts!NoId, call'[d].copy.org = new.org
                  PROVE  new.id[2] # DrawnOf(call'[d])[2]
      OBVIOUS
    <3>1. d # c /\ call'[d] = call[d]
      BY <1>1, <2>2 DEF DrawnOf, Accts!Idle
    <3>2. CASE new.id = Accts!NoId
      BY <3>1, <3>2, DrawnKnown DEF Accts!NoId
    <3>3. CASE new.id # Accts!NoId
      BY <1>3, <3>1, <3>3 DEF AccountInv, NumbersApart
    <3>. QED BY <3>2, <3>3
  <2>8. /\ ids = [pc |-> ids.pc, left |-> ids.left, user |-> ids.user, prefix |-> ids.prefix,
                  known |-> ids.known, number |-> ids.number, attempt |-> ids.attempt]
        /\ ids.user \notin ids.left /\ \A v \in ids.left : There(v)
        /\ ids.pc \in {"number", "write"} => There(ids.user)
    BY DEF AccountInv, AccountTypes
  <2>. HIDE DEF new, AccountInv
  <2>. QED BY <1>2, <1>3, <2>1, <2>3, <2>4, <2>5, <2>6, <2>7, <2>8, WriteKeeps
<1>. QED BY <1>4, <1>5

\* A document is saved: its holder is alone, or it is raced.
LEMMA AccountSaveKeeps ==
    ASSUME AccountInv, NEW c \in Callers, Accts!Save(c)
    PROVE  AccountInv'
<1>. DEFINE u == call[c].user
            ch == call[c].changes
            doc == Accts!Over(call[c].copy, ch)
            d == Accts!Over(users[u], ch)
            denied == \/ doc.role # "OPERATOR" /\ doc.mail = Accts!NoMail
                      \/ "mail" \in DOMAIN ch /\ Accts!MailTaken(ch.mail, u)
                      \/ "id" \in DOMAIN ch /\ Accts!IdTaken(ch.id, u)
<1>1. /\ CallOK(call[c]) /\ DOMAIN call = Callers /\ counter \in [Orgs -> Nat]
      /\ call[c].pc # "idle" => Fitting(call[c])
  BY CallKnown
<1>2. /\ call[c].pc \in {"save", "role", "status"} /\ ~call[c].new
      /\ call' = [call EXCEPT ![c] = Accts!Idle] /\ UNCHANGED <<counter, ids, raced>>
  BY DEF Accts!Save
<1>3. CASE denied
  <2>1. UNCHANGED <<users, bare>>
    BY <1>3 DEF Accts!Save
  <2>. HIDE DEF AccountInv
  <2>. QED BY <1>2, <2>1, EndKeeps
<1>4. CASE ~denied
  <2>1. /\ users' = [users EXCEPT ![u] = d]
        /\ bare' = CASE call[c].pc = "role" -> bare \union {u}
                            [] call[c].pc = "save" -> bare \ {u}
                            [] OTHER -> bare
        /\ ~(doc.role # "OPERATOR" /\ doc.mail = Accts!NoMail)
    BY <1>4 DEF Accts!Save
  <2>2. Holds(c) /\ There(u) /\ users[u].org = call[c].copy.org /\ (u \notin raced => users[u] = call[c].copy)
    BY <1>2 DEF Holds, AccountInv, OneHolder
  <2>3. u \in AccountUsers /\ Document(users[u]) /\ Document(call[c].copy) /\ Fields(ch) /\ Fitting(call[c])
    BY <1>1, <1>2, <2>2, CallKnown DEF There, CallOK
  <2>4. /\ Document(d) /\ d.org = users[u].org
        /\ d.id = IF "id" \in DOMAIN ch THEN ch["id"] ELSE users[u].id
        /\ u \notin raced => d = doc
    BY <2>2, <2>3, OverFields
  <2>5. DOMAIN call' = Callers /\ \A e \in Callers : call'[e] = call[e] \/ call'[e] = Accts!Idle
    BY <1>1, <1>2
  <2>6. \A e \in Callers : Holds(e)' => e # c /\ Holds(e)
    BY <1>1, <1>2 DEF Holds, Accts!Idle
  <2>7. u \notin raced => \A e \in Callers : Holds(e)' => call[e].user # u
    BY <2>2, <2>6 DEF AccountInv, OneHolder
  <2>8. d.id[2] <= counter[d.org]
    <3>1. CASE "id" \in DOMAIN ch
      <4>1. DrawnOf(call[c]) = ch["id"] /\ ch["id"] # Accts!NoId
        BY <1>2, <2>3, <3>1 DEF DrawnOf, Fields
      <4>. QED BY <2>2, <2>4, <3>1, <4>1, DrawnKnown
    <3>2. CASE "id" \notin DOMAIN ch
      BY <2>2, <2>3, <2>4, <3>2 DEF AccountInv, NumbersApart
    <3>. QED BY <3>1, <3>2
  <2>9. \A e \in Callers : DrawnOf(call'[e]) # Accts!NoId /\ call'[e].copy.org = d.org =>
               d.id[2] # DrawnOf(call'[e])[2]
    <3>. SUFFICES ASSUME NEW e \in Callers, DrawnOf(call'[e]) # Accts!NoId, call'[e].copy.org = d.org
                  PROVE  d.id[2] # DrawnOf(call'[e])[2]
      OBVIOUS
    <3>1. e # c /\ call'[e] = call[e]
      BY <1>1, <1>2 DEF DrawnOf, Accts!Idle
    <3>2. CASE "id" \in DOMAIN ch
      <4>1. DrawnOf(call[c]) = ch["id"] /\ ch["id"] # Accts!NoId
        BY <1>2, <2>3, <3>2 DEF DrawnOf, Fields
      <4>. QED BY <2>2, <2>4, <3>1, <3>2, <4>1 DEF AccountInv, NumbersApart
    <3>3. CASE "id" \notin DOMAIN ch
      BY <2>2, <2>3, <2>4, <3>1, <3>3 DEF AccountInv, NumbersApart
    <3>. QED BY <3>2, <3>3
  <2>10. /\ ids = [pc |-> ids.pc, left |-> ids.left, user |-> ids.user, prefix |-> ids.prefix,
                   known |-> ids.known, number |-> ids.number, attempt |-> ids.attempt]
         /\ ids.user \notin ids.left
         /\ u \in ids.left \union {ids.user} => u \in raced
    BY <2>2 DEF AccountInv, AccountTypes, OneHolder
  <2>11. \A v \in AccountUsers \ {u} : v \in bare => v \in bare'
    BY <2>1
  <2>12. \/ u \in raced \union bare'
         \/ IF d.role = "OPERATOR" THEN d.id # Accts!NoId ELSE d.mail # Accts!NoMail /\ ~d.pin
    <3>1. CASE u \in raced
      BY <3>1
    <3>2. CASE call[c].pc = "role"
      BY <2>1, <3>2
    <3>3. CASE u \notin raced /\ call[c].pc = "save"
      <4>1. d = doc
        BY <2>4, <3>3
      <4>2. /\ doc.role # "OPERATOR" => ~doc.pin
            /\ doc.role = "OPERATOR" => doc.id # Accts!NoId
        BY <1>2, <2>3, <3>3 DEF Fitting
      <4>. HIDE DEF doc, d
      <4>. QED BY <2>1, <4>1, <4>2
    <3>4. CASE u \notin raced /\ call[c].pc = "status"
      <4>1. bare' = bare
        BY <2>1, <3>4
      <4>2. DOMAIN ch \subseteq {"status"}
        BY <1>2, <2>3, <3>4 DEF Fitting
      <4>3. d.role = users[u].role /\ d.id = users[u].id /\ d.mail = users[u].mail /\ d.pin = users[u].pin
        BY <2>3, <4>2, OverFields
      <4>4. users[u] # Accts!Absent
        BY <2>2 DEF There
      <4>. HIDE DEF d
      <4>. QED BY <2>3, <3>4, <4>1, <4>3, <4>4 DEF AccountInv, Accts!CredentialsFitRole
    <3>. QED BY <1>2, <3>1, <3>2, <3>3, <3>4
  <2>. HIDE DEF d, u, AccountInv
  <2>. QED BY <1>2, <2>1, <2>2, <2>3, <2>4, <2>5, <2>7, <2>8, <2>9, <2>10, <2>11, <2>12, WriteKeeps
<1>. QED BY <1>3, <1>4

\* The migration finds who has no id, takes one after the other and draws a number.
LEMMA IdsFindKeeps == ASSUME AccountInv, Accts!IdsFind PROVE AccountInv'
<1>1. /\ ids' = [Accts!IdsIdle EXCEPT !.pc = "next", !.left = Accts!WithoutId]
      /\ raced' = raced \union (Accts!WithoutId \intersect Accts!Held)
      /\ UNCHANGED <<counter, users, call, bare>>
  BY DEF Accts!IdsFind
<1>2. /\ ids' = [pc |-> ids'.pc, left |-> ids'.left, user |-> ids'.user, prefix |-> ids'.prefix,
                 known |-> ids'.known, number |-> ids'.number, attempt |-> ids'.attempt]
      /\ ids'.pc = "next" /\ ids'.left = Accts!WithoutId /\ ids'.user = "none" /\ ids'.number = 0
  BY <1>1 DEF Accts!IdsIdle
<1>3. \A v \in Accts!WithoutId : There(v) /\ users[v].id = Accts!NoId
  BY DEF Accts!WithoutId, Accts!Live, There, Accts!Absent
<1>4. "none" \notin AccountUsers
  BY AccountAssumption
<1>5. "none" \notin Accts!WithoutId
  BY <1>3, <1>4 DEF There
<1>6. counter' \in [Orgs -> Nat] /\ \A o \in Orgs : counter[o] <= counter'[o]
  BY <1>1 DEF AccountInv, AccountTypes
<1>7. \A v \in (ids'.left \union {ids'.user}) \intersect AccountUsers :
        v \in raced' \/ (v \notin Accts!Held /\ users[v].id = Accts!NoId)
  BY <1>1, <1>2, <1>3, <1>4
<1>. HIDE DEF AccountInv
<1>. QED BY <1>1, <1>2, <1>3, <1>5, <1>6, <1>7, IdsKeeps

\* The next one, for whom nothing changes but who is in hand.
LEMMA IdsNextKeeps == ASSUME AccountInv, NEW u \in AccountUsers, Accts!IdsNext(u) PROVE AccountInv'
<1>1. /\ ids = [pc |-> ids.pc, left |-> ids.left, user |-> ids.user, prefix |-> ids.prefix,
                known |-> ids.known, number |-> ids.number, attempt |-> ids.attempt]
      /\ ids.number \in Nat /\ \A v \in ids.left : There(v)
      /\ counter \in [Orgs -> Nat]
  BY DEF AccountInv, AccountTypes
<1>2. /\ u \in ids.left /\ UNCHANGED <<counter, users, call, raced, bare>>
      /\ \E known, prefix :
           ids' = [ids EXCEPT !.pc = "number", !.user = u, !.left = @ \ {u}, !.attempt = 0,
                              !.known = known, !.prefix = prefix]
  BY DEF Accts!IdsNext
<1>3. /\ ids' = [pc |-> ids'.pc, left |-> ids'.left, user |-> ids'.user, prefix |-> ids'.prefix,
                 known |-> ids'.known, number |-> ids'.number, attempt |-> ids'.attempt]
      /\ ids'.pc = "number" /\ ids'.left = ids.left \ {u} /\ ids'.user = u /\ ids'.number = ids.number
  BY <1>1, <1>2
<1>4. \A o \in Orgs : counter[o] <= counter'[o]
  BY <1>1, <1>2
<1>. HIDE DEF AccountInv
<1>. QED BY <1>1, <1>2, <1>3, <1>4, IdsKeeps

\* A number is drawn for whoever is in hand.
LEMMA IdsDrawKeeps == ASSUME AccountInv, Accts!IdsDraw PROVE AccountInv'
<1>. DEFINE o == users[ids.user].org
<1>1. /\ ids = [pc |-> ids.pc, left |-> ids.left, user |-> ids.user, prefix |-> ids.prefix,
                known |-> ids.known, number |-> ids.number, attempt |-> ids.attempt]
      /\ ids.user \notin ids.left /\ \A v \in ids.left : There(v)
      /\ counter \in [Orgs -> Nat]
  BY DEF AccountInv, AccountTypes
<1>2. /\ ids.pc = "number" /\ counter' = [counter EXCEPT ![o] = @ + 1]
      /\ ids' = [ids EXCEPT !.pc = "write", !.number = counter[o] + 1]
      /\ UNCHANGED <<users, call, raced, bare>>
  BY DEF Accts!IdsDraw, Accts!Draw
<1>3. There(ids.user) /\ o \in Orgs
  BY <1>2 DEF AccountInv, AccountTypes, Document, There
<1>4. /\ ids' = [pc |-> ids'.pc, left |-> ids'.left, user |-> ids'.user, prefix |-> ids'.prefix,
                 known |-> ids'.known, number |-> ids'.number, attempt |-> ids'.attempt]
      /\ ids'.left = ids.left /\ ids'.user = ids.user /\ ids'.number = counter[o] + 1
  BY <1>1, <1>2
<1>5. /\ counter' \in [Orgs -> Nat] /\ \A p \in Orgs : counter[p] <= counter'[p]
      /\ counter'[o] = counter[o] + 1 /\ counter[o] + 1 \in Nat
  BY <1>1, <1>2, <1>3
<1>. HIDE DEF AccountInv
<1>. QED BY <1>1, <1>2, <1>3, <1>4, <1>5, IdsKeeps

\* The state of the migration after one was done.
LEMMA IdsPassed ==
    ASSUME NEW to, NEW i, NEW next,
           i = [pc |-> i.pc, left |-> i.left, user |-> i.user, prefix |-> i.prefix,
                known |-> i.known, number |-> i.number, attempt |-> i.attempt],
           next = [i EXCEPT !.pc = to, !.user = "none"]
    PROVE  /\ next = [pc |-> next.pc, left |-> next.left, user |-> next.user, prefix |-> next.prefix,
                      known |-> next.known, number |-> next.number, attempt |-> next.attempt]
           /\ next.pc = to /\ next.left = i.left /\ next.user = "none" /\ next.number = i.number
  OBVIOUS

\* Whoever is in hand gets the id; a taken one is drawn anew, or he is passed over.
LEMMA IdsWriteKeeps == ASSUME AccountInv, Accts!IdsWrite PROVE AccountInv'
<1>. DEFINE u == ids.user
            id == <<ids.prefix, ids.number>>
            next == [ids EXCEPT !.pc = IF ids.left = {} THEN "idle" ELSE "next", !.user = "none"]
<1>1. /\ ids = [pc |-> ids.pc, left |-> ids.left, user |-> ids.user, prefix |-> ids.prefix,
                known |-> ids.known, number |-> ids.number, attempt |-> ids.attempt]
      /\ ids.number \in Nat /\ ids.user \notin ids.left /\ \A v \in ids.left : There(v)
      /\ counter \in [Orgs -> Nat]
  BY DEF AccountInv, AccountTypes
<1>2. ids.pc = "write" /\ UNCHANGED <<counter, call, raced, bare>>
  BY DEF Accts!IdsWrite
<1>3. There(u) /\ u \in AccountUsers /\ Document(users[u]) /\ "none" \notin AccountUsers
  BY <1>2, AccountAssumption DEF AccountInv, AccountTypes, There
<1>4. /\ next.pc \in {"idle", "next"} /\ next.left = ids.left /\ next.user = "none" /\ next.number = ids.number
      /\ next = [pc |-> next.pc, left |-> next.left, user |-> next.user, prefix |-> next.prefix,
                 known |-> next.known, number |-> next.number, attempt |-> next.attempt]
  <2>. DEFINE to == IF ids.left = {} THEN "idle" ELSE "next"
  <2>2. to \in {"idle", "next"}
    OBVIOUS
  <2>. HIDE DEF to
  <2>3. next = [ids EXCEPT !.pc = to, !.user = "none"]
    BY DEF to
  <2>. HIDE DEF next
  <2>. QED BY <1>1, <2>2, <2>3, IdsPassed
<1>. HIDE DEF next
<1>5. "none" \notin ids.left
  BY <1>1, <1>3 DEF There
<1>6. CASE Accts!IdTaken(id, u)
  <2>1. /\ UNCHANGED users
        /\ ids' = IF ids.attempt + 1 = MaxAttempts THEN next
                  ELSE [ids EXCEPT !.pc = "number", !.attempt = @ + 1]
    BY <1>6 DEF Accts!IdsWrite, next
  <2>2. /\ ids' = [pc |-> ids'.pc, left |-> ids'.left, user |-> ids'.user, prefix |-> ids'.prefix,
                   known |-> ids'.known, number |-> ids'.number, attempt |-> ids'.attempt]
        /\ ids'.left = ids.left /\ ids'.number = ids.number
        /\ \/ ids'.pc \in {"idle", "next"} /\ ids'.user = "none"
           \/ ids'.pc = "number" /\ ids'.user = u
    BY <1>1, <1>4, <2>1
  <2>3. \A o \in Orgs : counter[o] <= counter'[o]
    BY <1>1, <1>2
  <2>. HIDE DEF AccountInv
  <2>. QED BY <1>1, <1>2, <1>3, <1>5, <2>1, <2>2, <2>3, IdsKeeps
<1>7. CASE ~Accts!IdTaken(id, u)
  <2>. DEFINE d == [users[u] EXCEPT !.id = id]
  <2>1. users' = [users EXCEPT ![u].id = id] /\ ids' = next
    BY <1>7 DEF Accts!IdsWrite, next
  <2>2. users' = [users EXCEPT ![u] = d]
    BY <2>1
  <2>3. /\ Document(d) /\ d.org = users[u].org /\ d.role = users[u].role /\ d.mail = users[u].mail
        /\ d.pin = users[u].pin /\ d.id = id
    BY <1>1, <1>3 DEF Document
  <2>. HIDE DEF d
  <2>4. id[2] = ids.number /\ 0 < ids.number /\ ids.number <= counter[users[u].org] /\ id # Accts!NoId
    BY <1>2 DEF AccountInv, NumbersApart, Accts!NoId
  <2>5. DOMAIN call' = Callers /\ \A c \in Callers : call'[c] = call[c]
    BY <1>2, CallKnown DEF AccountInv, AccountTypes
  <2>6. u \notin raced => \A c \in Callers : Holds(c)' => call[c].user # u
    BY <1>2 DEF AccountInv, OneHolder, Holds
  <2>7. \A c \in Callers : DrawnOf(call'[c]) # Accts!NoId /\ call'[c].copy.org = d.org =>
               d.id[2] # DrawnOf(call'[c])[2]
    BY <1>2, <2>3, <2>4, <2>5 DEF AccountInv, NumbersApart
  <2>8. \/ u \in raced \union bare'
        \/ IF d.role = "OPERATOR" THEN d.id # Accts!NoId ELSE d.mail # Accts!NoMail /\ ~d.pin
    <3>1. users[u] # Accts!Absent
      BY <1>3 DEF There
    <3>. QED BY <1>2, <1>3, <2>3, <2>4, <3>1 DEF AccountInv, Accts!CredentialsFitRole
  <2>9. \A v \in AccountUsers \ {u} : v \in bare => v \in bare'
    BY <1>2
  <2>. HIDE DEF id, AccountInv
  <2>. QED BY <1>1, <1>2, <1>3, <1>4, <1>5, <2>1, <2>2, <2>3, <2>4, <2>5, <2>6, <2>7, <2>8, <2>9, WriteKeeps
<1>. QED BY <1>6, <1>7

\* Every step of the accounts keeps the invariant.
LEMMA AccountStep == AccountInv /\ [Accts!Next]_(Accts!vars) => AccountInv'
<1>. SUFFICES ASSUME AccountInv, [Accts!Next]_(Accts!vars) PROVE AccountInv'
  OBVIOUS
<1>1. CASE UNCHANGED <<counter, users, call, ids, raced, bare>>
  BY <1>1 DEF AccountInv, AccountTypes, OneHolder, AllFitting, NumbersApart, Accts!CredentialsFitRole,
     There, Holds, Fitting, DrawnOf, Accts!Over, CallOK, Document, Fields
<1>2. ASSUME NEW c \in Callers, NEW o \in Orgs, NEW role \in {"OPERATOR", "ORGANIZATION_ADMIN"}, NEW mail,
             Accts!Create(c, o, role, mail)
      PROVE  AccountInv'
  BY <1>2, CreateKeeps
<1>3. ASSUME NEW c \in Callers, NEW u \in AccountUsers, NEW body \in Accts!Bodies, Accts!Update(c, u, body)
      PROVE  AccountInv'
  BY <1>3, UpdateKeeps
<1>4. ASSUME NEW c \in Callers, NEW u \in AccountUsers,
             \/ \E role \in {"OPERATOR", "ORGANIZATION_ADMIN"} : Accts!SetRole(c, u, role)
             \/ \E status \in 0..2 : Accts!SetStatus(c, u, status)
      PROVE  AccountInv'
  BY <1>4, SetKeeps
<1>5. ASSUME NEW c \in Callers, Accts!CheckMail(c) \/ Accts!ReadCompany(c) PROVE AccountInv'
  BY <1>5, LookKeeps
<1>6. ASSUME NEW c \in Callers, Accts!DrawNumber(c) PROVE AccountInv'
  BY <1>6, DrawKeeps
<1>7. ASSUME NEW c \in Callers, Accts!Insert(c) PROVE AccountInv'
  BY <1>7, AccountInsertKeeps
<1>8. ASSUME NEW c \in Callers, Accts!Save(c) PROVE AccountInv'
  BY <1>8, AccountSaveKeeps
<1>9. ASSUME NEW c \in Callers, Accts!Die(c) PROVE AccountInv'
  BY <1>9, EndKeeps DEF Accts!Die
<1>10. ASSUME NEW o \in Orgs, NEW prefix \in Prefixes, Accts!Rename(o, prefix) PROVE AccountInv'
  BY <1>1, <1>10 DEF Accts!Rename
<1>11. ASSUME Accts!IdsFind PROVE AccountInv'
  BY <1>11, IdsFindKeeps
<1>12. ASSUME NEW u \in AccountUsers, Accts!IdsNext(u) PROVE AccountInv'
  BY <1>12, IdsNextKeeps
<1>13. ASSUME Accts!IdsDraw PROVE AccountInv'
  BY <1>13, IdsDrawKeeps
<1>14. ASSUME Accts!IdsWrite PROVE AccountInv'
  BY <1>14, IdsWriteKeeps
<1>15. CASE UNCHANGED Accts!vars
  BY <1>1, <1>15 DEF Accts!vars
<1>. QED BY <1>2, <1>3, <1>4, <1>5, <1>6, <1>7, <1>8, <1>9, <1>10, <1>11, <1>12, <1>13, <1>14, <1>15
       DEF Accts!Next

\* An id that is given is kept: only who has none is to get one.
LEMMA AccountLife ==
    ASSUME AccountInv, [Accts!Next]_(Accts!vars), NEW u \in AccountUsers \ raced, users[u].id # Accts!NoId
    PROVE  users'[u].id = users[u].id
<1>. DEFINE Kept == users'[u].id = users[u].id
<1>. SUFFICES Kept
  OBVIOUS
<1>1. DOMAIN users = AccountUsers
  BY DEF AccountInv, AccountTypes
<1>2. CASE UNCHANGED users
  BY <1>2
<1>3. ASSUME NEW c \in Callers, Accts!Insert(c) PROVE Kept
  <2>1. CASE UNCHANGED users
    BY <2>1
  <2>2. CASE \E v \in {v \in AccountUsers : users[v] = Accts!Absent} : users' = [users EXCEPT ![v] = call[c].copy]
    <3>1. PICK v \in AccountUsers : users[v] = Accts!Absent /\ users' = [users EXCEPT ![v] = call[c].copy]
      BY <2>2
    <3>2. v # u
      BY <3>1 DEF Accts!Absent
    <3>. QED BY <1>1, <3>1, <3>2
  <2>. QED BY <1>3, <2>1, <2>2 DEF Accts!Insert
<1>4. ASSUME NEW c \in Callers, Accts!Save(c) PROVE Kept
  <2>1. CASE UNCHANGED users
    BY <2>1
  <2>2. CASE users' = [users EXCEPT ![call[c].user] = Accts!Over(users[call[c].user], call[c].changes)]
    <3>1. CASE call[c].user # u
      BY <1>1, <2>2, <3>1
    <3>2. CASE call[c].user = u
      <4>1. Holds(c) /\ ~call[c].new /\ call[c].pc # "idle"
        BY <1>4 DEF Accts!Save, Holds
      <4>2. There(u) /\ users[u] = call[c].copy
        BY <3>2, <4>1 DEF AccountInv, OneHolder
      <4>3. Fields(call[c].changes) /\ Fitting(call[c]) /\ Document(users[u])
        BY <4>1, <4>2, CallKnown DEF CallOK, There
      <4>4. "id" \notin DOMAIN call[c].changes
        BY <4>1, <4>2, <4>3 DEF Fitting
      <4>5. Accts!Over(users[u], call[c].changes).id = users[u].id
        BY <4>3, <4>4, OverFields
      <4>. QED BY <1>1, <2>2, <3>2, <4>5
    <3>. QED BY <3>1, <3>2
  <2>. QED BY <1>4, <2>1, <2>2 DEF Accts!Save
<1>5. ASSUME Accts!IdsWrite PROVE Kept
  <2>1. ids.pc = "write"
    BY <1>5 DEF Accts!IdsWrite
  <2>2. u # ids.user
    BY <2>1 DEF AccountInv, OneHolder
  <2>3. \/ UNCHANGED users
        \/ users' = [users EXCEPT ![ids.user].id = <<ids.prefix, ids.number>>]
    BY <1>5 DEF Accts!IdsWrite
  <2>. QED BY <1>1, <2>2, <2>3
<1>6. \/ UNCHANGED users
      \/ \E c \in Callers : Accts!Insert(c) \/ Accts!Save(c)
      \/ Accts!IdsWrite
  BY DEF Accts!Next, Accts!vars, Accts!Create, Accts!Update, Accts!SetRole, Accts!SetStatus, Accts!Hold,
     Accts!CheckMail, Accts!ReadCompany, Accts!DrawNumber, Accts!Die, Accts!Rename, Accts!IdsFind,
     Accts!IdsNext, Accts!IdsDraw
<1>. QED BY <1>2, <1>3, <1>4, <1>5, <1>6

\* A number that is drawn is new to its organization.
LEMMA AccountEnds == AccountInv => Accts!CredentialsFitRole /\ Accts!NumbersAreFresh
<1>. SUFFICES ASSUME AccountInv PROVE Accts!NumbersAreFresh
  BY DEF AccountInv
<1>1. \A c \in Callers : Accts!Drawn(c) = DrawnOf(call[c])
  BY DEF Accts!Drawn, DrawnOf
<1>. SUFFICES ASSUME NEW c \in Callers, DrawnOf(call[c]) # Accts!NoId
              PROVE  /\ \A u \in AccountUsers : users[u].org = call[c].copy.org => users[u].id # DrawnOf(call[c])
                     /\ \A d \in Callers \ {c} :
                          DrawnOf(call[d]) = DrawnOf(call[c]) => call[d].copy.org # call[c].copy.org
  BY <1>1 DEF Accts!NumbersAreFresh
<1>2. \A u \in AccountUsers : users[u].org = call[c].copy.org => There(u)
  <2>1. call[c].copy.org # "none"
    BY DrawnKnown, AccountAssumption
  <2>. QED BY <2>1 DEF There, Accts!Absent
<1>. QED BY <1>2 DEF AccountInv, NumbersApart

-----------------------------------------------------------------------------
(* Organizations.                                                          *)

\* What an administrator has of his organization, and his name.
OwnerFields == {"name", "company", "country", "contact"}

\* The types of organizations: rows have their fields, an administrator has a name, and
\* so has whoever edits his own profile.
CompanyTypes ==
    /\ DOMAIN org = {"company", "country", "contact", "status"} /\ DOMAIN admin = OwnerFields
    /\ DOMAIN edit = Editors
    /\ \A c \in Editors :
         /\ edit[c] = [pc |-> edit[c].pc, held |-> edit[c].held, body |-> edit[c].body,
                       crossed |-> edit[c].crossed]
         /\ edit[c].pc \in {"idle", "admin", "save", "cascade", "profile"}
         /\ edit[c].pc = "admin" => DOMAIN edit[c].body = OwnerFields
         /\ edit[c].pc # "idle" /\ "name" \in DOMAIN edit[c].body => edit[c].body["name"] # "none"
         /\ edit[c].pc = "profile" => admin # Companies!NoOne
    /\ admin # Companies!NoOne => admin["name"] # "none"
    /\ apart \subseteq Companies!Shared

\* Two requests in flight with a field in common know so.
Crossing ==
    \A c, d \in Editors : c # d /\ Companies!Busy(c) /\ Companies!Busy(d) =>
        DOMAIN edit[c].body \intersect DOMAIN edit[d].body \subseteq edit[c].crossed

\* Nobody but a request changes a field that no other one in flight has.
Alone ==
    \A c \in Editors : \A f \in (DOMAIN edit[c].body \ edit[c].crossed) \intersect Companies!Shared :
        /\ edit[c].pc = "save" => edit[c].held[f] = org[f]
        /\ edit[c].pc = "cascade" => org[f] = edit[c].body[f]

\* A field that a request is about to copy and another one has had, may differ, or the
\* other one is about to make it differ.
Unsettled ==
    \A c \in Editors : edit[c].pc = "cascade" =>
        \A f \in DOMAIN edit[c].body \intersect edit[c].crossed \intersect Companies!Shared :
            \/ f \in apart
            \/ \E d \in Editors : /\ d # c /\ edit[d].pc \in {"admin", "save", "profile"}
                                  /\ f \in DOMAIN edit[d].body

\* The inductive invariant of organizations.
CompanyInv == CompanyTypes /\ Crossing /\ Alone /\ Unsettled /\ Companies!Mirrored

\* Organizations start in the invariant.
LEMMA CompanyStart == Companies!Init => CompanyInv
<1>. SUFFICES ASSUME Companies!Init PROVE CompanyInv
  OBVIOUS
<1>. USE DEF Companies!Init, Companies!Idle
<1>1. CompanyTypes
  BY DEF CompanyTypes, OwnerFields, Companies!NoOrg, Companies!NoOne
<1>2. Crossing /\ Alone /\ Unsettled
  BY DEF Crossing, Alone, Unsettled, Companies!Busy
<1>3. Companies!Mirrored
  BY DEF Companies!Mirrored
<1>. QED BY <1>1, <1>2, <1>3 DEF CompanyInv

\* A body keeps its fields when its country is looked up, but perhaps the country.
LEMMA NormalizedFields ==
    ASSUME NEW body
    PROVE  /\ DOMAIN Companies!Normalized(body) \subseteq DOMAIN body
           /\ "name" \in DOMAIN Companies!Normalized(body) =>
                Companies!Normalized(body)["name"] = body["name"]
  BY DEF Companies!Normalized, Companies!Without

\* What a request does that begins: it is the only one that begins, and it and the
\* others learn what they have in common.
LEMMA CompanyBegins ==
    ASSUME CompanyInv, NEW c \in Editors, NEW pc, NEW h, NEW b, Companies!Begin(c, pc, h, b)
    PROVE  /\ edit[c].pc = "idle" /\ DOMAIN edit' = Editors
           /\ edit'[c] = [pc |-> pc, held |-> h, body |-> b, crossed |-> edit'[c].crossed]
           /\ \A d \in Editors \ {c} :
                /\ edit'[d] = [pc |-> edit[d].pc, held |-> edit[d].held, body |-> edit[d].body,
                               crossed |-> edit'[d].crossed]
                /\ edit[d].crossed \subseteq edit'[d].crossed
                /\ edit'[d].crossed \subseteq edit[d].crossed \union (DOMAIN b \intersect DOMAIN edit[d].body)
                /\ edit[d].pc # "idle" => /\ DOMAIN b \intersect DOMAIN edit[d].body \subseteq edit'[c].crossed
                                          /\ DOMAIN b \intersect DOMAIN edit[d].body \subseteq edit'[d].crossed
<1>. DEFINE with(d) == DOMAIN b \intersect DOMAIN edit[d].body
            others == {d \in Editors : d # c /\ Companies!Busy(d)}
<1>1. /\ ~Companies!Busy(c)
      /\ edit' = [d \in Editors |->
             IF d = c THEN [pc |-> pc, held |-> h, body |-> b, crossed |-> UNION {with(e) : e \in others}]
             ELSE IF d \in others THEN [edit[d] EXCEPT !.crossed = @ \union with(d)] ELSE edit[d]]
  BY DEF Companies!Begin
<1>2. edit[c].pc = "idle" /\ DOMAIN edit' = Editors
  BY <1>1 DEF Companies!Busy
<1>3. edit'[c] = [pc |-> pc, held |-> h, body |-> b, crossed |-> UNION {with(e) : e \in others}]
  BY <1>1
<1>4. ASSUME NEW d \in Editors \ {c}
      PROVE  /\ edit'[d] = [pc |-> edit[d].pc, held |-> edit[d].held, body |-> edit[d].body,
                            crossed |-> edit'[d].crossed]
             /\ edit[d].crossed \subseteq edit'[d].crossed
             /\ edit'[d].crossed \subseteq edit[d].crossed \union with(d)
             /\ edit[d].pc # "idle" => with(d) \subseteq edit'[c].crossed /\ with(d) \subseteq edit'[d].crossed
  <2>1. edit'[d] = IF d \in others THEN [edit[d] EXCEPT !.crossed = @ \union with(d)] ELSE edit[d]
    BY <1>1
  <2>2. edit[d] = [pc |-> edit[d].pc, held |-> edit[d].held, body |-> edit[d].body,
                   crossed |-> edit[d].crossed]
    BY DEF CompanyInv, CompanyTypes
  <2>. HIDE DEF with
  <2>3. CASE d \in others
    <3>1. edit'[d] = [pc |-> edit[d].pc, held |-> edit[d].held, body |-> edit[d].body,
                      crossed |-> edit[d].crossed \union with(d)]
      BY <2>1, <2>2, <2>3
    <3>2. with(d) \subseteq UNION {with(e) : e \in others}
      BY <2>3
    <3>. QED BY <1>3, <3>1, <3>2
  <2>4. CASE d \notin others
    BY <2>1, <2>2, <2>4 DEF Companies!Busy
  <2>. QED BY <2>3, <2>4
<1>. QED BY <1>2, <1>3, <1>4

\* A request that begins keeps the invariant, if its body has its fields and what it has
\* read of the row it is about to write is current.
LEMMA CompanyBeginKeeps ==
    ASSUME CompanyInv, NEW c \in Editors, NEW pc \in {"admin", "save", "profile"}, NEW h, NEW b,
           Companies!Begin(c, pc, h, b), UNCHANGED <<admin, apart>>,
           DOMAIN org' = DOMAIN org,
           pc = "save" => h = org,
           pc # "admin" => org' = org,
           \A f \in Companies!Shared : f \in DOMAIN b \/ org'[f] = org[f],
           pc = "admin" => DOMAIN b = OwnerFields,
           "name" \in DOMAIN b => b["name"] # "none",
           pc = "profile" => admin # Companies!NoOne
    PROVE  CompanyInv'
<1>1. /\ edit[c].pc = "idle" /\ DOMAIN edit' = Editors
      /\ edit'[c] = [pc |-> pc, held |-> h, body |-> b, crossed |-> edit'[c].crossed]
      /\ \A d \in Editors \ {c} :
                /\ edit'[d] = [pc |-> edit[d].pc, held |-> edit[d].held, body |-> edit[d].body,
                               crossed |-> edit'[d].crossed]
                /\ edit[d].crossed \subseteq edit'[d].crossed
                /\ edit'[d].crossed \subseteq edit[d].crossed \union (DOMAIN b \intersect DOMAIN edit[d].body)
                /\ edit[d].pc # "idle" => /\ DOMAIN b \intersect DOMAIN edit[d].body \subseteq edit'[c].crossed
                                          /\ DOMAIN b \intersect DOMAIN edit[d].body \subseteq edit'[d].crossed
  BY CompanyBegins
<1>2. /\ edit'[c].pc = pc /\ edit'[c].held = h /\ edit'[c].body = b
      /\ \A d \in Editors \ {c} : /\ edit'[d].pc = edit[d].pc /\ edit'[d].held = edit[d].held
                                  /\ edit'[d].body = edit[d].body
  BY <1>1
<1>3. CompanyTypes'
  BY <1>1, <1>2 DEF CompanyInv, CompanyTypes
<1>4. Crossing'
  <2>. SUFFICES ASSUME NEW d \in Editors, NEW e \in Editors, d # e, edit'[d].pc # "idle", edit'[e].pc # "idle",
                       NEW f \in DOMAIN edit'[d].body \intersect DOMAIN edit'[e].body
                PROVE  f \in edit'[d].crossed
    BY DEF Crossing, Companies!Busy
  <2>1. CASE d = c
    BY <1>1, <1>2, <2>1
  <2>2. CASE e = c
    BY <1>1, <1>2, <2>2
  <2>3. CASE d # c /\ e # c
    BY <1>1, <1>2, <2>3 DEF CompanyInv, Crossing, Companies!Busy
  <2>. QED BY <2>1, <2>2, <2>3
<1>5. Alone'
  <2>. SUFFICES ASSUME NEW d \in Editors,
                       NEW f \in (DOMAIN edit'[d].body \ edit'[d].crossed) \intersect Companies!Shared
                PROVE  /\ edit'[d].pc = "save" => edit'[d].held[f] = org'[f]
                       /\ edit'[d].pc = "cascade" => org'[f] = edit'[d].body[f]
    BY DEF Alone
  <2>1. CASE d = c
    \* What is read now is current.
    BY <1>2, <2>1 DEF CompanyInv
  <2>2. CASE d # c /\ f \in DOMAIN b
    BY <1>1, <1>2, <2>2
  <2>3. CASE d # c /\ f \notin DOMAIN b
    BY <1>1, <1>2, <2>3 DEF CompanyInv, Alone
  <2>. QED BY <2>1, <2>2, <2>3
<1>6. Unsettled'
  <2>. SUFFICES ASSUME NEW d \in Editors, edit'[d].pc = "cascade",
                       NEW f \in DOMAIN edit'[d].body \intersect edit'[d].crossed \intersect Companies!Shared
                PROVE  \/ f \in apart
                       \/ \E e \in Editors : /\ e # d /\ edit'[e].pc \in {"admin", "save", "profile"}
                                             /\ f \in DOMAIN edit'[e].body
    BY DEF Unsettled
  <2>1. d # c /\ edit[d].pc = "cascade" /\ f \in DOMAIN edit[d].body
    BY <1>2
  <2>2. CASE f \in DOMAIN b
    BY <1>2, <2>1, <2>2
  <2>3. CASE f \notin DOMAIN b
    <3>1. f \in edit[d].crossed
      BY <1>1, <2>1, <2>3
    <3>2. CASE f \in apart
      BY <3>2
    <3>3. CASE f \notin apart
      <4>1. PICK e \in Editors : /\ e # d /\ edit[e].pc \in {"admin", "save", "profile"}
                                 /\ f \in DOMAIN edit[e].body
        BY <2>1, <3>1, <3>3 DEF CompanyInv, Unsettled
      <4>. QED BY <1>1, <1>2, <4>1
    <3>. QED BY <3>2, <3>3
  <2>. QED BY <2>2, <2>3
<1>7. Companies!Mirrored'
  <2>. SUFFICES ASSUME NEW f \in Companies!Shared \ apart
                PROVE  \/ admin = Companies!NoOne \/ admin[f] = org'[f]
                       \/ \E d \in Editors : edit'[d].pc # "idle" /\ f \in DOMAIN edit'[d].body
    BY DEF Companies!Mirrored, Companies!Busy
  <2>1. \/ admin = Companies!NoOne \/ admin[f] = org[f]
        \/ \E d \in Editors : edit[d].pc # "idle" /\ f \in DOMAIN edit[d].body
    BY DEF CompanyInv, Companies!Mirrored, Companies!Busy
  <2>2. CASE f \in DOMAIN b
    BY <1>2, <2>2
  <2>3. CASE f \notin DOMAIN b
    BY <1>1, <1>2, <2>1, <2>3
  <2>. QED BY <2>2, <2>3
<1>. QED BY <1>3, <1>4, <1>5, <1>6, <1>7 DEF CompanyInv

\* A request that ends keeps the invariant, if it has written its own fields only, knows
\* those that others have had may differ, and has left what may not differ the same.
LEMMA CompanyEndKeeps ==
    ASSUME CompanyInv, NEW c \in Editors, edit[c].pc # "idle", Companies!End(c),
           DOMAIN org' = DOMAIN org, DOMAIN admin' = OwnerFields,
           admin' # Companies!NoOne => admin'["name"] # "none",
           admin # Companies!NoOne => admin' # Companies!NoOne,
           apart' \subseteq Companies!Shared,
           \A f \in Companies!Shared : f \in DOMAIN edit[c].body \/ org'[f] = org[f],
           apart \ apart' \subseteq DOMAIN edit[c].body \ edit[c].crossed,
           edit[c].pc \in {"admin", "save", "profile"} =>
               DOMAIN edit[c].body \intersect edit[c].crossed \intersect Companies!Shared \subseteq apart',
           \A f \in Companies!Shared \ apart' :
               \/ admin' = Companies!NoOne \/ admin'[f] = org'[f]
               \/ \E d \in Editors \ {c} : edit[d].pc # "idle" /\ f \in DOMAIN edit[d].body
    PROVE  CompanyInv'
<1>1. DOMAIN edit = Editors /\ edit' = [edit EXCEPT ![c] = Companies!Idle]
  BY DEF CompanyInv, CompanyTypes, Companies!End
<1>2. /\ edit'[c] = Companies!Idle /\ DOMAIN edit' = Editors
      /\ \A d \in Editors \ {c} : edit'[d] = edit[d]
  BY <1>1
<1>3. Companies!Idle.pc = "idle" /\ DOMAIN Companies!Idle.body = {}
      /\ Companies!Idle = [pc |-> Companies!Idle.pc, held |-> Companies!Idle.held,
                           body |-> Companies!Idle.body, crossed |-> Companies!Idle.crossed]
  BY DEF Companies!Idle
<1>4. CompanyTypes'
  <2>. SUFFICES ASSUME NEW d \in Editors
                PROVE  /\ edit'[d] = [pc |-> edit'[d].pc, held |-> edit'[d].held, body |-> edit'[d].body,
                                      crossed |-> edit'[d].crossed]
                       /\ edit'[d].pc \in {"idle", "admin", "save", "cascade", "profile"}
                       /\ edit'[d].pc = "admin" => DOMAIN edit'[d].body = OwnerFields
                       /\ edit'[d].pc # "idle" /\ "name" \in DOMAIN edit'[d].body => edit'[d].body["name"] # "none"
                       /\ edit'[d].pc = "profile" => admin' # Companies!NoOne
    BY <1>2 DEF CompanyInv, CompanyTypes
  <2>1. CASE d = c
    BY <1>2, <1>3, <2>1
  <2>2. CASE d # c
    BY <1>2, <2>2 DEF CompanyInv, CompanyTypes
  <2>. QED BY <2>1, <2>2
<1>5. \A d \in Editors : edit'[d].pc # "idle" => d # c
  BY <1>2, <1>3
<1>6. Crossing'
  BY <1>2, <1>5 DEF CompanyInv, Crossing, Companies!Busy
<1>7. Alone'
  <2>. SUFFICES ASSUME NEW d \in Editors,
                       NEW f \in (DOMAIN edit'[d].body \ edit'[d].crossed) \intersect Companies!Shared
                PROVE  /\ edit'[d].pc = "save" => edit'[d].held[f] = org'[f]
                       /\ edit'[d].pc = "cascade" => org'[f] = edit'[d].body[f]
    BY DEF Alone
  <2>1. CASE edit'[d].pc # "idle"
    <3>1. d # c /\ edit'[d] = edit[d]
      BY <1>2, <1>5, <2>1
    <3>2. f \notin DOMAIN edit[c].body
      BY <2>1, <3>1 DEF CompanyInv, Crossing, Companies!Busy
    <3>. QED BY <3>1, <3>2 DEF CompanyInv, Alone
  <2>. QED BY <2>1
<1>8. Unsettled'
  <2>. SUFFICES ASSUME NEW d \in Editors, edit'[d].pc = "cascade",
                       NEW f \in DOMAIN edit'[d].body \intersect edit'[d].crossed \intersect Companies!Shared
                PROVE  \/ f \in apart'
                       \/ \E e \in Editors : /\ e # d /\ edit'[e].pc \in {"admin", "save", "profile"}
                                             /\ f \in DOMAIN edit'[e].body
    BY DEF Unsettled
  <2>1. d # c /\ edit'[d] = edit[d]
    BY <1>2, <1>5
  <2>2. f \in DOMAIN edit[c].body => f \in edit[c].crossed
    BY <2>1 DEF CompanyInv, Crossing, Companies!Busy
  <2>3. CASE f \in apart
    BY <2>2, <2>3
  <2>4. CASE f \notin apart
    <3>1. PICK e \in Editors : /\ e # d /\ edit[e].pc \in {"admin", "save", "profile"}
                               /\ f \in DOMAIN edit[e].body
      BY <2>1, <2>4 DEF CompanyInv, Unsettled
    <3>2. CASE e = c
      BY <2>2, <3>1, <3>2
    <3>3. CASE e # c
      BY <1>2, <3>1, <3>3
    <3>. QED BY <3>2, <3>3
  <2>. QED BY <2>3, <2>4
<1>9. Companies!Mirrored'
  BY <1>2 DEF Companies!Mirrored, Companies!Busy
<1>. QED BY <1>4, <1>6, <1>7, <1>8, <1>9 DEF CompanyInv

\* The administrator's row is inserted with the fields of the organization, but those
\* that are known to differ.
LEMMA InsertAdminKeeps ==
    ASSUME CompanyInv, NEW c \in Editors, Companies!InsertAdmin(c)
    PROVE  CompanyInv'
<1>1. /\ edit[c].pc = "admin" /\ admin' = edit[c].body /\ UNCHANGED org
      /\ apart' = apart \union (({f \in Companies!Shared : edit[c].body[f] # org[f]} \union edit[c].crossed)
                                \intersect Companies!Shared)
      /\ Companies!End(c)
  BY DEF Companies!InsertAdmin, Companies!Differ
<1>2. DOMAIN admin' = OwnerFields /\ admin'["name"] # "none" /\ admin' # Companies!NoOne
  BY <1>1 DEF CompanyInv, CompanyTypes, OwnerFields, Companies!NoOne
<1>3. apart \subseteq Companies!Shared
  BY DEF CompanyInv, CompanyTypes
<1>. HIDE DEF CompanyInv
<1>. QED BY <1>1, <1>2, <1>3, CompanyEndKeeps

\* The organization is saved: fields that others have had may differ now, and the others
\* of the body are what the body says.
LEMMA CompanySaveKeeps ==
    ASSUME CompanyInv, NEW c \in Editors, Companies!Save(c)
    PROVE  CompanyInv'
<1>1. /\ edit[c].pc = "save" /\ org' = Companies!Written(org, edit[c].held, edit[c].body) /\ UNCHANGED admin
      /\ apart' = apart \union (edit[c].crossed \intersect Companies!Shared)
      /\ IF DOMAIN edit[c].body \intersect {"name", "country", "contact", "company"} = {} THEN Companies!End(c)
         ELSE edit' = [edit EXCEPT ![c].pc = "cascade"]
  BY DEF Companies!Save, Companies!Differ, Companies!Cascaded
<1>2. /\ DOMAIN org' = DOMAIN org /\ Companies!Shared \subseteq DOMAIN org
      /\ \A f \in Companies!Shared :
           org'[f] = IF f \in DOMAIN edit[c].body /\ edit[c].body[f] # edit[c].held[f]
                     THEN edit[c].body[f] ELSE org[f]
  BY <1>1 DEF CompanyInv, CompanyTypes, Companies!Written, Companies!Shared
<1>3. /\ DOMAIN edit = Editors /\ apart \subseteq Companies!Shared /\ DOMAIN admin = OwnerFields
      /\ admin # Companies!NoOne => admin["name"] # "none"
      /\ edit[c] = [pc |-> edit[c].pc, held |-> edit[c].held, body |-> edit[c].body, crossed |-> edit[c].crossed]
  BY DEF CompanyInv, CompanyTypes
<1>4. ASSUME NEW f \in Companies!Shared \ apart', f \notin DOMAIN edit[c].body
      PROVE  \/ admin' = Companies!NoOne \/ admin'[f] = org'[f]
             \/ \E d \in Editors \ {c} : edit[d].pc # "idle" /\ f \in DOMAIN edit[d].body
  BY <1>1, <1>2, <1>4 DEF CompanyInv, Companies!Mirrored, Companies!Busy
<1>5. CASE DOMAIN edit[c].body \intersect {"name", "country", "contact", "company"} = {}
  <2>1. \A f \in Companies!Shared : f \notin DOMAIN edit[c].body
    BY <1>5 DEF Companies!Shared
  <2>. HIDE DEF CompanyInv
  <2>. QED BY <1>1, <1>2, <1>3, <1>4, <1>5, <2>1, CompanyEndKeeps
<1>6. CASE DOMAIN edit[c].body \intersect {"name", "country", "contact", "company"} # {}
  <2>1. /\ DOMAIN edit' = Editors
        /\ edit'[c] = [pc |-> "cascade", held |-> edit[c].held, body |-> edit[c].body, crossed |-> edit[c].crossed]
        /\ \A d \in Editors \ {c} : edit'[d] = edit[d]
    BY <1>1, <1>3, <1>6
  <2>2. /\ edit'[c].pc = "cascade"
        /\ \A d \in Editors : /\ edit'[d].body = edit[d].body /\ edit'[d].crossed = edit[d].crossed
                              /\ edit'[d].held = edit[d].held
                              /\ edit'[d].pc = "idle" <=> edit[d].pc = "idle"
    BY <1>1, <2>1
  <2>3. CompanyTypes'
    <3>1. apart' \subseteq Companies!Shared /\ DOMAIN org' = {"company", "country", "contact", "status"}
      BY <1>1, <1>2, <1>3 DEF CompanyInv, CompanyTypes
    <3>2. ASSUME NEW d \in Editors
          PROVE  /\ edit'[d] = [pc |-> edit'[d].pc, held |-> edit'[d].held, body |-> edit'[d].body,
                                crossed |-> edit'[d].crossed]
                 /\ edit'[d].pc \in {"idle", "admin", "save", "cascade", "profile"}
                 /\ edit'[d].pc = "admin" => DOMAIN edit'[d].body = OwnerFields
                 /\ edit'[d].pc # "idle" /\ "name" \in DOMAIN edit'[d].body => edit'[d].body["name"] # "none"
                 /\ edit'[d].pc = "profile" => admin' # Companies!NoOne
      <4>1. CASE d = c
        BY <1>1, <2>1, <4>1 DEF CompanyInv, CompanyTypes
      <4>2. CASE d # c
        BY <1>1, <2>1, <4>2 DEF CompanyInv, CompanyTypes
      <4>. QED BY <4>1, <4>2
    <3>. QED BY <1>1, <1>3, <2>1, <3>1, <3>2 DEF CompanyTypes
  <2>4. Crossing'
    BY <2>2 DEF CompanyInv, Crossing, Companies!Busy
  <2>5. Alone'
    <3>. SUFFICES ASSUME NEW d \in Editors,
                         NEW f \in (DOMAIN edit'[d].body \ edit'[d].crossed) \intersect Companies!Shared
                  PROVE  /\ edit'[d].pc = "save" => edit'[d].held[f] = org'[f]
                         /\ edit'[d].pc = "cascade" => org'[f] = edit'[d].body[f]
      BY DEF Alone
    <3>1. CASE d = c
      BY <1>1, <1>2, <2>1, <3>1 DEF CompanyInv, Alone
    <3>2. CASE d # c /\ edit[d].pc # "idle"
      <4>1. f \notin DOMAIN edit[c].body
        BY <1>1, <2>2, <3>2 DEF CompanyInv, Crossing, Companies!Busy
      <4>. QED BY <1>2, <2>1, <3>2, <4>1 DEF CompanyInv, Alone
    <3>3. CASE edit[d].pc = "idle"
      BY <2>2, <3>3
    <3>. QED BY <3>1, <3>2, <3>3
  <2>6. Unsettled'
    <3>. SUFFICES ASSUME NEW d \in Editors, edit'[d].pc = "cascade",
                         NEW f \in DOMAIN edit'[d].body \intersect edit'[d].crossed \intersect Companies!Shared
                  PROVE  \/ f \in apart'
                         \/ \E e \in Editors : /\ e # d /\ edit'[e].pc \in {"admin", "save", "profile"}
                                               /\ f \in DOMAIN edit'[e].body
      BY DEF Unsettled
    <3>1. CASE d = c
      BY <1>1, <2>1, <3>1
    <3>2. CASE d # c /\ f \notin apart
      <4>1. PICK e \in Editors : /\ e # d /\ edit[e].pc \in {"admin", "save", "profile"}
                                 /\ f \in DOMAIN edit[e].body
        BY <2>1, <3>2 DEF CompanyInv, Unsettled
      <4>2. CASE e = c
        \* Then it was crossed, and is apart now.
        BY <1>1, <2>1, <3>2, <4>1, <4>2 DEF CompanyInv, Crossing, Companies!Busy
      <4>3. CASE e # c
        BY <2>1, <4>1, <4>3
      <4>. QED BY <4>2, <4>3
    <3>3. CASE f \in apart
      BY <1>1, <3>3
    <3>. QED BY <3>1, <3>2, <3>3
  <2>7. Companies!Mirrored'
    <3>. SUFFICES ASSUME NEW f \in Companies!Shared \ apart'
                  PROVE  \/ admin' = Companies!NoOne \/ admin'[f] = org'[f]
                         \/ \E d \in Editors : edit'[d].pc # "idle" /\ f \in DOMAIN edit'[d].body
      BY DEF Companies!Mirrored, Companies!Busy
    <3>1. CASE f \in DOMAIN edit[c].body
      BY <2>1, <3>1
    <3>2. CASE f \notin DOMAIN edit[c].body
      BY <1>4, <2>2, <3>2
    <3>. QED BY <3>1, <3>2
  <2>. QED BY <2>3, <2>4, <2>5, <2>6, <2>7 DEF CompanyInv
<1>. QED BY <1>5, <1>6

\* The administrator gets the fields: those that nobody else had are the organization's.
LEMMA CascadeKeeps ==
    ASSUME CompanyInv, NEW c \in Editors, Companies!Cascade(c)
    PROVE  CompanyInv'
<1>. DEFINE set == Companies!AdminSet(edit[c].body)
<1>1. /\ edit[c].pc = "cascade" /\ UNCHANGED org
      /\ admin' = IF admin = Companies!NoOne THEN admin
                  ELSE [f \in DOMAIN admin |-> IF f \in DOMAIN set THEN set[f] ELSE admin[f]]
      /\ apart' = apart \ (DOMAIN edit[c].body \ edit[c].crossed)
      /\ Companies!End(c)
  BY DEF Companies!Cascade, Companies!Same
<1>2. /\ DOMAIN admin = OwnerFields /\ apart \subseteq Companies!Shared
      /\ admin # Companies!NoOne => admin["name"] # "none"
      /\ "name" \in DOMAIN edit[c].body => edit[c].body["name"] # "none"
  BY <1>1 DEF CompanyInv, CompanyTypes
<1>3. /\ DOMAIN set = DOMAIN edit[c].body \intersect {"name", "country", "contact", "company"}
      /\ \A f \in DOMAIN set : set[f] = edit[c].body[f]
  BY DEF Companies!AdminSet, Companies!Cascaded
<1>. HIDE DEF set
<1>4. DOMAIN admin' = OwnerFields
  BY <1>1, <1>2
<1>5. admin # Companies!NoOne =>
        /\ \A f \in OwnerFields : admin'[f] = IF f \in DOMAIN edit[c].body THEN edit[c].body[f] ELSE admin[f]
        /\ admin'["name"] # "none" /\ admin' # Companies!NoOne
  <2>. SUFFICES ASSUME admin # Companies!NoOne
                PROVE  /\ \A f \in OwnerFields : admin'[f] = IF f \in DOMAIN edit[c].body THEN edit[c].body[f] ELSE admin[f]
                       /\ admin'["name"] # "none" /\ admin' # Companies!NoOne
    OBVIOUS
  <2>1. \A f \in OwnerFields : admin'[f] = IF f \in DOMAIN edit[c].body THEN edit[c].body[f] ELSE admin[f]
    BY <1>1, <1>2, <1>3 DEF OwnerFields
  <2>2. admin'["name"] # "none"
    BY <1>2, <2>1 DEF OwnerFields
  <2>. QED BY <2>1, <2>2 DEF Companies!NoOne
<1>6. ASSUME NEW f \in Companies!Shared \ apart'
      PROVE  \/ admin' = Companies!NoOne \/ admin'[f] = org'[f]
             \/ \E d \in Editors \ {c} : edit[d].pc # "idle" /\ f \in DOMAIN edit[d].body
  <2>1. CASE admin = Companies!NoOne
    BY <1>1, <2>1
  <2>2. CASE admin # Companies!NoOne /\ f \in DOMAIN edit[c].body \ edit[c].crossed
    BY <1>1, <1>5, <2>2 DEF CompanyInv, Alone, OwnerFields, Companies!Shared
  <2>3. CASE admin # Companies!NoOne /\ f \in DOMAIN edit[c].body /\ f \in edit[c].crossed
    BY <1>1, <2>3 DEF CompanyInv, Unsettled
  <2>4. CASE admin # Companies!NoOne /\ f \notin DOMAIN edit[c].body
    <3>1. \/ admin[f] = org[f]
          \/ \E d \in Editors : edit[d].pc # "idle" /\ f \in DOMAIN edit[d].body
      BY <1>1, <2>4 DEF CompanyInv, Companies!Mirrored, Companies!Busy
    <3>2. admin'[f] = admin[f]
      BY <1>5, <2>4 DEF OwnerFields, Companies!Shared
    <3>. QED BY <1>1, <2>4, <3>1, <3>2
  <2>. QED BY <2>1, <2>2, <2>3, <2>4
<1>7. admin' # Companies!NoOne => admin'["name"] # "none"
  BY <1>1, <1>5
<1>8. /\ apart' \subseteq Companies!Shared
      /\ apart \ apart' \subseteq DOMAIN edit[c].body \ edit[c].crossed
  BY <1>1, <1>2
<1>. HIDE DEF CompanyInv
<1>. QED BY <1>1, <1>4, <1>5, <1>6, <1>7, <1>8, CompanyEndKeeps

\* A second write that does not happen leaves its fields apart.
LEMMA CompanyFailKeeps ==
    ASSUME CompanyInv, NEW c \in Editors, Companies!Fail(c)
    PROVE  CompanyInv'
<1>1. /\ edit[c].pc \in {"admin", "cascade"} /\ UNCHANGED <<org, admin>> /\ Companies!End(c)
      /\ apart' = apart \union (DOMAIN edit[c].body \intersect Companies!Shared)
  BY DEF Companies!Fail, Companies!Differ
<1>2. /\ DOMAIN admin = OwnerFields /\ apart \subseteq Companies!Shared
      /\ admin # Companies!NoOne => admin["name"] # "none"
  BY DEF CompanyInv, CompanyTypes
<1>3. \A f \in Companies!Shared \ apart' :
           \/ admin' = Companies!NoOne \/ admin'[f] = org'[f]
           \/ \E d \in Editors \ {c} : edit[d].pc # "idle" /\ f \in DOMAIN edit[d].body
  BY <1>1 DEF CompanyInv, Companies!Mirrored, Companies!Busy
<1>. HIDE DEF CompanyInv
<1>. QED BY <1>1, <1>2, <1>3, CompanyEndKeeps

\* So do the administrator's own edits.
LEMMA SaveProfileKeeps ==
    ASSUME CompanyInv, NEW c \in Editors, Companies!SaveProfile(c)
    PROVE  CompanyInv'
<1>1. /\ edit[c].pc = "profile" /\ UNCHANGED org /\ Companies!End(c)
      /\ admin' = Companies!Written(admin, edit[c].held, edit[c].body)
      /\ apart' = apart \union (DOMAIN edit[c].body \intersect Companies!Shared)
  BY DEF Companies!SaveProfile, Companies!Differ
<1>2. /\ DOMAIN admin = OwnerFields /\ apart \subseteq Companies!Shared
      /\ admin # Companies!NoOne /\ admin["name"] # "none"
      /\ "name" \in DOMAIN edit[c].body => edit[c].body["name"] # "none"
  BY <1>1 DEF CompanyInv, CompanyTypes
<1>3. /\ DOMAIN admin' = OwnerFields
      /\ \A f \in OwnerFields : admin'[f] = IF f \in DOMAIN edit[c].body /\ edit[c].body[f] # edit[c].held[f]
                                            THEN edit[c].body[f] ELSE admin[f]
  BY <1>1, <1>2 DEF Companies!Written
<1>4. admin'["name"] # "none" /\ admin' # Companies!NoOne
  <2>1. admin'["name"] # "none"
    BY <1>2, <1>3 DEF OwnerFields
  <2>. QED BY <2>1 DEF Companies!NoOne
<1>5. ASSUME NEW f \in Companies!Shared \ apart'
      PROVE  \/ admin'[f] = org'[f]
             \/ \E d \in Editors \ {c} : edit[d].pc # "idle" /\ f \in DOMAIN edit[d].body
  <2>1. f \notin DOMAIN edit[c].body /\ admin'[f] = admin[f]
    BY <1>1, <1>3 DEF OwnerFields, Companies!Shared
  <2>. QED BY <1>1, <1>2, <2>1
         DEF CompanyInv, Companies!Mirrored, Companies!Busy
<1>. HIDE DEF CompanyInv
<1>. QED BY <1>1, <1>2, <1>3, <1>4, <1>5, CompanyEndKeeps

\* Every step keeps the invariant of organizations.
LEMMA CompanyStep == CompanyInv /\ [Companies!Next]_(Companies!vars) => CompanyInv'
<1>. SUFFICES ASSUME CompanyInv, [Companies!Next]_(Companies!vars) PROVE CompanyInv'
  OBVIOUS
<1>1. CASE UNCHANGED Companies!vars
  BY <1>1 DEF Companies!vars, CompanyInv, CompanyTypes, Crossing, Alone, Unsettled, Companies!Busy,
     Companies!Mirrored
<1>2. ASSUME NEW c \in Editors, NEW new \in Creations, Companies!Create(c, new) PROVE CompanyInv'
  <2>. DEFINE owner == [new.admin EXCEPT !.country = org'.country]
  <2>1. /\ Companies!Begin(c, "admin", Companies!NoOne, owner) /\ UNCHANGED <<admin, apart>>
        /\ DOMAIN org' = DOMAIN new.org
    BY <1>2 DEF Companies!Create
  <2>2. /\ DOMAIN new.org = {"company", "country", "contact", "status"} /\ DOMAIN new.admin = OwnerFields
        /\ new.admin["name"] # "none"
    BY CompanyAssumption DEF OwnerFields
  <2>3. DOMAIN owner = OwnerFields /\ owner["name"] # "none"
    BY <2>2 DEF OwnerFields
  <2>4. DOMAIN org' = DOMAIN org
    BY <2>1, <2>2 DEF CompanyInv, CompanyTypes
  <2>5. Companies!Shared \subseteq DOMAIN owner
    BY <2>3 DEF OwnerFields, Companies!Shared
  <2>. HIDE DEF owner, CompanyInv
  <2>. QED BY <2>1, <2>3, <2>4, <2>5, CompanyBeginKeeps
<1>3. ASSUME NEW c \in Editors, Companies!InsertAdmin(c) PROVE CompanyInv'
  BY <1>3, InsertAdminKeeps
<1>4. ASSUME NEW c \in Editors, NEW body \in Updates, Companies!Update(c, body) PROVE CompanyInv'
  <2>. DEFINE b == Companies!Normalized(body)
  <2>1. "name" \in DOMAIN b => b["name"] # "none"
    BY NormalizedFields, CompanyAssumption
  <2>2. Companies!Begin(c, "save", org, b) /\ UNCHANGED <<org, admin, apart>>
    BY <1>4 DEF Companies!Update
  <2>. HIDE DEF b, CompanyInv
  <2>. QED BY <2>1, <2>2, CompanyBeginKeeps
<1>5. ASSUME NEW c \in Editors, NEW to \in 0..2, Companies!SetStatus(c, to) PROVE CompanyInv'
  <2>. DEFINE b == [f \in {"status"} |-> to]
  <2>1. "name" \notin DOMAIN b
    OBVIOUS
  <2>2. Companies!Begin(c, "save", org, b) /\ UNCHANGED <<org, admin, apart>>
    BY <1>5 DEF Companies!SetStatus
  <2>. HIDE DEF b, CompanyInv
  <2>. QED BY <2>1, <2>2, CompanyBeginKeeps
<1>6. ASSUME NEW c \in Editors, Companies!Save(c) PROVE CompanyInv'
  BY <1>6, CompanySaveKeeps
<1>7. ASSUME NEW c \in Editors, Companies!Cascade(c) PROVE CompanyInv'
  BY <1>7, CascadeKeeps
<1>8. ASSUME NEW c \in Editors, Companies!Fail(c) PROVE CompanyInv'
  BY <1>8, CompanyFailKeeps
<1>9. ASSUME NEW c \in Editors, NEW body \in Profiles, Companies!EditProfile(c, body) PROVE CompanyInv'
  <2>. DEFINE b == Companies!Normalized(body)
  <2>1. "name" \in DOMAIN b => b["name"] # "none"
    BY NormalizedFields, CompanyAssumption
  <2>2. Companies!Begin(c, "profile", admin, b) /\ UNCHANGED <<org, admin, apart>> /\ admin # Companies!NoOne
    BY <1>9 DEF Companies!EditProfile
  <2>. HIDE DEF b, CompanyInv
  <2>. QED BY <2>1, <2>2, CompanyBeginKeeps
<1>10. ASSUME NEW c \in Editors, Companies!SaveProfile(c) PROVE CompanyInv'
  BY <1>10, SaveProfileKeeps
<1>. QED BY <1>1, <1>2, <1>3, <1>4, <1>5, <1>6, <1>7, <1>8, <1>9, <1>10 DEF Companies!Next

-----------------------------------------------------------------------------
(* Plans.                                                                  *)

\* A plan as it is stored.
Sheet(p) ==
    /\ DOMAIN p = {"name", "price", "discount", "quarterly", "cycle", "currency", "custom", "status", "version"}
    /\ p = [name |-> p.name, price |-> p.price, discount |-> p.discount, quarterly |-> p.quarterly,
            cycle |-> p.cycle, currency |-> p.currency, custom |-> p.custom, status |-> p.status,
            version |-> p.version]
    /\ p.price \in Nat /\ p.discount \in 0..100 /\ p.quarterly \in Nat \union {Keep}
    /\ p.cycle \in {"", "month", "quarterly"} /\ p.currency \in {"inr", "usd"}
    /\ p.status \in 0..2 /\ p.version \in Nat

\* A request that has read a plan and has not written it.
Editing(r) ==
    /\ r = [op |-> r.op, id |-> r.id, plan |-> r.plan, body |-> r.body] /\ r.op \in {"check", "save"}
    /\ r.body \in Edits

\* A request is idle, creates a plan, or edits one that is there.
PlanTypes ==
    /\ DOMAIN plans = PlanIds /\ DOMAIN override = PlanIds /\ DOMAIN planCall = Callers
    /\ \A i \in PlanIds : plans[i] = Catalog!NoPlan \/ Sheet(plans[i])
    /\ \A i \in PlanIds : override[i] \in Nat \union {Keep}
    /\ \A c \in Callers : \/ planCall[c] = Catalog!Idle
                          \/ /\ planCall[c] = [op |-> "create", body |-> planCall[c].body]
                             /\ planCall[c].body \in NewPlans
                          \/ Editing(planCall[c])
    /\ DOMAIN migration \subseteq Catalog!Present /\ crossed \subseteq Catalog!Present
    /\ planRequests \in 0..MaxPlanRequests

\* A copy of a plan is of an earlier version, or it is what is stored, but for the cycle that
\* a migration may have filled in.
Copy(p, i) ==
    /\ i \in Catalog!Present /\ Sheet(p) /\ p.version <= plans[i].version
    /\ p.version = plans[i].version =>
         /\ p.name = plans[i].name /\ p.price = plans[i].price /\ p.discount = plans[i].discount
         /\ p.quarterly = plans[i].quarterly /\ p.status = plans[i].status

\* What requests and the migration hold are copies, and a request holds no deleted plan.
Copies ==
    /\ \A c \in Callers : Editing(planCall[c]) =>
         Copy(planCall[c].plan, planCall[c].id) /\ planCall[c].plan.status # 2
    /\ \A i \in DOMAIN migration : Copy(migration[i], i)

\* A quarterly price is as it was given, or follows from the others, or is missing from
\* a plan that is sold by the month.
PriceHolds(p, given) ==
    /\ given # Keep => p.quarterly = given
    /\ given = Keep => LET due == Catalog!computeQuarterlyPrice(p.price, p.discount, Keep)
                       IN p.quarterly = Keep \/ p.quarterly \in due - 2..due + 2
    /\ p.cycle = "quarterly" => p.quarterly # Keep

\* Prices hold in every row on which no two writers met.
PricesHold == \A i \in Catalog!Present \ crossed : PriceHolds(plans[i], override[i])

\* The inductive invariant of the plans.
PlanInv == PlanTypes /\ Copies /\ PricesHold /\ Catalog!NamesAreUnique

\* A plan that is stored is no empty place.
LEMMA SheetIsPlan == ASSUME NEW p, Sheet(p) PROVE p # Catalog!NoPlan
<1>1. "price" \in DOMAIN p
  BY DEF Sheet
<1>2. "price" \notin DOMAIN Catalog!NoPlan
  BY DEF Catalog!NoPlan
<1>. QED BY <1>1, <1>2

\* A record with the fields of a plan is one.
LEMMA SheetOf ==
    ASSUME NEW name, NEW price \in Nat, NEW discount \in 0..100, NEW quarterly \in Nat \union {Keep},
           NEW cycle \in {"", "month", "quarterly"}, NEW currency \in {"inr", "usd"}, NEW custom,
           NEW status \in 0..2, NEW version \in Nat
    PROVE  LET p == [name |-> name, price |-> price, discount |-> discount, cycle |-> cycle, quarterly |-> quarterly,
                     status |-> status, currency |-> currency, custom |-> custom, version |-> version]
           IN  Sheet(p)
<1>. DEFINE p == [name |-> name, price |-> price, discount |-> discount, cycle |-> cycle, quarterly |-> quarterly,
                  status |-> status, currency |-> currency, custom |-> custom, version |-> version]
<1>1. DOMAIN p = {"name", "price", "discount", "quarterly", "cycle", "currency", "custom", "status", "version"}
  OBVIOUS
<1>2. /\ p.price = price /\ p.discount = discount /\ p.quarterly = quarterly /\ p.cycle = cycle
      /\ p.currency = currency /\ p.status = status /\ p.version = version
  OBVIOUS
<1>3. p = [name |-> p.name, price |-> p.price, discount |-> p.discount, quarterly |-> p.quarterly,
           cycle |-> p.cycle, currency |-> p.currency, custom |-> p.custom, status |-> p.status,
           version |-> p.version]
  OBVIOUS
<1>. HIDE DEF p
<1>. QED BY <1>1, <1>2, <1>3, Zenon DEF Sheet, p

\* Versions are numbers.
LEMMA Versions == ASSUME NEW p, Sheet(p) PROVE p.version \in Nat /\ p.version <= p.version
<1>1. p.version \in Nat
  BY Zenon DEF Sheet
<1>. QED BY <1>1

\* Three months less a percentage cost a whole number of cents, within half a cent.
LEMMA DuePrice ==
    ASSUME NEW p \in Nat, NEW d \in 0..100
    PROVE  LET due == Catalog!computeQuarterlyPrice(p, d, Keep) IN
           /\ due \in Nat
           /\ 100 * due <= 3 * (p * (100 - d)) + 50 /\ 3 * (p * (100 - d)) - 50 < 100 * due
           /\ \A g \in Nat \union {Keep} :
                /\ Catalog!computeQuarterlyPrice(p, d, g) \in Nat
                /\ Catalog!computeQuarterlyPrice(p, d, g) = IF g \notin {Keep, 0} THEN g ELSE due
<1>. DEFINE less == p * (100 - d)
            due == Catalog!computeQuarterlyPrice(p, d, Keep)
<1>1. less \in Nat
  <2>1. 100 - d \in Nat
    OBVIOUS
  <2>. QED BY <2>1
<1>2. 300 * p - 3 * p * d = 3 * less
  OBVIOUS
<1>3. due = (3 * less + 50) \div 100
  BY <1>2 DEF Catalog!computeQuarterlyPrice
<1>. HIDE DEF less
<1>4. due \in Nat /\ 100 * due <= 3 * less + 50 /\ 3 * less - 50 < 100 * due
  BY <1>1, <1>3
<1>5. \A g \in Nat \union {Keep} :
        Catalog!computeQuarterlyPrice(p, d, g) = IF g \notin {Keep, 0} THEN g ELSE due
  BY DEF Catalog!computeQuarterlyPrice
<1>. QED BY <1>4, <1>5 DEF less

\* A hundredth of a price is one.
LEMMA Hundredth ==
    ASSUME NEW q \in Nat
    PROVE  /\ Catalog!Rescaled(q) \in Nat /\ 100 * Catalog!Rescaled(q) <= q + 50
           /\ q - 50 < 100 * Catalog!Rescaled(q) /\ Catalog!Rescaled(0) = 0
BY DEF Catalog!Rescaled

\* A price that follows, to two cents, follows when it and the price are rescaled.
LEMMA RescaledFollows ==
    ASSUME NEW p \in Nat, NEW d \in 0..100, NEW q \in Nat,
           LET due == Catalog!computeQuarterlyPrice(p, d, Keep) IN q \in due - 2..due + 2
    PROVE  LET due == Catalog!computeQuarterlyPrice(Catalog!Rescaled(p), d, Keep)
           IN Catalog!Rescaled(q) \in due - 2..due + 2
<1>. DEFINE r == Catalog!Rescaled(p)
            s == Catalog!Rescaled(q)
            D == Catalog!computeQuarterlyPrice(p, d, Keep)
            E == Catalog!computeQuarterlyPrice(r, d, Keep)
            x == p * (100 - d)
            y == r * (100 - d)
<1>1. /\ r \in Nat /\ 100 * r <= p + 50 /\ p - 50 < 100 * r
      /\ s \in Nat /\ 100 * s <= q + 50 /\ q - 50 < 100 * s
  BY Hundredth
<1>2. D \in Nat /\ 100 * D <= 3 * x + 50 /\ 3 * x - 50 < 100 * D
  BY DuePrice
<1>3. E \in Nat /\ 100 * E <= 3 * y + 50 /\ 3 * y - 50 < 100 * E
  BY <1>1, DuePrice
<1>4. /\ x \in Int /\ y \in Int /\ 100 * y - x <= 5000 /\ x - 100 * y <= 5000
  <2>. DEFINE k == 100 - d
              e == 100 * r - p
  <2>. HIDE DEF r
  <2>1. k \in 0..100 /\ e \in Int /\ e <= 50 /\ -50 <= e
    BY <1>1
  <2>2. 100 * y - x = e * k
    BY <1>1
  <2>3. x \in Int /\ y \in Int
    BY <1>1
  <2>. HIDE DEF k, e, x, y
  <2>4. e * k <= 5000 /\ -5000 <= e * k
    <3>1. (50 - e) * k >= 0 /\ (50 + e) * k >= 0
      BY <2>1
    <3>2. (50 - e) * k = 50 * k - e * k /\ (50 + e) * k = 50 * k + e * k
      BY <2>1
    <3>. QED BY <2>1, <3>1, <3>2
  <2>. QED BY <2>2, <2>3, <2>4
<1>. HIDE DEF r, s, D, E, x, y
<1>5. q <= D + 2 /\ D - 2 <= q
  BY <1>2 DEF D
<1>6. E - 2 <= s /\ s <= E + 2
  BY <1>1, <1>2, <1>3, <1>4, <1>5
<1>7. s \in E - 2..E + 2
  BY <1>1, <1>3, <1>6
<1>. QED BY <1>7 DEF s, E, r

\* The plans there are, are stored.
LEMMA PresentPlans ==
    ASSUME PlanTypes
    PROVE  \A i : i \in Catalog!Present <=> i \in PlanIds /\ Sheet(plans[i])
BY SheetIsPlan DEF PlanTypes, Catalog!Present

\* The bound of requests, and the field that is not in a body.
LEMMA PlanBound == MaxPlanRequests \in Nat
BY Zenon, PlanAssumption

\* The mark of a field that is left alone is no number.
LEMMA KeepApart == Keep \notin Nat
BY Zenon, PlanAssumption

\* At first plans are as they were, and nobody holds one.
LEMMA PlanStart == Catalog!Init => PlanInv
<1>. SUFFICES ASSUME Catalog!Init PROVE PlanInv
  OBVIOUS
<1>. USE DEF Catalog!Init
<1>1. \A i \in PlanIds : plans[i] = Catalog!NoPlan \/ plans[i] \in Legacy
  OBVIOUS
<1>2. \A p \in Legacy : Sheet(p) /\ (p.cycle = "quarterly" => p.quarterly # Keep)
  <2>. SUFFICES ASSUME NEW p \in Legacy PROVE Sheet(p) /\ (p.cycle = "quarterly" => p.quarterly # Keep)
    OBVIOUS
  <2>1. p = [name |-> p.name, price |-> p.price, discount |-> p.discount, quarterly |-> p.quarterly,
             cycle |-> p.cycle, currency |-> p.currency, custom |-> p.custom, status |-> p.status,
             version |-> p.version]
    BY PlanAssumption
  <2>2. DOMAIN p = {"name", "price", "discount", "quarterly", "cycle", "currency", "custom", "status", "version"}
    BY <2>1
  <2>3. /\ p.price \in Nat /\ p.discount \in 0..100 /\ p.quarterly \in Nat \union {Keep}
        /\ p.cycle \in {"", "month", "quarterly"} /\ p.currency \in {"inr", "usd"}
        /\ p.status \in 0..2 /\ p.version \in Nat /\ (p.cycle = "quarterly" => p.quarterly # Keep)
    BY PlanAssumption
  <2>. QED BY <2>1, <2>2, <2>3 DEF Sheet
<1>3. \A i \in PlanIds : plans[i] = Catalog!NoPlan \/ Sheet(plans[i])
  BY <1>1, <1>2
<1>4. \A i \in PlanIds : Sheet(plans[i]) =>
        /\ plans[i] # Catalog!NoPlan
        /\ Catalog!computeQuarterlyPrice(plans[i].price, plans[i].discount, Keep) \in Nat
        /\ override[i] = IF plans[i].quarterly = Catalog!computeQuarterlyPrice(plans[i].price, plans[i].discount, Keep)
                         THEN Keep ELSE plans[i].quarterly
  <2>. SUFFICES ASSUME NEW i \in PlanIds, Sheet(plans[i])
                PROVE  /\ plans[i] # Catalog!NoPlan
                       /\ Catalog!computeQuarterlyPrice(plans[i].price, plans[i].discount, Keep) \in Nat
    OBVIOUS
  <2>. QED BY SheetIsPlan, DuePrice DEF Sheet
<1>5. PlanTypes
  <2>1. \A i \in PlanIds : override[i] \in Nat \union {Keep}
    <3>. TAKE i \in PlanIds
    <3>1. CASE plans[i] = Catalog!NoPlan
      BY <3>1
    <3>2. CASE Sheet(plans[i])
      BY <3>2, <1>4 DEF Sheet
    <3>. QED BY <1>3, <3>1, <3>2
  <2>2. \A c \in Callers : planCall[c] = Catalog!Idle
    OBVIOUS
  <2>3. DOMAIN migration = {} /\ planRequests \in 0..MaxPlanRequests
    BY PlanBound
  <2>. QED BY <1>3, <2>1, <2>2, <2>3 DEF PlanTypes
<1>6. Copies
  <2>1. \A c \in Callers : ~Editing(planCall[c])
    BY DEF Editing, Catalog!Idle
  <2>. QED BY <2>1 DEF Copies
<1>7. PricesHold
  <2>. SUFFICES ASSUME NEW i \in Catalog!Present PROVE PriceHolds(plans[i], override[i])
    BY DEF PricesHold
  <2>1. i \in PlanIds /\ Sheet(plans[i]) /\ plans[i] \in Legacy
    BY <1>1, <1>5, PresentPlans, SheetIsPlan
  <2>2. /\ plans[i].cycle = "quarterly" => plans[i].quarterly # Keep
        /\ plans[i].quarterly \in Nat \union {Keep}
        /\ override[i] = IF plans[i].quarterly = Catalog!computeQuarterlyPrice(plans[i].price, plans[i].discount, Keep)
                         THEN Keep ELSE plans[i].quarterly
        /\ Catalog!computeQuarterlyPrice(plans[i].price, plans[i].discount, Keep) \in Nat
    BY <2>1, <1>2, <1>4 DEF Sheet
  <2>. QED BY <2>2 DEF PriceHolds
<1>8. Catalog!NamesAreUnique
  BY DEF Catalog!NamesAreUnique, Catalog!Present, Catalog!planNameTaken
<1>. QED BY <1>5, <1>6, <1>7, <1>8 DEF PlanInv

\* A copy stays one when its plan gets a newer version, or only another cycle.
LEMMA CopyKept ==
    ASSUME NEW p, NEW i, Copy(p, i), PlanTypes, DOMAIN plans' = PlanIds, Sheet(plans'[i]),
           \/ plans'[i].version > plans[i].version
           \/ /\ plans'[i].version = plans[i].version /\ plans'[i].name = plans[i].name
              /\ plans'[i].price = plans[i].price /\ plans'[i].discount = plans[i].discount
              /\ plans'[i].quarterly = plans[i].quarterly /\ plans'[i].status = plans[i].status
    PROVE  Copy(p, i)'
<1>1. i \in PlanIds /\ Sheet(plans[i])
  BY PresentPlans DEF Copy
<1>2. (i \in Catalog!Present)'
  BY <1>1, SheetIsPlan DEF Catalog!Present
<1>3. p.version \in Nat /\ plans[i].version \in Nat /\ plans'[i].version \in Nat
  BY <1>1 DEF Copy, Sheet
<1>. QED BY <1>2, <1>3 DEF Copy

\* Steps that write no plan.
LEMMA PlanUnwritten ==
    ASSUME PlanInv, UNCHANGED <<plans, crossed, nameRaces, override>>, PlanTypes', Copies'
    PROVE  PlanInv'
BY DEF PlanInv, PricesHold, PriceHolds, Catalog!NamesAreUnique, Catalog!Present,
       Catalog!computeQuarterlyPrice

\* A state in which no plan, request or migration moved.
LEMMA PlanRests == ASSUME PlanInv, UNCHANGED Catalog!vars PROVE PlanInv'
<1>. USE DEF Catalog!vars, PlanInv
<1>1. PlanTypes'
  BY DEF PlanTypes, Catalog!Present
<1>2. Copies'
  BY DEF Copies, Copy, Catalog!Present
<1>. QED BY <1>1, <1>2, PlanUnwritten

\* A call of one caller changes, the others' stay.
LEMMA PlanAsked ==
    ASSUME PlanInv, NEW c \in Callers, NEW r,
           planCall' = [planCall EXCEPT ![c] = r],
           \/ r = Catalog!Idle
           \/ r = [op |-> "create", body |-> r.body] /\ r.body \in NewPlans
           \/ Editing(r) /\ Copy(r.plan, r.id) /\ r.plan.status # 2,
           UNCHANGED <<plans, migration, crossed, nameRaces, override>>,
           planRequests' \in 0..MaxPlanRequests
    PROVE  PlanInv'
<1>1. \A d \in Callers : planCall'[d] = IF d = c THEN r ELSE planCall[d]
  BY DEF PlanInv, PlanTypes
<1>2. PlanTypes'
  BY <1>1 DEF PlanInv, PlanTypes, Catalog!Present
<1>3. \A p, i : Copy(p, i) => Copy(p, i)'
  BY DEF Copy, Catalog!Present
<1>4. ~Editing(Catalog!Idle) /\ \A b : ~Editing([op |-> "create", body |-> b])
  BY DEF Editing, Catalog!Idle
<1>5. Copies'
  <2>1. ASSUME NEW d \in Callers, Editing(planCall'[d])
        PROVE  Copy(planCall'[d].plan, planCall'[d].id) /\ planCall'[d].plan.status # 2
    BY <2>1, <1>1, <1>4 DEF PlanInv, Copies
  <2>2. \A i \in DOMAIN migration' : Copy(migration'[i], i)
    BY DEF PlanInv, Copies
  <2>. QED BY <2>1, <2>2, <1>3 DEF Copies, Editing
<1>. QED BY <1>2, <1>5, PlanUnwritten

\* A creation that found its name free is in hand.
LEMMA PlanCreateCheck ==
    ASSUME PlanInv, NEW c \in Callers, NEW body \in NewPlans, Catalog!CreateCheck(c, body)
    PROVE  PlanInv'
<1>. DEFINE r == [op |-> "create", body |-> body]
<1>1. planCall' = [planCall EXCEPT ![c] = r] /\ planRequests' \in 0..MaxPlanRequests
  BY PlanBound DEF Catalog!CreateCheck, Catalog!Ask, PlanInv, PlanTypes
<1>2. r = [op |-> "create", body |-> r.body] /\ r.body \in NewPlans
  OBVIOUS
<1>3. UNCHANGED <<plans, migration, crossed, nameRaces, override>>
  BY DEF Catalog!CreateCheck
<1>. HIDE DEF r
<1>. QED BY <1>1, <1>2, <1>3, PlanAsked

\* An edit reads the row it will write.
LEMMA PlanFind ==
    ASSUME PlanInv, NEW c \in Callers, NEW i \in PlanIds, NEW body \in Edits, Catalog!Find(c, i, body)
    PROVE  PlanInv'
<1>. DEFINE r == [op |-> "check", id |-> i, plan |-> plans[i], body |-> body]
<1>1. planCall' = [planCall EXCEPT ![c] = r] /\ planRequests' \in 0..MaxPlanRequests
  BY PlanBound DEF Catalog!Find, Catalog!Ask, PlanInv, PlanTypes
<1>2. Sheet(plans[i]) /\ i \in Catalog!Present /\ plans[i].status # 2
  <2>1. plans[i].status # 2
    BY DEF Catalog!Find
  <2>2. Catalog!NoPlan.status = 2
    BY DEF Catalog!NoPlan
  <2>3. plans[i] # Catalog!NoPlan
    BY <2>1, <2>2
  <2>. QED BY <2>1, <2>3 DEF PlanInv, PlanTypes, Catalog!Present
<1>3. Editing(r) /\ Copy(r.plan, r.id) /\ r.plan.status # 2
  <2>1. Editing(r)
    BY DEF Editing
  <2>2. plans[i].version <= plans[i].version
    BY <1>2, Versions
  <2>. QED BY <2>1, <2>2, <1>2 DEF Copy
<1>4. UNCHANGED <<plans, migration, crossed, nameRaces, override>>
  BY DEF Catalog!Find
<1>. HIDE DEF r
<1>. QED BY <1>1, <1>3, <1>4, PlanAsked

\* What a request has when it is past its check is a copy.
LEMMA PlanHeld ==
    ASSUME PlanInv, NEW c \in Callers, planCall[c].op \in {"check", "save"}
    PROVE  /\ Editing(planCall[c]) /\ Copy(planCall[c].plan, planCall[c].id)
           /\ planCall[c].plan.status # 2
BY DEF PlanInv, PlanTypes, Copies, Catalog!Idle

\* An edit whose name is free goes on to write; one whose name is taken is gone.
LEMMA PlanCheckName == ASSUME PlanInv, NEW c \in Callers, Catalog!CheckName(c) PROVE PlanInv'
<1>. DEFINE r == [planCall[c] EXCEPT !.op = "save"]
<1>1. Editing(planCall[c]) /\ Copy(planCall[c].plan, planCall[c].id) /\ planCall[c].plan.status # 2
  BY PlanHeld DEF Catalog!CheckName
<1>2. Editing(r) /\ Copy(r.plan, r.id) /\ r.plan.status # 2
  BY <1>1 DEF Editing
<1>3. /\ UNCHANGED <<plans, migration, crossed, nameRaces, override>>
      /\ planRequests' \in 0..MaxPlanRequests
  BY DEF Catalog!CheckName, PlanInv, PlanTypes
<1>4. \/ planCall' = [planCall EXCEPT ![c] = Catalog!Idle]
      \/ planCall' = [planCall EXCEPT ![c] = r]
  BY DEF Catalog!CheckName, Catalog!Answer
<1>. HIDE DEF r
<1>. QED BY <1>2, <1>3, <1>4, PlanAsked

\* The migration of currencies reads the rows in rupees.
LEMMA PlanMigrateFind == ASSUME PlanInv, Catalog!MigrateFind PROVE PlanInv'
<1>. USE DEF Catalog!MigrateFind
<1>1. \A i \in DOMAIN migration' : i \in Catalog!Present /\ migration'[i] = plans[i]
  BY DEF Catalog!Present
<1>2. \A i \in DOMAIN migration' : Copy(migration'[i], i)
  <2>. SUFFICES ASSUME NEW i \in DOMAIN migration' PROVE Copy(plans[i], i)
    BY <1>1
  <2>1. i \in Catalog!Present /\ Sheet(plans[i])
    BY <1>1, PresentPlans DEF PlanInv
  <2>2. plans[i].version <= plans[i].version
    BY <2>1, Versions
  <2>. QED BY <2>1, <2>2 DEF Copy
<1>3. PlanTypes'
  BY <1>1 DEF PlanInv, PlanTypes, Catalog!Present
<1>4. \A p, i : Copy(p, i) => Copy(p, i)'
  BY DEF Copy, Catalog!Present
<1>5. Copies'
  BY <1>2, <1>4 DEF PlanInv, Copies
<1>. QED BY <1>3, <1>5, PlanUnwritten

\* A plan is written: its version is newer, and its price and name are in order unless it
\* is crossed.
LEMMA PlanWritten ==
    ASSUME PlanInv, NEW i \in PlanIds, NEW p, Sheet(p), plans' = [plans EXCEPT ![i] = p],
           plans[i] = Catalog!NoPlan \/ p.version > plans[i].version,
           NEW o \in Nat \union {Keep}, override' = [override EXCEPT ![i] = o],
           crossed' = crossed \/ crossed' = crossed \union {i},
           i \notin crossed' => PriceHolds(p, o),
           ~nameRaces' => ~nameRaces,
           ~nameRaces' /\ i \notin crossed' /\ p.status # 2 =>
              \A k \in Catalog!Present \ (crossed \union {i}) : plans[k].status # 2 => plans[k].name # p.name,
           DOMAIN planCall' = Callers,
           \A c \in Callers : planCall'[c] = planCall[c] \/ planCall'[c] = Catalog!Idle,
           DOMAIN migration' \subseteq DOMAIN migration, \A j \in DOMAIN migration' : migration'[j] = migration[j],
           UNCHANGED planRequests
    PROVE  PlanInv'
<1>1. /\ DOMAIN plans' = PlanIds /\ DOMAIN override' = PlanIds
      /\ \A k \in PlanIds : plans'[k] = IF k = i THEN p ELSE plans[k]
      /\ \A k \in PlanIds : override'[k] = IF k = i THEN o ELSE override[k]
  BY DEF PlanInv, PlanTypes
<1>2. Catalog!Present' = Catalog!Present \union {i}
  BY <1>1, SheetIsPlan DEF Catalog!Present
<1>3. PlanTypes'
  <2>1. \A c \in Callers : \/ planCall'[c] = Catalog!Idle
                           \/ /\ planCall'[c] = [op |-> "create", body |-> planCall'[c].body]
                              /\ planCall'[c].body \in NewPlans
                           \/ Editing(planCall'[c])
    BY DEF PlanInv, PlanTypes
  <2>2. \A k \in PlanIds : plans'[k] = Catalog!NoPlan \/ Sheet(plans'[k])
    BY <1>1 DEF PlanInv, PlanTypes
  <2>3. \A k \in PlanIds : override'[k] \in Nat \union {Keep}
    BY <1>1 DEF PlanInv, PlanTypes
  <2>4. DOMAIN migration' \subseteq Catalog!Present' /\ crossed' \subseteq Catalog!Present'
    BY <1>2 DEF PlanInv, PlanTypes
  <2>. QED BY <1>1, <2>1, <2>2, <2>3, <2>4 DEF PlanInv, PlanTypes
<1>4. ASSUME NEW q, NEW k, Copy(q, k) PROVE Copy(q, k)'
  <2>1. k \in PlanIds /\ Sheet(plans[k]) /\ plans[k] # Catalog!NoPlan
    BY <1>4, PresentPlans, SheetIsPlan DEF Copy, PlanInv
  <2>2. CASE k = i
    BY <2>1, <2>2, <1>1, <1>4, CopyKept DEF PlanInv
  <2>3. CASE k # i
    BY <2>1, <2>3, <1>1, <1>2, <1>4 DEF Copy
  <2>. QED BY <2>2, <2>3
<1>5. Copies'
  <2>1. ~Editing(Catalog!Idle)
    BY DEF Editing, Catalog!Idle
  <2>2. ASSUME NEW c \in Callers, Editing(planCall'[c])
        PROVE  Copy(planCall[c].plan, planCall[c].id)' /\ planCall'[c].plan.status # 2
    <3>1. planCall'[c] = planCall[c]
      BY <2>1, <2>2
    <3>2. Copy(planCall[c].plan, planCall[c].id) /\ planCall[c].plan.status # 2
      BY <2>2, <3>1 DEF PlanInv, Copies
    <3>3. PICK q, k : q = planCall[c].plan /\ k = planCall[c].id
      OBVIOUS
    <3>4. Copy(q, k)'
      BY <3>2, <3>3, <1>4
    <3>. QED BY <3>1, <3>2, <3>3, <3>4 DEF Copy
  <2>3. ASSUME NEW j \in DOMAIN migration' PROVE Copy(migration[j], j)'
    <3>1. migration'[j] = migration[j] /\ Copy(migration[j], j)
      BY DEF PlanInv, Copies
    <3>2. PICK q : q = migration[j]
      OBVIOUS
    <3>3. Copy(q, j)'
      BY <3>1, <3>2, <1>4
    <3>. QED BY <3>1, <3>2, <3>3 DEF Copy
  <2>4. ASSUME NEW c \in Callers, Editing(planCall[c])'
        PROVE  Copy(planCall[c].plan, planCall[c].id)' /\ planCall'[c].plan.status # 2
    BY <2>2, <2>4 DEF Editing
  <2>. QED BY <2>3, <2>4 DEF Copies
<1>6. PricesHold'
  <2>. SUFFICES ASSUME NEW k \in Catalog!Present' \ crossed'
                PROVE  PriceHolds(plans'[k], override'[k])
    BY DEF PricesHold, PriceHolds, Catalog!computeQuarterlyPrice
  <2>1. k \in PlanIds
    BY <1>1 DEF Catalog!Present
  <2>2. CASE k = i
    BY <2>1, <2>2, <1>1
  <2>3. CASE k # i
    BY <2>1, <2>3, <1>1, <1>2 DEF PlanInv, PricesHold
  <2>. QED BY <2>2, <2>3
<1>7. Catalog!NamesAreUnique'
  <2>. SUFFICES ASSUME ~nameRaces', NEW j \in Catalog!Present' \ crossed', NEW k \in Catalog!Present' \ crossed',
                       j # k, plans'[j].status # 2, plans'[k].status # 2
                PROVE  plans'[j].name # plans'[k].name
    BY DEF Catalog!NamesAreUnique
  <2>1. j \in PlanIds /\ k \in PlanIds
    BY <1>1 DEF Catalog!Present
  <2>2. CASE j = i
    BY <2>1, <2>2, <1>1, <1>2
  <2>3. CASE k = i
    BY <2>1, <2>3, <1>1, <1>2
  <2>4. CASE j # i /\ k # i
    BY <2>1, <2>4, <1>1, <1>2 DEF PlanInv, Catalog!NamesAreUnique
  <2>. QED BY <2>2, <2>3, <2>4
<1>. QED BY <1>3, <1>5, <1>6, <1>7 DEF PlanInv

\* A creation writes a new row, its price given or computed.
LEMMA PlanCreateInsert ==
    ASSUME PlanInv, NEW c \in Callers, NEW i \in PlanIds, Catalog!CreateInsert(c, i)
    PROVE  PlanInv'
<1>. DEFINE body == planCall[c].body
            o == IF body.quarterly = 0 THEN Keep ELSE body.quarterly
            q == Catalog!computeQuarterlyPrice(body.price, body.discount, body.quarterly)
            p == [name |-> body.name, price |-> body.price, discount |-> body.discount, cycle |-> body.cycle,
                  quarterly |-> q, currency |-> "usd", custom |-> FALSE, status |-> 1, version |-> 1]
<1>1. /\ planCall[c].op = "create" /\ plans[i] = Catalog!NoPlan /\ plans' = [plans EXCEPT ![i] = p]
      /\ override' = [override EXCEPT ![i] = o] /\ nameRaces' = (nameRaces \/ Catalog!planNameTaken(body.name, {}))
      /\ planCall' = [planCall EXCEPT ![c] = Catalog!Idle] /\ UNCHANGED <<migration, planRequests, crossed>>
  BY DEF Catalog!CreateInsert, Catalog!Answer
<1>2. body \in NewPlans
  BY <1>1 DEF PlanInv, PlanTypes, Catalog!Idle, Editing
<1>3. /\ body.price \in Nat /\ body.discount \in 0..100 /\ body.quarterly \in Nat \union {Keep}
      /\ body.cycle \in {"month", "quarterly"} /\ Keep \notin Nat
  BY <1>2, PlanAssumption
<1>4. /\ q \in Nat /\ Catalog!computeQuarterlyPrice(body.price, body.discount, Keep) \in Nat
      /\ q = IF body.quarterly \notin {Keep, 0} THEN body.quarterly
            ELSE Catalog!computeQuarterlyPrice(body.price, body.discount, Keep)
  BY <1>3, DuePrice
<1>. HIDE DEF q, body
<1>5. Sheet(p) /\ o \in Nat \union {Keep}
  <2>1. /\ "usd" \in {"inr", "usd"} /\ body.cycle \in {"", "month", "quarterly"}
        /\ 1 \in 0..2 /\ 1 \in Nat
    <3>1. 1 \in 0..2 /\ 1 \in Nat
      OBVIOUS
    <3>. QED BY <3>1, <1>3, Zenon
  <2>2. o \in Nat \union {Keep}
    BY <1>3
  <2>3. q \in Nat \union {Keep}
    BY <1>4
  <2>. QED BY <2>1, <2>2, <2>3, <1>3, SheetOf, Zenon
<1>6. PriceHolds(p, o)
  BY <1>3, <1>4 DEF PriceHolds
<1>7. ~nameRaces' =>
         /\ ~nameRaces
         /\ \A k \in Catalog!Present : plans[k].status # 2 => plans[k].name # p.name
  BY <1>1 DEF Catalog!planNameTaken, Catalog!Present
<1>8. /\ DOMAIN planCall' = Callers
      /\ \A d \in Callers : planCall'[d] = planCall[d] \/ planCall'[d] = Catalog!Idle
  BY <1>1 DEF PlanInv, PlanTypes
<1>. HIDE DEF p, o
<1>. QED BY <1>1, <1>5, <1>6, <1>7, <1>8, PlanWritten

\* The cycle that is missing is filled in.
LEMMA PlanMigrateCycles == ASSUME PlanInv, Catalog!MigrateCycles PROVE PlanInv'
<1>1. /\ DOMAIN plans' = PlanIds
      /\ \A i \in PlanIds : plans'[i] = IF plans[i] # Catalog!NoPlan /\ plans[i].cycle = ""
                                        THEN [plans[i] EXCEPT !.cycle = "month"] ELSE plans[i]
      /\ UNCHANGED <<planCall, migration, planRequests, crossed, nameRaces, override>>
  BY DEF Catalog!MigrateCycles
<1>2. ASSUME NEW i \in PlanIds, plans[i] # Catalog!NoPlan
      PROVE  /\ Sheet(plans'[i]) /\ plans'[i].version = plans[i].version
             /\ plans'[i].name = plans[i].name
             /\ plans'[i].price = plans[i].price /\ plans'[i].discount = plans[i].discount
             /\ plans'[i].quarterly = plans[i].quarterly /\ plans'[i].status = plans[i].status
             /\ plans'[i].cycle = "quarterly" => plans[i].cycle = "quarterly"
  <2>1. Sheet(plans[i])
    BY <1>2 DEF PlanInv, PlanTypes
  <2>2. CASE plans[i].cycle = ""
    <3>1. plans'[i] = [plans[i] EXCEPT !.cycle = "month"]
      BY <1>1, <1>2, <2>2
    <3>. QED BY <2>1, <3>1 DEF Sheet
  <2>3. CASE plans[i].cycle # ""
    BY <2>1, <2>3, <1>1
  <2>. QED BY <2>2, <2>3
<1>3. Catalog!Present' = Catalog!Present
  BY <1>1, <1>2, SheetIsPlan DEF Catalog!Present
<1>4. PlanTypes'
  BY <1>1, <1>2, <1>3 DEF PlanInv, PlanTypes
<1>5. ASSUME NEW q, NEW k, Copy(q, k) PROVE Copy(q, k)'
  BY <1>1, <1>2, <1>5, CopyKept, PresentPlans, SheetIsPlan DEF PlanInv, Copy
<1>6. Copies'
  BY <1>1, <1>5 DEF PlanInv, Copies
<1>7. PricesHold'
  <2>. SUFFICES ASSUME NEW k \in Catalog!Present' \ crossed'
                PROVE  PriceHolds(plans'[k], override'[k])
    BY DEF PricesHold, PriceHolds, Catalog!computeQuarterlyPrice
  <2>1. k \in PlanIds /\ plans[k] # Catalog!NoPlan
    BY <1>3 DEF Catalog!Present
  <2>2. PriceHolds(plans[k], override[k])
    BY <1>1, <1>3 DEF PlanInv, PricesHold
  <2>. QED BY <2>1, <2>2, <1>1, <1>2 DEF PriceHolds
<1>8. Catalog!NamesAreUnique'
  <2>. SUFFICES ASSUME ~nameRaces', NEW j \in Catalog!Present \ crossed, NEW k \in Catalog!Present \ crossed,
                       j # k, plans'[j].status # 2, plans'[k].status # 2
                PROVE  plans'[j].name # plans'[k].name
    BY <1>1, <1>3 DEF Catalog!NamesAreUnique
  <2>1. /\ plans'[j].status = plans[j].status /\ plans'[j].name = plans[j].name
        /\ plans'[k].status = plans[k].status /\ plans'[k].name = plans[k].name
    BY <1>2 DEF Catalog!Present
  <2>. QED BY <2>1, <1>1 DEF PlanInv, Catalog!NamesAreUnique
<1>. QED BY <1>4, <1>6, <1>7, <1>8 DEF PlanInv

\* The migration writes a row rescaled, or only its currency when the price is small.
LEMMA PlanMigrateWrite ==
    ASSUME PlanInv, NEW i \in DOMAIN migration, Catalog!MigrateWrite(i)
    PROVE  PlanInv'
<1>. DEFINE held == migration[i]
            small == held.price < Catalog!MinRupees
            price == IF small THEN plans[i].price ELSE Catalog!Rescaled(held.price)
            q == IF small \/ held.quarterly \in {Keep, 0} THEN plans[i].quarterly ELSE Catalog!Rescaled(held.quarterly)
            o == IF small \/ override[i] = Keep THEN override[i] ELSE Catalog!Rescaled(override[i])
            p == [name |-> plans[i].name, price |-> price, discount |-> plans[i].discount, cycle |-> plans[i].cycle,
                  quarterly |-> q, status |-> plans[i].status, currency |-> "usd", custom |-> plans[i].custom,
                  version |-> plans[i].version + 1]
<1>1. /\ i \in Catalog!Present /\ i \in PlanIds /\ Sheet(plans[i]) /\ Sheet(held) /\ override[i] \in Nat \union {Keep}
      /\ held.version = plans[i].version =>
           held.price = plans[i].price /\ held.quarterly = plans[i].quarterly /\ held.status = plans[i].status
  BY PresentPlans DEF PlanInv, Copies, Copy, PlanTypes
<1>2. /\ plans' = [plans EXCEPT ![i] = p]
      /\ override' = [override EXCEPT ![i] = o]
      /\ crossed' = IF plans[i].version # held.version THEN crossed \union {i} ELSE crossed
      /\ migration' = [j \in DOMAIN migration \ {i} |-> migration[j]]
      /\ UNCHANGED <<planCall, planRequests, nameRaces>>
  <2>1. plans' = [plans EXCEPT ![i] = p]
    BY Zenon DEF Catalog!MigrateWrite
  <2>2. override' = [override EXCEPT ![i] = o]
    BY Zenon DEF Catalog!MigrateWrite
  <2>. QED BY <2>1, <2>2, Zenon DEF Catalog!MigrateWrite
<1>4. /\ plans[i].price \in Nat /\ plans[i].discount \in 0..100 /\ plans[i].quarterly \in Nat \union {Keep}
      /\ held.price \in Nat /\ held.quarterly \in Nat \union {Keep} /\ plans[i].version \in Nat
  BY <1>1, Versions DEF Sheet
<1>5. price \in Nat /\ q \in Nat \union {Keep} /\ o \in Nat \union {Keep}
  BY <1>1, <1>4, Hundredth
<1>. HIDE DEF price, q, o, held
<1>6. /\ Sheet(p) /\ p.version = plans[i].version + 1 /\ p.price = price /\ p.quarterly = q /\ p.name = plans[i].name
      /\ p.discount = plans[i].discount /\ p.cycle = plans[i].cycle /\ p.status = plans[i].status
  <2>1. plans[i].cycle \in {"", "month", "quarterly"} /\ plans[i].status \in 0..2
    BY <1>1, Zenon DEF Sheet
  <2>2. "usd" \in {"inr", "usd"} /\ plans[i].version + 1 \in Nat
    BY <1>4
  <2>3. Sheet(p)
    BY <2>1, <2>2, <1>4, <1>5, SheetOf, Zenon
  <2>. QED BY <2>3
<1>. HIDE DEF p
<1>7. i \notin crossed' => PriceHolds(p, o)
  <2>. SUFFICES ASSUME i \notin crossed' PROVE PriceHolds(p, o)
    OBVIOUS
  <2>1. i \notin crossed /\ held.price = plans[i].price /\ held.quarterly = plans[i].quarterly
    BY <1>1, <1>2
  <2>2. PriceHolds(plans[i], override[i])
    BY <1>1, <2>1 DEF PlanInv, PricesHold
  <2>3. CASE small
    BY <2>2, <2>3, <1>6 DEF PriceHolds, price, q, o
  <2>4. CASE ~small
    <3>1. price = Catalog!Rescaled(plans[i].price)
      BY <2>1, <2>4 DEF price
    <3>2. q = IF plans[i].quarterly = Keep THEN Keep ELSE Catalog!Rescaled(plans[i].quarterly)
      BY <2>1, <2>4, <1>4, Hundredth DEF q
    <3>3. o = IF override[i] = Keep THEN Keep ELSE Catalog!Rescaled(override[i])
      BY <2>4 DEF o
    <3>4. CASE override[i] # Keep
      <4>1. plans[i].quarterly = override[i]
        BY <2>2, <3>4 DEF PriceHolds
      <4>2. q = o /\ o \in Nat
        BY <4>1, <3>2, <3>3, <3>4, <1>1, Hundredth
      <4>. QED BY <4>2, <1>6, KeepApart DEF PriceHolds
    <3>5. CASE override[i] = Keep /\ plans[i].quarterly = Keep
      BY <2>2, <3>2, <3>3, <3>5, <1>6 DEF PriceHolds
    <3>6. CASE override[i] = Keep /\ plans[i].quarterly # Keep
      <4>1. plans[i].quarterly \in Nat
        BY <3>6, <1>4
      <4>2. LET due == Catalog!computeQuarterlyPrice(plans[i].price, plans[i].discount, Keep)
            IN  plans[i].quarterly \in due - 2..due + 2
        BY <2>2, <3>6 DEF PriceHolds
      <4>3. q = Catalog!Rescaled(plans[i].quarterly) /\ q # Keep /\ o = Keep
        BY <4>1, <3>2, <3>3, <3>6, Hundredth, KeepApart
      <4>4. LET due == Catalog!computeQuarterlyPrice(Catalog!Rescaled(plans[i].price), plans[i].discount, Keep)
            IN  Catalog!Rescaled(plans[i].quarterly) \in due - 2..due + 2
        BY <4>1, <4>2, <1>4, RescaledFollows
      <4>. QED BY <4>3, <4>4, <3>1, <1>6 DEF PriceHolds
    <3>. QED BY <3>4, <3>5, <3>6
  <2>. QED BY <2>3, <2>4
<1>8. ~nameRaces' /\ i \notin crossed' /\ p.status # 2 =>
        \A k \in Catalog!Present \ (crossed \union {i}) : plans[k].status # 2 => plans[k].name # p.name
  BY <1>1, <1>2, <1>6 DEF PlanInv, Catalog!NamesAreUnique
<1>9. /\ DOMAIN migration' \subseteq DOMAIN migration /\ \A j \in DOMAIN migration' : migration'[j] = migration[j]
      /\ DOMAIN planCall' = Callers /\ \A d \in Callers : planCall'[d] = planCall[d]
      /\ crossed' = crossed \/ crossed' = crossed \union {i}
      /\ ~nameRaces' => ~nameRaces /\ UNCHANGED planRequests
      /\ UNCHANGED planRequests
  BY <1>2 DEF PlanInv, PlanTypes
<1>10. p.version > plans[i].version
  BY <1>4, <1>6
<1>. QED BY <1>1, <1>2, <1>5, <1>6, <1>7, <1>8, <1>9, <1>10, PlanWritten

\* The fields of an edit, and what it leaves of a cycle.
LEMMA EditFields ==
    ASSUME NEW body \in Edits
    PROVE  /\ body.price \in Nat \union {Keep} /\ body.discount \in (0..100) \union {Keep}
           /\ body.quarterly \in Nat \union {Keep} /\ body.cycle \in {"month", "quarterly", Keep}
BY Zenon, PlanAssumption

\* An edit writes the fields it changed, and the price that follows from what it read.
LEMMA PlanSave == ASSUME PlanInv, NEW c \in Callers, Catalog!Save(c) PROVE PlanInv'
<1>. DEFINE i == planCall[c].id
            held == planCall[c].plan
            body == planCall[c].body
            now == plans[i]
            cycle == IF body.cycle = Keep /\ held.cycle = "" THEN "month" ELSE Catalog!Given(body.cycle, held.cycle)
            status == CASE body.status = "toggle" -> IF held.status = 1 THEN 0 ELSE 1
                        [] body.status = "delete" -> 2
                        [] OTHER -> held.status
            written(new, old, at) == IF new = old THEN at ELSE new
            edited(new, old, at) == written(Catalog!Given(new, old), old, at)
            p1 == edited(body.name, held.name, now.name)
            p2 == edited(body.price, held.price, now.price)
            p3 == edited(body.discount, held.discount, now.discount)
            p4 == written(cycle, held.cycle, now.cycle)
            p5 == written(Catalog!Repriced(held, body), held.quarterly, now.quarterly)
            p6 == written(status, held.status, now.status)
            p == [name |-> p1, price |-> p2, discount |-> p3, cycle |-> p4, quarterly |-> p5, status |-> p6,
                  currency |-> now.currency, custom |-> now.custom, version |-> now.version + 1]
            o == IF body.quarterly \notin {Keep, 0} THEN body.quarterly
                 ELSE IF body.price = Keep /\ body.discount = Keep /\ body.quarterly = Keep /\ body.cycle = Keep
                      THEN override[i] ELSE Keep
<1>1. /\ planCall[c].op = "save" /\ plans' = [plans EXCEPT ![i] = p] /\ override' = [override EXCEPT ![i] = o]
      /\ crossed' = IF now.version # held.version THEN crossed \union {i} ELSE crossed
      /\ nameRaces' = (nameRaces \/ (body.name # Keep /\ Catalog!planNameTaken(body.name, {i})))
      /\ planCall' = [planCall EXCEPT ![c] = Catalog!Idle] /\ UNCHANGED <<migration, planRequests>>
  BY Zenon DEF Catalog!Save, Catalog!Answer
<1>2. /\ i \in Catalog!Present /\ i \in PlanIds /\ Sheet(now) /\ Sheet(held) /\ held.status # 2 /\ body \in Edits
      /\ held.version = now.version =>
           /\ held.name = now.name /\ held.price = now.price /\ held.discount = now.discount
           /\ held.quarterly = now.quarterly /\ held.status = now.status
  <2>1. Editing(planCall[c]) /\ Copy(held, i) /\ held.status # 2
    BY <1>1, PlanHeld
  <2>2. i \in PlanIds /\ Sheet(now)
    BY <2>1, PresentPlans DEF Copy, PlanInv
  <2>. QED BY <2>1, <2>2 DEF Copy, Editing
<1>3. override[i] \in Nat \union {Keep}
  BY <1>2 DEF PlanInv, PlanTypes
<1>4. /\ body.price \in Nat \union {Keep} /\ body.discount \in (0..100) \union {Keep}
      /\ body.quarterly \in Nat \union {Keep} /\ body.cycle \in {"month", "quarterly", Keep}
  BY <1>2, EditFields, Zenon
<1>5. /\ now.price \in Nat /\ now.discount \in 0..100 /\ now.quarterly \in Nat \union {Keep}
      /\ now.cycle \in {"", "month", "quarterly"} /\ now.currency \in {"inr", "usd"}
      /\ now.status \in 0..2 /\ now.version \in Nat
  BY <1>2, Zenon DEF Sheet
<1>6. /\ held.price \in Nat /\ held.discount \in 0..100 /\ held.quarterly \in Nat \union {Keep}
      /\ held.cycle \in {"", "month", "quarterly"} /\ held.status \in 0..2
  BY <1>2, Zenon DEF Sheet
<1>. DEFINE price == Catalog!Given(body.price, held.price)
            discount == Catalog!Given(body.discount, held.discount)
            due == Catalog!computeQuarterlyPrice(price, discount, Keep)
            same == body.price = Keep /\ body.discount = Keep /\ body.quarterly = Keep /\ body.cycle = Keep
<1>. HIDE DEF i, held, body, now
<1>7. price \in Nat /\ discount \in 0..100
  BY <1>4, <1>6 DEF Catalog!Given
<1>8. /\ due \in Nat
      /\ Catalog!Repriced(held, body) = IF same THEN held.quarterly
                                       ELSE IF body.quarterly \notin {Keep, 0} THEN body.quarterly ELSE due
  <2>1. due \in Nat
    BY <1>7, DuePrice
  <2>2. Catalog!computeQuarterlyPrice(price, discount, body.quarterly)
          = IF body.quarterly \notin {Keep, 0} THEN body.quarterly ELSE due
    BY <1>4, <1>7, DuePrice
  <2>. QED BY <2>1, <2>2 DEF Catalog!Repriced
<1>9. /\ p2 \in Nat /\ p3 \in 0..100 /\ p5 \in Nat \union {Keep} /\ p6 \in 0..2
  <2>1. p2 \in Nat /\ p3 \in 0..100
    BY <1>5, <1>7
  <2>2. p5 \in Nat \union {Keep}
    BY <1>4, <1>5, <1>6, <1>8
  <2>3. p6 \in 0..2
    <3>. HIDE DEF status
    <3>1. status \in 0..2
      <4>1. CASE body.status = "toggle"
        BY <4>1 DEF status
      <4>2. CASE body.status # "toggle" /\ body.status = "delete"
        BY <4>2 DEF status
      <4>3. CASE body.status # "toggle" /\ body.status # "delete"
        <5>1. status = held.status
          BY <4>3 DEF status
        <5>. QED BY <5>1, <1>6, Zenon
      <4>. QED BY <4>1, <4>2, <4>3
    <3>2. now.status \in 0..2
      BY <1>5, Zenon
    <3>. QED BY <3>1, <3>2
  <2>. QED BY <2>1, <2>2, <2>3
<1>10. p4 \in {"", "month", "quarterly"}
  BY <1>4, <1>5, <1>6 DEF Catalog!Given
<1>11. o \in Nat \union {Keep} /\ now.version + 1 \in Nat /\ now.version + 1 > now.version
  <2>1. now.version \in Nat
    BY <1>5, Zenon
  <2>2. now.version + 1 \in Nat /\ now.version + 1 > now.version
    BY <2>1
  <2>3. o \in Nat \union {Keep}
    BY <1>3, <1>4, Zenon
  <2>. QED BY <2>2, <2>3
<1>12. held.version = now.version => p1 = Catalog!Given(body.name, held.name) /\ p2 = price /\ p3 = discount
                                    /\ p5 = Catalog!Repriced(held, body) /\ p6 = status
  BY <1>2
<1>13. p4 = "quarterly" => body.cycle # Keep \/ now.cycle = "quarterly"
  BY <1>4, <1>5, <1>6 DEF Catalog!Given
<1>. HIDE DEF p1, p2, p3, p4, p5, p6, o, price, discount, due
<1>14. Sheet(p) /\ p.version = now.version + 1
  BY <1>5, <1>9, <1>10, <1>11, SheetOf, Zenon
<1>15. /\ p.name = p1 /\ p.price = p2 /\ p.discount = p3 /\ p.quarterly = p5 /\ p.cycle = p4 /\ p.status = p6
  OBVIOUS
<1>. HIDE DEF p
<1>16. i \notin crossed' => i \notin crossed /\ held.version = now.version
  BY <1>1
<1>17. i \notin crossed' => PriceHolds(p, o)
  <2>. SUFFICES ASSUME i \notin crossed' PROVE PriceHolds(p, o)
    OBVIOUS
  <2>1. PriceHolds(now, override[i])
    BY <1>2, <1>16 DEF PlanInv, PricesHold, now
  <2>2. /\ p.price = price /\ p.discount = discount /\ p.quarterly = Catalog!Repriced(held, body)
        /\ held.quarterly = now.quarterly /\ held.price = now.price /\ held.discount = now.discount
    BY <1>2, <1>12, <1>15, <1>16
  <2>3. CASE same
    <3>1. price = now.price /\ discount = now.discount /\ p.quarterly = now.quarterly /\ o = override[i]
      BY <2>2, <2>3, <1>8 DEF price, discount, o, Catalog!Given
    <3>2. p.cycle = "quarterly" => now.cycle = "quarterly"
      BY <2>3, <1>13, <1>15
    <3>. QED BY <2>1, <2>2, <3>1, <3>2 DEF PriceHolds
  <2>4. CASE ~same /\ body.quarterly \notin {Keep, 0}
    <3>1. p.quarterly = body.quarterly /\ o = body.quarterly /\ o # Keep
      BY <2>2, <2>4, <1>8 DEF o
    <3>. QED BY <3>1 DEF PriceHolds
  <2>5. CASE ~same /\ body.quarterly \in {Keep, 0}
    <3>1. p.quarterly = due /\ o = Keep
      BY <2>2, <2>5, <1>8 DEF o
    <3>2. due \in due - 2..due + 2 /\ due # Keep
      BY <1>8, KeepApart
    <3>. QED BY <2>2, <3>1, <3>2 DEF PriceHolds, due
  <2>. QED BY <2>3, <2>4, <2>5
<1>18. ~nameRaces' => ~nameRaces
  BY <1>1
<1>19. ~nameRaces' /\ i \notin crossed' /\ p.status # 2 =>
         \A k \in Catalog!Present \ (crossed \union {i}) : plans[k].status # 2 => plans[k].name # p.name
  <2>. SUFFICES ASSUME ~nameRaces', i \notin crossed', NEW k \in Catalog!Present \ (crossed \union {i}),
                       plans[k].status # 2
                PROVE  plans[k].name # p.name
    OBVIOUS
  <2>1. CASE body.name # Keep
    <3>1. p.name = body.name
      BY <2>1, <1>12, <1>15, <1>16 DEF Catalog!Given
    <3>2. ~Catalog!planNameTaken(body.name, {i})
      BY <2>1, <1>1
    <3>. QED BY <3>1, <3>2 DEF Catalog!planNameTaken, Catalog!Present
  <2>2. CASE body.name = Keep
    <3>1. p.name = now.name /\ now.status # 2
      BY <2>2, <1>2, <1>12, <1>15, <1>16 DEF Catalog!Given
    <3>. QED BY <3>1, <1>2, <1>16, <1>18 DEF PlanInv, Catalog!NamesAreUnique, now
  <2>. QED BY <2>1, <2>2
<1>20. /\ DOMAIN planCall' = Callers
       /\ \A d \in Callers : planCall'[d] = planCall[d] \/ planCall'[d] = Catalog!Idle
  BY <1>1 DEF PlanInv, PlanTypes
<1>21. p.version > plans[i].version
  BY <1>11, <1>14 DEF now
<1>22. /\ DOMAIN migration' \subseteq DOMAIN migration /\ \A j \in DOMAIN migration' : migration'[j] = migration[j]
       /\ crossed' = crossed \/ crossed' = crossed \union {i}
  BY <1>1
<1>. QED BY <1>1, <1>2, <1>11, <1>14, <1>17, <1>18, <1>19, <1>20, <1>21, <1>22, PlanWritten

\* Every step keeps the invariant.
LEMMA PlanStep == PlanInv /\ [Catalog!Next]_(Catalog!vars) => PlanInv'
<1>. SUFFICES ASSUME PlanInv, [Catalog!Next]_(Catalog!vars) PROVE PlanInv'
  OBVIOUS
<1>. QED BY PlanRests, PlanCreateCheck, PlanCreateInsert, PlanFind, PlanCheckName, PlanSave, PlanMigrateCycles,
            PlanMigrateFind, PlanMigrateWrite DEF Catalog!Next

\* What the properties say of plans.
LEMMA PlanEnds ==
    PlanInv => Catalog!TypeOK /\ Catalog!PricesFollow /\ Catalog!SoldPlansHavePrice /\ Catalog!NamesAreUnique
<1>. SUFFICES ASSUME PlanInv
              PROVE  Catalog!TypeOK /\ Catalog!PricesFollow /\ Catalog!SoldPlansHavePrice
  BY DEF PlanInv
<1>1. \A i \in Catalog!Present : i \in PlanIds /\ Sheet(plans[i])
  BY PresentPlans DEF PlanInv
<1>2. Catalog!TypeOK
  BY <1>1, Zenon DEF Catalog!TypeOK, Sheet, PlanInv, PlanTypes
<1>3. Catalog!PricesFollow
  BY DEF Catalog!PricesFollow, PlanInv, PricesHold, PriceHolds
<1>4. Catalog!SoldPlansHavePrice
  <2>. SUFFICES ASSUME NEW i \in Catalog!listPublicPlans \ crossed
                PROVE  Catalog!resolvePlanPrice(plans[i], Keep) >= 0
    BY DEF Catalog!SoldPlansHavePrice, Catalog!resolvePlanPrice, Catalog!priceForCycle
  <2>1. i \in Catalog!Present
    <3>1. plans[i].status = 1 /\ i \in PlanIds
      BY DEF Catalog!listPublicPlans
    <3>2. Catalog!NoPlan.status = 2
      BY DEF Catalog!NoPlan
    <3>. QED BY <3>1, <3>2 DEF Catalog!Present
  <2>2. /\ plans[i].price \in Nat /\ plans[i].quarterly \in Nat \union {Keep}
        /\ plans[i].cycle = "quarterly" => plans[i].quarterly # Keep
    BY <2>1, <1>1, Zenon DEF PlanInv, PricesHold, PriceHolds, Sheet
  <2>3. CASE plans[i].cycle = "quarterly"
    <3>1. plans[i].quarterly \in Nat
      BY <2>2, <2>3
    <3>2. Catalog!resolvePlanPrice(plans[i], Keep) = plans[i].quarterly
      BY <2>2, <2>3 DEF Catalog!resolvePlanPrice, Catalog!priceForCycle
    <3>. QED BY <3>1, <3>2
  <2>4. CASE plans[i].cycle # "quarterly"
    <3>1. Catalog!resolvePlanPrice(plans[i], Keep) = plans[i].price
      BY <2>4 DEF Catalog!resolvePlanPrice, Catalog!priceForCycle
    <3>. QED BY <2>2, <3>1
  <2>. QED BY <2>3, <2>4
<1>. QED BY <1>2, <1>3, <1>4

-----------------------------------------------------------------------------
(* Types.  What the type invariants say beyond the invariants above.       *)

\* Nobody has counted more than was charged.
ScansCounted ==
    /\ scans \in 0..MaxScans
    /\ \A s \in PeriodSubs : charged[s] <= scans /\ row[s].used <= scans
    /\ hash.used <= scans /\ ending.used <= scans /\ adjust.used <= scans /\ pass.used <= scans

\* A step of the periods counts what was counted before, or one more when it is charged.
LEMMA ScansStep ==
    ASSUME PeriodTypes, ScansCounted, [Periods!Next]_(Periods!vars)
    PROVE  ScansCounted'
<1>. USE BoundAssumption DEF PeriodTypes, ScansCounted
<1>1. CASE UNCHANGED Periods!vars
  BY <1>1 DEF Periods!vars, Periods!catalog
<1>2. CASE Periods!Charge
  BY <1>2 DEF Periods!Charge, Periods!catalog, StoreTypes, EndingTypes, AdjustTypes, PassTypes
<1>3. ASSUME NEW s \in PeriodSubs, Periods!Refill(s) PROVE ScansCounted'
  <2>. DEFINE counted == IF s \in early THEN 0 ELSE charged[s]
              seed == Periods!Max({row[s].used, counted})
  <2>2. row[s].used \in Nat /\ counted \in Nat /\ row[s].used <= scans /\ counted <= scans
    BY DEF StoreTypes
  <2>3. seed <= scans
    BY <2>2, LargerOne
  <2>4. hash'.used = seed /\ UNCHANGED <<scans, charged, row, ending, adjust, pass>>
    BY <1>3 DEF Periods!Refill
  <2>. QED BY <2>3, <2>4
<1>4. CASE Periods!Evict
  BY <1>4 DEF Periods!Evict, StoreTypes, PassTypes, Periods!catalog, Periods!Extra, Periods!NoHash
<1>5. CASE Periods!Lapse
  BY <1>5 DEF Periods!Lapse, StoreTypes, PassTypes, Periods!catalog
<1>6. CASE Periods!PassFind
  BY <1>6 DEF Periods!PassFind, StoreTypes, PassTypes, Periods!catalog
<1>7. CASE Periods!PassRead
  BY <1>7 DEF Periods!PassRead, StoreTypes, PassTypes, Periods!catalog
<1>8. CASE Periods!PassWrite
  BY <1>8 DEF Periods!PassWrite, StoreTypes, PassTypes, Periods!catalog, Periods!NoPass
<1>9. CASE Periods!FlushRead
  BY <1>9 DEF Periods!FlushRead, StoreTypes, PassTypes, Periods!catalog, EndingTypes
<1>10. CASE Periods!FlushWrite
  BY <1>10 DEF Periods!FlushWrite, StoreTypes, PassTypes, Periods!catalog, Periods!Step, EndingTypes
<1>11. CASE Periods!Purge
  BY <1>11 DEF Periods!Purge, StoreTypes, PassTypes, Periods!catalog, Periods!Step, Periods!NoRow, EndingTypes
<1>12. CASE Periods!Retire
  BY <1>12 DEF Periods!Retire, StoreTypes, PassTypes, Periods!catalog, Periods!Step, EndingTypes
<1>13. CASE Periods!Drop
  BY <1>13 DEF Periods!Drop, StoreTypes, PassTypes, Periods!catalog, Periods!Step, Periods!NoHash, EndingTypes
<1>14. CASE Periods!Promote
  <2>. DEFINE s == Periods!Min(Periods!Queue)
  <2>1. UNCHANGED <<row, hash, adjust, pass, charged, scans>>
    BY <1>14 DEF Periods!Promote
  <2>2. \/ ending' = Periods!NoEnding
        \/ ending' = [ending EXCEPT !.pc = "usage", !.sub = s, !.limit = limit[s]]
    BY <1>14 DEF Periods!Promote
  <2>. HIDE DEF s
  <2>3. ending'.used \in {0, ending.used}
    <3>1. CASE ending' = Periods!NoEnding
      BY <3>1 DEF Periods!NoEnding
    <3>2. CASE ending' = [ending EXCEPT !.pc = "usage", !.sub = s, !.limit = limit[s]]
      <4>. DEFINE n == limit[s]
      <4>1. ending' = [ending EXCEPT !.pc = "usage", !.sub = s, !.limit = n]
        BY <3>2
      <4>. HIDE DEF n
      <4>. QED BY <4>1 DEF EndingTypes
    <3>. QED BY <2>2, <3>1, <3>2
  <2>. QED BY <2>1, <2>3
<1>15. CASE Periods!Grant
  BY <1>15 DEF Periods!Grant, StoreTypes, PassTypes, Periods!catalog, Periods!NoEnding, EndingTypes
<1>16. CASE Periods!MakeUsage
  BY <1>16 DEF Periods!MakeUsage, StoreTypes, PassTypes, Periods!catalog, Periods!Step, Periods!NoRow, EndingTypes
<1>17. CASE Periods!ResetHash
  BY <1>17 DEF Periods!ResetHash, StoreTypes, PassTypes, Periods!catalog, Periods!NoEnding
<1>18. CASE Periods!PromoteDue
  BY <1>18 DEF Periods!PromoteDue, StoreTypes, PassTypes, Periods!catalog, Periods!NoEnding
<1>19. CASE Periods!AdjustFeatures
  BY <1>19 DEF Periods!AdjustFeatures, StoreTypes, PassTypes, Periods!catalog, Periods!NoAdjust
<1>20. CASE Periods!AdjustUsage
  BY <1>20 DEF Periods!AdjustUsage, StoreTypes, PassTypes, Periods!catalog, Periods!NoAdjust, AdjustTypes
<1>21. CASE Periods!AdjustLive
  BY <1>21 DEF Periods!AdjustLive, StoreTypes, PassTypes, Periods!catalog, Periods!NoAdjust, AdjustTypes
<1>22. CASE Periods!AdjustRow
  BY <1>22 DEF Periods!AdjustRow, StoreTypes, PassTypes, Periods!catalog, Periods!NoAdjust, AdjustTypes
<1>23. CASE Periods!AdjustHash
  BY <1>23 DEF Periods!AdjustHash, StoreTypes, PassTypes, Periods!catalog, Periods!NoAdjust
<1>24. ASSUME NEW s \in PeriodSubs, Periods!AdjustFind(s) PROVE ScansCounted'
  BY <1>24 DEF Periods!AdjustFind, Periods!Extra, Periods!NoAdjust, Periods!catalog
<1>25. ASSUME NEW s \in PeriodSubs, NEW kind, Periods!End(kind, s) PROVE ScansCounted'
  BY <1>25 DEF Periods!End, Periods!NoEnding, Periods!catalog
<1>. QED BY <1>1, <1>2, <1>3, <1>4, <1>5, <1>6, <1>7, <1>8, <1>9, <1>10, <1>11, <1>12, <1>13, <1>14, <1>15, <1>16, <1>17, <1>18, <1>19, <1>20, <1>21, <1>22, <1>23, <1>24, <1>25 DEF Periods!Next

\* Nothing is charged at first.
LEMMA ScansStart == Periods!Init => ScansCounted
BY BoundAssumption DEF Periods!Init, ScansCounted, Periods!NoRow, Periods!NoEnding, Periods!NoAdjust, Periods!NoPass

\* The types of the periods.
LEMMA PeriodTyped == PeriodTypes /\ ScansCounted => Periods!TypeOK
BY BoundAssumption DEF PeriodTypes, StoreTypes, ScansCounted, Periods!TypeOK, Periods!Ended

\* Levels are thresholds, and the counter is within its bound.
LevelsGiven ==
    /\ alertRow.level \in Thresholds \union {0} /\ note.level \in Thresholds \union {0}
    /\ alertRow.used \in 0..MaxUsed
    /\ \A w \in Checkers : check[w].level \in Thresholds \union {0}

\* The level a usage has crossed is a threshold.
LEMMA CrossedGiven == Alerts!Crossed \in Thresholds \union {0}
<1>. DEFINE S == {t \in Thresholds : 100 * alertRow.used >= t * alertRow.limit} \union {0}
<1>1. S \subseteq Thresholds \union {0} /\ S # {}
  OBVIOUS
<1>2. IsFiniteSet(S) /\ S \in SUBSET Nat
  <2>1. IsFiniteSet(Thresholds \union {0})
    BY AlertAssumption, FS_AddElement
  <2>2. S \in SUBSET (Thresholds \union {0})
    BY <1>1
  <2>. HIDE DEF S
  <2>3. IsFiniteSet(S)
    BY <2>1, <2>2, FS_Subset
  <2>4. S \in SUBSET Nat
    BY <2>2, AlertAssumption
  <2>. QED BY <2>3, <2>4
<1>3. \E m \in S : \A t \in S : m >= t
  <2>. HIDE DEF S
  <2>. QED BY <1>1, <1>2, LargestExists
<1>4. Alerts!Max(S) \in S
  BY <1>3 DEF Alerts!Max
<1>. QED BY <1>1, <1>4 DEF Alerts!Crossed

\* A step of the alerts keeps the levels.
LEMMA LevelsStep ==
    ASSUME AlertTypes, LevelsGiven, [Alerts!Next]_(Alerts!vars)
    PROVE  LevelsGiven'
<1>. USE DEF AlertTypes, LevelsGiven
<1>1. CASE UNCHANGED Alerts!vars
  BY <1>1 DEF Alerts!vars
<1>2. ASSUME NEW w \in Checkers, Alerts!Read(w) PROVE LevelsGiven'
  BY <1>2, CrossedGiven DEF Alerts!Read, Alerts!Resting
<1>3. ASSUME NEW w \in Checkers, Alerts!Look(w) \/ Alerts!Tell(w) \/ Alerts!Mark(w) \/ Alerts!CheckFails(w)
      PROVE  LevelsGiven'
  BY <1>3 DEF Alerts!Look, Alerts!Tell, Alerts!Mark, Alerts!CheckFails, Alerts!Resting
<1>4. CASE Alerts!Mirror
  BY <1>4, AlertAssumption DEF Alerts!Mirror
<1>5. CASE Alerts!Raise \/ Alerts!ReadNote \/ \E purged \in BOOLEAN : Alerts!Finish(purged)
  BY <1>5 DEF Alerts!Raise, Alerts!ReadNote, Alerts!Finish
<1>. QED BY <1>1, <1>2, <1>3, <1>4, <1>5 DEF Alerts!Next

\* There is no level at first.
LEMMA LevelsStart == Alerts!Init => LevelsGiven
BY AlertAssumption DEF Alerts!Init, Alerts!Resting, LevelsGiven

\* Files stay those of the requests, and faults within their bound.
LEMMA UploadTyped ==
    /\ Uploads!Init => Uploads!TypeOK
    /\ Uploads!TypeOK /\ [Uploads!Next]_(Uploads!vars) => Uploads!TypeOK'
<1>. USE BoundAssumption DEF Uploads!TypeOK, Uploads!AllFiles
<1>1. Uploads!Init => Uploads!TypeOK
  BY DEF Uploads!Init
<1>2. ASSUME Uploads!TypeOK, [Uploads!Next]_(Uploads!vars) PROVE Uploads!TypeOK'
  <2>1. CASE UNCHANGED Uploads!vars
    BY <1>2, <2>1 DEF Uploads!vars
  <2>2. CASE Uploads!Next
    <3>1. PICK r \in UploadRequests :
             \/ Uploads!Upload(r) \/ Uploads!Refuse(r) \/ Uploads!Reject(r) \/ Uploads!Check(r)
             \/ Uploads!Move(r) \/ Uploads!MoveFails(r) \/ Uploads!Attach(r) \/ Uploads!AttachFails(r)
      BY <2>2 DEF Uploads!Next
    <3>2. CASE Uploads!Upload(r) \/ Uploads!Refuse(r) \/ Uploads!Reject(r) \/ Uploads!Check(r)
      BY <1>2, <3>2 DEF Uploads!Upload, Uploads!Refuse, Uploads!Reject, Uploads!Check, Uploads!Go
    <3>3. CASE Uploads!Move(r)
      BY <1>2, <3>3 DEF Uploads!Move, Uploads!Go
    <3>4. CASE Uploads!MoveFails(r) \/ Uploads!AttachFails(r)
      BY <1>2, <3>4 DEF Uploads!MoveFails, Uploads!AttachFails, Uploads!Go
    <3>5. CASE Uploads!Attach(r)
      BY <1>2, <3>5 DEF Uploads!Attach, Uploads!Go
    <3>. QED BY <3>1, <3>2, <3>3, <3>4, <3>5
  <2>. QED BY <1>2, <2>1, <2>2
<1>. QED BY <1>1, <1>2

\* A message has one of the ids there are, and was written at a time that is not later than now.
Timely(m) == m.id \in 1..MaxMessages /\ m.sent \in 1..MaxTime /\ m.created_at \in m.sent..clock

\* Messages, the preview and the marks are not from later than now.
TimesKept ==
    /\ clock \in 1..MaxTime
    /\ \A m \in thread : Timely(m)
    /\ \A u \in Threads!Users : writing[u] # Threads!None => Timely(writing[u])
    /\ preview.at \in 1..MaxTime /\ preview.of \in 1..MaxMessages
    /\ last_read_at \in [Threads!Users -> 0..clock] /\ role_read_at \in [Threads!Roles -> 0..clock]
    /\ blind \subseteq Threads!Users

\* The time goes on, and what was not later stays so.
LEMMA TimesTick == ASSUME TimesKept, Threads!Tick PROVE TimesKept'
<1>1. clock' \in 1..MaxTime /\ clock \in Nat /\ clock' = clock + 1
  BY BoundAssumption, ThreadAssumption DEF TimesKept, Threads!Tick
<1>2. ASSUME NEW m, Timely(m) PROVE Timely(m)'
  BY <1>1, <1>2, ThreadAssumption DEF Timely
<1>3. 0..clock \subseteq 0..clock'
  BY <1>1
<1>4. /\ last_read_at \in [Threads!Users -> 0..clock'] /\ role_read_at \in [Threads!Roles -> 0..clock']
  BY <1>3 DEF TimesKept
<1>. QED BY <1>1, <1>2, <1>4 DEF TimesKept, Threads!Tick, Timely

\* A message that is stamped is from now.
LEMMA TimesStamp ==
    ASSUME ThreadTypes, ThreadTypes', TimesKept, NEW u \in Writers, NEW kind, NEW sent \in 1..MaxTime,
           Threads!Stamp(u, kind, sent)
    PROVE  TimesKept'
<1>. DEFINE id == 1 + Threads!Cardinality(thread) + Threads!Cardinality(
                    {v \in Threads!InFlight : writing[v].id \notin {m.id : m \in thread}})
            new == Threads!Message(id, u, kind, sent, clock)
<1>1. /\ id <= MaxMessages /\ sent \in clock - 1..clock /\ writing' = [writing EXCEPT ![u] = new]
      /\ UNCHANGED <<clock, thread, preview, last_read_at, role_read_at, blind>>
  BY DEF Threads!Stamp
<1>2. u \in Threads!Users /\ DOMAIN writing = Threads!Users
  BY ThreadAssumption DEF ThreadTypes, Threads!Users
<1>3. new.id = id /\ new.sent = sent /\ new.created_at = clock
  BY DEF Threads!Message
<1>4. writing'[u] = new
  BY <1>1, <1>2
<1>. HIDE DEF id
<1>5. new # Threads!None
  BY DEF Threads!Message, Threads!None
<1>6. id \in Nat \ {0}
  BY <1>2, <1>3, <1>4, <1>5 DEF ThreadTypes, Stamped
<1>7. Timely(new)
  BY <1>1, <1>3, <1>6, BoundAssumption, ThreadAssumption DEF Timely, TimesKept
<1>. HIDE DEF new
<1>8. \A v \in Threads!Users : writing'[v] = IF v = u THEN new ELSE writing[v]
  BY <1>1, <1>2
<1>9. \A m : Timely(m)' <=> Timely(m)
  BY <1>1 DEF Timely
<1>. QED BY <1>1, <1>7, <1>8, <1>9 DEF TimesKept

\* A message is inserted or published with its times.
LEMMA TimesWrite ==
    ASSUME ThreadTypes, TimesKept, NEW u \in Writers, Threads!Insert(u) \/ Threads!Publish(u)
    PROVE  TimesKept'
<1>1. u \in Threads!Users /\ DOMAIN writing = Threads!Users
  BY ThreadAssumption DEF ThreadTypes, Threads!Users
<1>2. Timely(writing[u]) /\ UNCHANGED <<clock, last_read_at, role_read_at, blind>>
  BY <1>1 DEF TimesKept, Threads!Insert, Threads!Publish
<1>3. \A m : Timely(m)' <=> Timely(m)
  BY <1>2 DEF Timely
<1>4. thread' \subseteq thread \union {writing[u]}
  BY DEF Threads!Insert, Threads!Publish
<1>5. \A v \in Threads!Users : writing'[v] \in {writing[v], Threads!None}
  BY <1>1 DEF Threads!Insert, Threads!Publish
<1>6. preview' = preview \/ (preview'.at = writing[u].sent /\ preview'.of = writing[u].id)
  BY DEF Threads!Insert, Threads!Publish
<1>7. preview'.at \in 1..MaxTime /\ preview'.of \in 1..MaxMessages
  BY <1>2, <1>6 DEF TimesKept, Timely
<1>. QED BY <1>2, <1>3, <1>4, <1>5, <1>7 DEF TimesKept

\* A mark is not later than now.
LEMMA TimesMark ==
    ASSUME TimesKept, NEW u \in Readers, NEW up_to \in Nat, Threads!Mark(u, up_to)
    PROVE  TimesKept'
<1>. DEFINE cursor == IF up_to = 0 \/ up_to > clock THEN clock ELSE up_to
<1>1. u \in Threads!Users /\ Threads!role(u) \in Threads!Roles
  BY ThreadAssumption DEF Threads!Users, Threads!role, Threads!Roles
<1>2. cursor \in 0..clock /\ clock \in Nat
  BY BoundAssumption, ThreadAssumption DEF TimesKept
<1>3. \A n \in 0..clock : Threads!Later(n, cursor) \in 0..clock
  BY <1>2 DEF Threads!Later
<1>4. /\ last_read_at' = [last_read_at EXCEPT ![u] = Threads!Later(@, cursor)]
      /\ role_read_at' = [role_read_at EXCEPT ![Threads!role(u)] = Threads!Later(@, cursor)]
      /\ blind' \subseteq blind \union {u}
      /\ UNCHANGED <<clock, thread, writing, preview>>
  BY DEF Threads!Mark
<1>. HIDE DEF cursor
<1>5. last_read_at' \in [Threads!Users -> 0..clock] /\ role_read_at' \in [Threads!Roles -> 0..clock]
  BY <1>1, <1>3, <1>4 DEF TimesKept
<1>6. \A m : Timely(m)' <=> Timely(m)
  BY <1>4 DEF Timely
<1>. QED BY <1>1, <1>4, <1>5, <1>6 DEF TimesKept

\* Every step of a thread keeps its times.
LEMMA TimesStep ==
    ASSUME ThreadTypes, ThreadTypes', TimesKept, [Threads!Next]_(Threads!vars)
    PROVE  TimesKept'
<1>1. CASE UNCHANGED Threads!vars
  BY <1>1 DEF Threads!vars, TimesKept, Timely
<1>2. ASSUME NEW u \in Readers, Threads!MarkShown(u) PROVE TimesKept'
  <2>1. u \in Threads!Users /\ shown[u] # {}
    BY <1>2, ThreadAssumption DEF Threads!MarkShown, Threads!Users
  <2>2. Threads!Max(Threads!Times(shown[u])) \in Nat
    BY <2>1, LatestShown
  <2>. QED BY <1>2, <2>2, TimesMark DEF Threads!MarkShown
<1>3. ASSUME NEW u \in Readers, Threads!Mark(u, 0) PROVE TimesKept'
  BY <1>3, TimesMark
<1>4. ASSUME NEW u \in Readers, Threads!Ask(u) PROVE TimesKept'
  BY <1>4 DEF Threads!Ask, TimesKept, Timely
<1>. QED BY <1>1, <1>2, <1>3, <1>4, TimesTick, TimesStamp, TimesWrite DEF Threads!Next

\* A thread starts with the author's message.
LEMMA TimesStart == Threads!Init => TimesKept
<1>. SUFFICES ASSUME Threads!Init PROVE TimesKept
  OBVIOUS
<1>. USE BoundAssumption, ThreadAssumption DEF Threads!Init, Threads!created
<1>1. clock = 2 /\ clock \in 1..MaxTime
  OBVIOUS
<1>2. \A m \in thread : Timely(m)
  BY <1>1 DEF Timely, Threads!Message
<1>3. \A u \in Threads!Users : writing[u] = Threads!None
  OBVIOUS
<1>. QED BY <1>1, <1>2, <1>3 DEF TimesKept

\* The types of a thread.
LEMMA ThreadTyped == ThreadTypes /\ TimesKept => Threads!TypeOK
<1>. SUFFICES ASSUME ThreadTypes, TimesKept PROVE Threads!TypeOK
  OBVIOUS
<1>1. clock \in Nat /\ 0..clock \subseteq 0..MaxTime
  BY ThreadAssumption DEF TimesKept
<1>2. last_read_at \in [Threads!Users -> 0..MaxTime] /\ role_read_at \in [Threads!Roles -> 0..MaxTime]
  BY <1>1 DEF TimesKept
<1>. QED BY <1>2 DEF ThreadTypes, TimesKept, Timely, Threads!TypeOK

-----------------------------------------------------------------------------
\* What a document has besides what accounts sign in with, and what a body may set of it.
Particular(d) == d.mail \in Mails \union {Accts!NoMail} /\ d.status \in 0..2
Setting(ch) == /\ "mail" \in DOMAIN ch => ch["mail"] \in Mails \union {Accts!NoMail}
               /\ "status" \in DOMAIN ch => ch["status"] \in 0..2

\* A call under way has such a document and such a body.
CallDetails(r) == r.pc # "idle" => Particular(r.copy) /\ Setting(r.changes)

\* Prefixes are those of names, counters are within their bound, and accounts and calls
\* have addresses and statuses there are.
AccountDetails ==
    /\ company \in [Orgs -> Prefixes] /\ counter \in [Orgs -> 0..MaxNumber]
    /\ \A u \in AccountUsers : There(u) => Particular(users[u])
    /\ \A c \in Callers : CallDetails(call[c])

\* A body over a document leaves it an address and a status.
LEMMA OverDetails ==
    ASSUME NEW d, NEW ch, Document(d), Particular(d), Setting(ch)
    PROVE  Particular(Accts!Over(d, ch))
BY DEF Document, Particular, Setting, Accts!Over

\* What is modified is as the body has it.
LEMMA ModifiedDetails ==
    ASSUME NEW d, NEW body, Setting(body)
    PROVE  Setting(Accts!Modified(d, body)) /\ Setting(Accts!Modified(d, Accts!ClearPin(d, body)))
<1>1. ASSUME NEW b, Setting(b) PROVE Setting(Accts!Modified(d, b))
  BY <1>1 DEF Setting, Accts!Modified
<1>2. Setting(Accts!With(body, "pin", FALSE))
  <2>. DEFINE b == Accts!With(body, "pin", FALSE)
  <2>1. DOMAIN b = DOMAIN body \union {"pin"} /\ \A f \in DOMAIN body \ {"pin"} : b[f] = body[f]
    BY DEF Accts!With
  <2>2. "mail" \in DOMAIN b => "mail" \in DOMAIN body /\ b["mail"] = body["mail"]
    BY <2>1
  <2>3. "status" \in DOMAIN b => "status" \in DOMAIN body /\ b["status"] = body["status"]
    BY <2>1
  <2>. HIDE DEF b
  <2>4. Setting(b)
    BY <2>2, <2>3 DEF Setting
  <2>. QED BY <2>4 DEF b
<1>3. Setting(Accts!ClearPin(d, body))
  BY <1>2 DEF Accts!ClearPin
<1>. QED BY <1>1, <1>3

\* A step of a call that leaves the accounts alone.
LEMMA DetailsCall ==
    ASSUME AccountDetails, NEW c \in Callers, \A d \in Callers \ {c} : call'[d] = call[d],
           CallDetails(call'[c]), UNCHANGED <<company, counter, users>>
    PROVE  AccountDetails'
BY DEF AccountDetails, CallDetails, Particular, Setting, There

\* A call begins with a new document.
LEMMA DetailsCreate ==
    ASSUME AccountTypes, AccountDetails, NEW c \in Callers, NEW o \in Orgs,
           NEW role \in {"OPERATOR", "ORGANIZATION_ADMIN"}, NEW mail \in Mails \union {Accts!NoMail},
           Accts!Create(c, o, role, mail)
    PROVE  AccountDetails'
<1>. DEFINE d == Accts!Person(o, role, Accts!NoId, role = "OPERATOR", mail)
<1>1. /\ call' = [call EXCEPT ![c] = [Accts!Idle EXCEPT
                     !.pc = IF mail # Accts!NoMail THEN "taken" ELSE "company", !.new = TRUE, !.copy = d]]
      /\ UNCHANGED <<company, counter, users>> /\ DOMAIN call = Callers
  BY DEF Accts!Create, AccountTypes
<1>2. Particular(d)
  BY DEF Particular, Accts!Person
<1>. HIDE DEF d
<1>3. call'[c].copy = d /\ call'[c].changes = << >>
  BY <1>1 DEF Accts!Idle
<1>4. CallDetails(call'[c])
  BY <1>2, <1>3 DEF CallDetails, Setting
<1>. QED BY <1>1, <1>4, DetailsCall

\* A call begins with a document there is.
LEMMA DetailsHold ==
    ASSUME AccountTypes, AccountDetails, NEW c \in Callers, NEW u \in AccountUsers, NEW pc, NEW ch,
           Setting(ch), Accts!Hold(c, u, pc, ch)
    PROVE  AccountDetails'
<1>1. /\ call' = [call EXCEPT ![c] = [Accts!Idle EXCEPT !.pc = pc, !.user = u, !.copy = users[u],
                                                        !.changes = ch]]
      /\ users[u].status # 2 /\ UNCHANGED <<company, counter, users>> /\ DOMAIN call = Callers
  BY DEF Accts!Hold, Accts!Live, AccountTypes
<1>2. There(u)
  BY <1>1 DEF There, Accts!Absent
<1>3. call'[c].copy = users[u] /\ call'[c].changes = ch
  BY <1>1 DEF Accts!Idle
<1>4. CallDetails(call'[c])
  BY <1>2, <1>3 DEF CallDetails, AccountDetails
<1>. QED BY <1>1, <1>4, DetailsCall

\* A call goes on with its document and body, or with a number more.
LEMMA DetailsGoOn ==
    ASSUME AccountTypes, AccountDetails, NEW c \in Callers,
           Accts!CheckMail(c) \/ Accts!ReadCompany(c) \/ Accts!DrawNumber(c) \/ Accts!Die(c)
    PROVE  AccountDetails'
<1>1. DOMAIN call = Callers /\ CallOK(call[c]) /\ CallDetails(call[c]) /\ call[c].pc # "idle"
  BY DEF AccountTypes, AccountDetails, Accts!CheckMail, Accts!ReadCompany, Accts!DrawNumber, Accts!Die
<1>2. call[c] = [pc |-> call[c].pc, new |-> call[c].new, user |-> call[c].user, copy |-> call[c].copy,
                 changes |-> call[c].changes, prefix |-> call[c].prefix, attempt |-> call[c].attempt]
  BY <1>1 DEF CallOK
<1>3. CallDetails(Accts!Idle)
  BY DEF CallDetails, Accts!Idle
<1>4. CASE Accts!CheckMail(c) \/ Accts!ReadCompany(c) \/ Accts!Die(c)
  <2>1. /\ call'[c] = Accts!Idle \/ (call'[c].copy = call[c].copy /\ call'[c].changes = call[c].changes)
        /\ \A d \in Callers \ {c} : call'[d] = call[d]
        /\ UNCHANGED <<company, counter, users>>
    BY <1>1, <1>2, <1>4 DEF Accts!CheckMail, Accts!ReadCompany, Accts!Die
  <2>2. CallDetails(call'[c])
    BY <1>1, <1>3, <2>1 DEF CallDetails
  <2>. QED BY <2>1, <2>2, DetailsCall
<1>5. CASE Accts!DrawNumber(c)
  <2>. DEFINE o == call[c].copy.org
              id == <<call[c].prefix, counter[o] + 1>>
  <2>1. /\ call' = IF call[c].new THEN [call EXCEPT ![c].pc = "save", ![c].copy.id = id]
                   ELSE [call EXCEPT ![c].pc = "save", ![c].changes = Accts!With(@, "id", id)]
        /\ counter[o] < MaxNumber /\ counter' = [counter EXCEPT ![o] = @ + 1]
        /\ UNCHANGED <<company, users>>
    BY <1>5 DEF Accts!DrawNumber, Accts!Draw
  <2>2. o \in Orgs /\ Document(call[c].copy)
    BY <1>1 DEF CallOK, Document
  <2>3. counter' \in [Orgs -> 0..MaxNumber]
    BY <2>1, <2>2, BoundAssumption DEF AccountDetails
  <2>. HIDE DEF id
  <2>4. CallDetails(call'[c])
    <3>1. CASE call[c].new
      <4>1. call'[c].copy = [call[c].copy EXCEPT !.id = id] /\ call'[c].changes = call[c].changes
        BY <1>1, <1>2, <2>1, <3>1
      <4>2. call'[c].copy.mail = call[c].copy.mail /\ call'[c].copy.status = call[c].copy.status
        BY <2>2, <4>1 DEF Document
      <4>. QED BY <1>1, <4>1, <4>2 DEF CallDetails, Particular
    <3>2. CASE ~call[c].new
      <4>1. call'[c].copy = call[c].copy /\ call'[c].changes = Accts!With(call[c].changes, "id", id)
        BY <1>1, <1>2, <2>1, <3>2
      <4>2. Setting(call'[c].changes)
        BY <1>1, <4>1 DEF CallDetails, Setting, Accts!With
      <4>. QED BY <1>1, <4>1, <4>2 DEF CallDetails
    <3>. QED BY <3>1, <3>2
  <2>5. \A d \in Callers \ {c} : call'[d] = call[d]
    BY <1>1, <2>1
  <2>. QED BY <2>1, <2>3, <2>4, <2>5 DEF AccountDetails, CallDetails, Particular, Setting, There
<1>. QED BY <1>4, <1>5

\* An account is written from a call's document, and keeps an address and a status.
LEMMA DetailsWrite ==
    ASSUME AccountTypes, AccountDetails, NEW c \in Callers, Accts!Insert(c) \/ Accts!Save(c)
    PROVE  AccountDetails'
<1>1. /\ DOMAIN call = Callers /\ DOMAIN users = AccountUsers /\ CallOK(call[c]) /\ call[c].pc # "idle"
      /\ Particular(call[c].copy) /\ Setting(call[c].changes)
      /\ UNCHANGED <<company, counter>>
  BY DEF AccountTypes, AccountDetails, CallDetails, Accts!Insert, Accts!Save
<1>2. call[c] = [pc |-> call[c].pc, new |-> call[c].new, user |-> call[c].user, copy |-> call[c].copy,
                 changes |-> call[c].changes, prefix |-> call[c].prefix, attempt |-> call[c].attempt]
  BY <1>1 DEF CallOK
<1>3. Document(call[c].copy)
  BY <1>1 DEF CallOK
<1>4. \A d \in Callers \ {c} : call'[d] = call[d]
  BY <1>1 DEF Accts!Insert, Accts!Save
<1>5. CallDetails(call'[c])
  <2>1. \/ call' = [call EXCEPT ![c] = Accts!Idle]
        \/ \E n, pc : call' = [call EXCEPT ![c].attempt = n, ![c].copy.id = Accts!NoId, ![c].pc = pc]
    BY DEF Accts!Insert, Accts!Save
  <2>2. CASE call' = [call EXCEPT ![c] = Accts!Idle]
    BY <1>1, <2>2 DEF CallDetails, Accts!Idle
  <2>3. ASSUME NEW n, NEW pc, call' = [call EXCEPT ![c].attempt = n, ![c].copy.id = Accts!NoId, ![c].pc = pc]
        PROVE  CallDetails(call'[c])
    <3>1. call'[c].copy = [call[c].copy EXCEPT !.id = Accts!NoId] /\ call'[c].changes = call[c].changes
      BY <1>1, <1>2, <2>3
    <3>2. call'[c].copy.mail = call[c].copy.mail /\ call'[c].copy.status = call[c].copy.status
      BY <1>3, <3>1 DEF Document
    <3>. QED BY <1>1, <3>1, <3>2 DEF CallDetails, Particular
  <2>. QED BY <2>1, <2>2, <2>3
<1>6. \A u \in AccountUsers : There(u)' => Particular(users'[u])
  <2>1. CASE UNCHANGED users
    BY <2>1 DEF There, AccountDetails
  <2>2. ASSUME NEW u \in AccountUsers, users' = [users EXCEPT ![u] = call[c].copy]
        PROVE  \A v \in AccountUsers : There(v)' => Particular(users'[v])
    BY <1>1, <2>2 DEF There, AccountDetails
  <2>3. CASE Accts!Save(c) /\ ~ UNCHANGED users
    <3>. DEFINE u == call[c].user
                new == Accts!Over(users[u], call[c].changes)
    <3>1. users' = [users EXCEPT ![u] = new] /\ users' # users
      BY <2>3 DEF Accts!Save
    <3>2. ASSUME There(u) PROVE Particular(new)
      BY <1>1, <3>2, OverDetails DEF AccountTypes, AccountDetails, There
    <3>3. ASSUME u \in AccountUsers, ~There(u) PROVE Particular(new)
      BY <1>1, <3>3 DEF There, Accts!Absent, Accts!Over, Particular, Setting
    <3>. HIDE DEF new
    <3>. QED BY <1>1, <3>1, <3>2, <3>3 DEF There, AccountDetails
  <2>. QED BY <2>1, <2>2, <2>3 DEF Accts!Insert
<1>. QED BY <1>1, <1>4, <1>5, <1>6 DEF AccountDetails, CallDetails, Particular, Setting

\* The migration sets ids, and an organization another name.
LEMMA DetailsElse ==
    ASSUME AccountTypes, AccountDetails,
           \/ \E o \in Orgs, prefix \in Prefixes : Accts!Rename(o, prefix)
           \/ Accts!IdsFind \/ (\E u \in AccountUsers : Accts!IdsNext(u)) \/ Accts!IdsDraw \/ Accts!IdsWrite
    PROVE  AccountDetails'
<1>. USE DEF CallDetails, Particular, Setting, There
<1>1. ASSUME NEW o \in Orgs, NEW prefix \in Prefixes, Accts!Rename(o, prefix) PROVE AccountDetails'
  BY <1>1 DEF Accts!Rename, AccountDetails
<1>2. CASE Accts!IdsFind \/ \E u \in AccountUsers : Accts!IdsNext(u)
  BY <1>2 DEF Accts!IdsFind, Accts!IdsNext, AccountDetails
<1>3. CASE Accts!IdsDraw
  <2>. DEFINE o == users[ids.user].org
  <2>1. /\ ids.pc = "number" /\ counter[o] < MaxNumber /\ counter' = [counter EXCEPT ![o] = @ + 1]
        /\ UNCHANGED <<company, users, call>>
    BY <1>3 DEF Accts!IdsDraw, Accts!Draw
  <2>2. o \in Orgs
    BY <2>1 DEF AccountTypes, Document
  <2>3. counter' \in [Orgs -> 0..MaxNumber]
    BY <2>1, <2>2, BoundAssumption DEF AccountDetails
  <2>. QED BY <2>1, <2>3 DEF AccountDetails
<1>4. CASE Accts!IdsWrite
  <2>. DEFINE u == ids.user
              id == <<ids.prefix, ids.number>>
  <2>1. /\ users' = users \/ users' = [users EXCEPT ![u].id = id]
        /\ UNCHANGED <<company, counter, call>> /\ ids.pc = "write"
    BY <1>4 DEF Accts!IdsWrite
  <2>2. There(u) /\ Document(users[u]) /\ DOMAIN users = AccountUsers
    BY <2>1 DEF AccountTypes
  <2>. HIDE DEF id, u
  <2>3. CASE users' = [users EXCEPT ![u].id = id]
    <3>1. users'[u] = [users[u] EXCEPT !.id = id] /\ \A v \in AccountUsers \ {u} : users'[v] = users[v]
      BY <2>2, <2>3
    <3>2. users'[u].mail = users[u].mail /\ users'[u].status = users[u].status
      BY <2>2, <3>1 DEF Document
    <3>3. Particular(users'[u]) /\ \A v \in AccountUsers \ {u} : There(v)' => Particular(users'[v])
      BY <2>2, <3>1, <3>2 DEF AccountDetails
    <3>. QED BY <2>1, <3>3 DEF AccountDetails
  <2>4. CASE users' = users
    BY <2>1, <2>4 DEF AccountDetails
  <2>. QED BY <2>1, <2>3, <2>4
<1>. QED BY <1>1, <1>2, <1>3, <1>4

\* Every step of the accounts keeps them.
LEMMA DetailsStep ==
    ASSUME AccountTypes, AccountDetails, [Accts!Next]_(Accts!vars)
    PROVE  AccountDetails'
<1>1. CASE UNCHANGED Accts!vars
  BY <1>1 DEF Accts!vars, AccountDetails, CallDetails, Particular, Setting, There
<1>2. ASSUME NEW c \in Callers, NEW u \in AccountUsers,
             \/ \E body \in Accts!Bodies : Accts!Update(c, u, body)
             \/ \E role \in {"OPERATOR", "ORGANIZATION_ADMIN"} : Accts!SetRole(c, u, role)
             \/ \E status \in 0..2 : Accts!SetStatus(c, u, status)
      PROVE  AccountDetails'
  <2>1. ASSUME NEW body \in Accts!Bodies, Accts!Update(c, u, body) PROVE AccountDetails'
    <3>1. Setting(body)
      BY DEF Accts!Bodies, Setting
    <3>. DEFINE pc == IF "mail" \in DOMAIN body /\ body.mail # Accts!NoMail THEN "taken"
                      ELSE IF Accts!LacksId(users[u], body) THEN "company" ELSE "save"
                ch == Accts!Modified(users[u], Accts!ClearPin(users[u], body))
    <3>2. Accts!Hold(c, u, pc, ch)
      BY <2>1 DEF Accts!Update
    <3>3. Setting(ch)
      BY <3>1, ModifiedDetails
    <3>. HIDE DEF pc, ch
    <3>. QED BY <3>2, <3>3, DetailsHold
  <2>2. ASSUME NEW role, Accts!SetRole(c, u, role) PROVE AccountDetails'
    <3>. DEFINE ch == Accts!Modified(users[u], [role |-> role])
    <3>1. Accts!Hold(c, u, "role", ch) /\ Setting(ch)
      BY <2>2 DEF Accts!SetRole, Setting, Accts!Modified
    <3>. HIDE DEF ch
    <3>. QED BY <3>1, DetailsHold
  <2>3. ASSUME NEW to \in 0..2, Accts!SetStatus(c, u, to) PROVE AccountDetails'
    <3>. DEFINE ch == Accts!Modified(users[u], [status |-> to])
    <3>1. Accts!Hold(c, u, "status", ch) /\ Setting(ch)
      BY <2>3 DEF Accts!SetStatus, Setting, Accts!Modified
    <3>. HIDE DEF ch
    <3>. QED BY <3>1, DetailsHold
  <2>. QED BY <1>2, <2>1, <2>2, <2>3
<1>. QED BY <1>1, <1>2, DetailsCreate, DetailsGoOn, DetailsWrite, DetailsElse DEF Accts!Next

\* The accounts there are at first have addresses and statuses.
LEMMA DetailsStart == Accts!Init => AccountDetails
<1>. SUFFICES ASSUME Accts!Init PROVE AccountDetails
  OBVIOUS
<1>1. /\ company = FirstNames /\ call = [c \in Callers |-> Accts!Idle]
      /\ users = [u \in AccountUsers |-> IF u \in DOMAIN Roster THEN Roster[u] ELSE Accts!Absent]
      /\ counter = [o \in Orgs |-> Accts!Cardinality({u \in DOMAIN Roster :
                                      Roster[u].org = o /\ Roster[u].id # Accts!NoId})]
  BY DEF Accts!Init
<1>2. ASSUME NEW o \in Orgs PROVE counter[o] \in 0..MaxNumber
  <2>. DEFINE T == {u \in DOMAIN Roster : Roster[u].org = o /\ Roster[u].id # Accts!NoId}
              S == {u \in DOMAIN Roster : Roster[u].org = o}
  <2>1. counter[o] = Cardinality(T) /\ T \subseteq S /\ S \subseteq AccountUsers /\ IsFiniteSet(AccountUsers)
    BY <1>1, AccountCounts, AccountAssumption
  <2>2. Cardinality(S) <= MaxNumber
    BY BoundAssumption
  <2>. HIDE DEF T, S
  <2>3. IsFiniteSet(S) /\ IsFiniteSet(T) /\ Cardinality(T) <= Cardinality(S)
    BY <2>1, FS_Subset
  <2>. QED BY <2>1, <2>2, <2>3, FS_CardinalityType, BoundAssumption
<1>3. counter \in [Orgs -> 0..MaxNumber] /\ company \in [Orgs -> Prefixes]
  BY <1>1, <1>2, BoundAssumption
<1>4. \A u \in AccountUsers : There(u) => Particular(users[u])
  BY <1>1, BoundAssumption DEF There, Particular, Accts!NoMail
<1>5. \A c \in Callers : CallDetails(call[c])
  BY <1>1 DEF CallDetails, Accts!Idle
<1>. QED BY <1>3, <1>4, <1>5 DEF AccountDetails

\* The types of the accounts.
LEMMA AccountTyped == AccountTypes /\ AccountDetails => Accts!TypeOK
BY DEF AccountTypes, AccountDetails, There, Document, Particular, Accts!TypeOK

-----------------------------------------------------------------------------
\* Statuses of organizations, as they are and as they are about to be written, and the
\* number of requests made.
StatusKept ==
    /\ org.status \in 0..2 /\ edits \in 0..MaxEdits
    /\ \A c \in Editors : edit[c].pc = "save" /\ "status" \in DOMAIN edit[c].body =>
          edit[c].body["status"] \in 0..2

\* A request that begins has a status there is.
LEMMA StatusBegins ==
    ASSUME CompanyInv, StatusKept, NEW c \in Editors, NEW pc, NEW h, NEW b, Companies!Begin(c, pc, h, b),
           pc = "save" /\ "status" \in DOMAIN b => b["status"] \in 0..2, org'.status \in 0..2
    PROVE  StatusKept'
<1>1. edits' \in 0..MaxEdits
  BY BoundAssumption DEF Companies!Begin, StatusKept
<1>. DEFINE met(d) == edit'[d].crossed
<1>2. edit'[c] = [pc |-> pc, held |-> h, body |-> b, crossed |-> met(c)]
  BY CompanyBegins
<1>3. \A d \in Editors \ {c} :
        edit'[d] = [pc |-> edit[d].pc, held |-> edit[d].held, body |-> edit[d].body, crossed |-> met(d)]
  BY CompanyBegins
<1>. HIDE DEF met
<1>4. edit'[c].pc = pc /\ edit'[c].body = b
  BY <1>2
<1>5. ASSUME NEW d \in Editors \ {c} PROVE edit'[d].pc = edit[d].pc /\ edit'[d].body = edit[d].body
  <2>1. edit'[d] = [pc |-> edit[d].pc, held |-> edit[d].held, body |-> edit[d].body, crossed |-> met(d)]
    BY <1>3
  <2>. DEFINE p == edit[d].pc
              old == edit[d].held
              new == edit[d].body
  <2>2. edit'[d] = [pc |-> p, held |-> old, body |-> new, crossed |-> met(d)]
    BY <2>1
  <2>. SUFFICES edit'[d].pc = p /\ edit'[d].body = new
    OBVIOUS
  <2>. HIDE DEF p, old, new
  <2>. QED BY <2>2
<1>. QED BY <1>1, <1>4, <1>5 DEF StatusKept

\* A request that goes on or ends writes it.
LEMMA StatusGoesOn ==
    ASSUME CompanyTypes, StatusKept, NEW c \in Editors,
           \/ Companies!InsertAdmin(c) \/ Companies!Save(c) \/ Companies!Cascade(c)
           \/ Companies!Fail(c) \/ Companies!SaveProfile(c)
    PROVE  StatusKept'
<1>1. DOMAIN edit = Editors /\ edits' = edits
  BY DEF CompanyTypes, Companies!InsertAdmin, Companies!Save, Companies!Cascade, Companies!Fail,
         Companies!SaveProfile
<1>2. edit' = [edit EXCEPT ![c] = Companies!Idle] \/ edit' = [edit EXCEPT ![c].pc = "cascade"]
  BY DEF Companies!InsertAdmin, Companies!Save, Companies!Cascade, Companies!Fail,
         Companies!SaveProfile, Companies!End
<1>3. \A d \in Editors : edit'[d].pc = "save" => edit'[d] = edit[d]
  <2>1. edit[c] = [pc |-> edit[c].pc, held |-> edit[c].held, body |-> edit[c].body, crossed |-> edit[c].crossed]
    BY DEF CompanyTypes
  <2>. QED BY <1>1, <1>2, <2>1 DEF Companies!Idle
<1>4. org'.status \in 0..2
  <2>1. CASE Companies!Save(c)
    <3>1. org' = Companies!Written(org, edit[c].held, edit[c].body) /\ edit[c].pc = "save"
      BY <2>1 DEF Companies!Save
    <3>. QED BY <3>1 DEF StatusKept, CompanyTypes, Companies!Written
  <2>2. CASE ~Companies!Save(c)
    BY <2>2 DEF Companies!InsertAdmin, Companies!Cascade, Companies!Fail, Companies!SaveProfile, StatusKept
  <2>. QED BY <2>1, <2>2
<1>. QED BY <1>1, <1>3, <1>4 DEF StatusKept

\* Every step of the organizations keeps the statuses.
LEMMA StatusStep ==
    ASSUME CompanyInv, StatusKept, [Companies!Next]_(Companies!vars)
    PROVE  StatusKept'
<1>1. CASE UNCHANGED Companies!vars
  BY <1>1 DEF Companies!vars, StatusKept
<1>2. ASSUME NEW c \in Editors, NEW new \in Creations, Companies!Create(c, new) PROVE StatusKept'
  <2>. DEFINE owner == [new.admin EXCEPT !.country = org'.country]
  <2>1. /\ org' = [new.org EXCEPT !.country =
                     IF new.country \in DOMAIN Canonical THEN Canonical[new.country] ELSE ""]
        /\ Companies!Begin(c, "admin", Companies!NoOne, owner)
    BY <1>2 DEF Companies!Create
  <2>. DEFINE there == IF new.country \in DOMAIN Canonical THEN Canonical[new.country] ELSE ""
  <2>2. org' = [new.org EXCEPT !.country = there] /\ new.org.status \in 0..2
    BY <2>1, BoundAssumption
  <2>. HIDE DEF there
  <2>3. org'.status \in 0..2
    BY <2>2, CompanyAssumption
  <2>. HIDE DEF owner
  <2>. QED BY <2>1, <2>3, StatusBegins
<1>3. ASSUME NEW c \in Editors, NEW body \in Updates, Companies!Update(c, body) PROVE StatusKept'
  <2>. DEFINE b == Companies!Normalized(body)
  <2>1. "status" \in DOMAIN b => b["status"] \in 0..2
    BY BoundAssumption DEF Companies!Normalized, Companies!Without
  <2>2. Companies!Begin(c, "save", org, b) /\ org'.status \in 0..2
    BY <1>3 DEF Companies!Update, StatusKept
  <2>. HIDE DEF b
  <2>. QED BY <2>1, <2>2, StatusBegins
<1>4. ASSUME NEW c \in Editors, NEW to \in 0..2, Companies!SetStatus(c, to) PROVE StatusKept'
  <2>. DEFINE b == [f \in {"status"} |-> to]
  <2>1. b["status"] \in 0..2
    OBVIOUS
  <2>2. Companies!Begin(c, "save", org, b) /\ org'.status \in 0..2
    BY <1>4 DEF Companies!SetStatus, StatusKept
  <2>. HIDE DEF b
  <2>. QED BY <2>1, <2>2, StatusBegins
<1>5. ASSUME NEW c \in Editors, NEW body \in Profiles, Companies!EditProfile(c, body) PROVE StatusKept'
  <2>. DEFINE b == Companies!Normalized(body)
  <2>1. Companies!Begin(c, "profile", admin, b) /\ org'.status \in 0..2
    BY <1>5 DEF Companies!EditProfile, StatusKept
  <2>. HIDE DEF b
  <2>. QED BY <2>1, StatusBegins
<1>6. ASSUME NEW c \in Editors,
             \/ Companies!InsertAdmin(c) \/ Companies!Save(c) \/ Companies!Cascade(c)
             \/ Companies!Fail(c) \/ Companies!SaveProfile(c)
      PROVE  StatusKept'
  BY <1>6, StatusGoesOn DEF CompanyInv
<1>. QED BY <1>1, <1>2, <1>3, <1>4, <1>5, <1>6 DEF Companies!Next

\* There is no organization at first.
LEMMA StatusStart == Companies!Init => StatusKept
BY BoundAssumption DEF Companies!Init, Companies!NoOrg, Companies!Idle, StatusKept

\* The types of the organizations.
LEMMA CompanyTyped == CompanyTypes /\ StatusKept => Companies!TypeOK
BY DEF CompanyTypes, StatusKept, Companies!TypeOK

\* The types of mails.
LEMMA MailTyped == MailInv => ByMail!TypeOK
BY ReminderAssumption DEF MailInv, MailTypes, Loop, SweepType, ByMail!TypeOK

\* The types of notices.
LEMMA NoticeTyped == NoticeTypes => InApp!TypeOK
<1>. SUFFICES ASSUME NoticeTypes, NEW w \in Workers, NEW x \in run[w]
              PROVE  x.sub \in NoticeSubs /\ x.days \in AppWindows
  BY DEF NoticeTypes, InApp!TypeOK
<1>1. x \in [sub : NoticeSubs, days : AppWindows, won : BOOLEAN]
  BY DEF NoticeTypes
<1>. QED BY <1>1

-----------------------------------------------------------------------------
(* A desk and an account.                                                  *)

\* What a list of tickets shows in a view, and what is asked for.
LEMMA CountersMatch ==
    ASSUME NEW desk, NEW who, NEW now
    PROVE  Views!CountersMatchLists(desk, who, now)
BY DEF Views!CountersMatchLists, Views!getSummary, Views!listTickets, Views!applyView, Views!Scope,
       Views!ActiveStatuses, Views!CustomerWroteLast

\* A view of whose turn it is lists the tickets that say so.
LEMMA TurnsMatch ==
    ASSUME NEW desk, NEW now, \A n \in DOMAIN desk : IsTicket(desk[n])
    PROVE  Views!TurnsAgree(desk, now)
BY DEF Views!TurnsAgree, Views!listTickets, Views!applyView, Views!Scope, Views!computeYourTurn,
       Views!computeAwaiting, Views!ActiveStatuses, Views!CustomerWroteLast, IsTicket

\* A search lists some of what there is without it.
LEMMA SearchesNarrow == ASSUME NEW desk, NEW word PROVE Views!SearchNarrows(desk, word)
BY DEF Views!SearchNarrows, Views!listTickets, Views!Scope

\* A snapshot says what it left out.
LEMMA SnapshotNames == ASSUME NEW account PROVE Views!SnapshotTells(account)
BY DEF Views!SnapshotTells, Views!buildSmartContext, Views!Failed, Views!Sections

\* The views count as FiniteSets does.
LEMMA ViewsCount == ASSUME NEW S PROVE Views!Cardinality(S) = Cardinality(S)
BY DEF Views!Cardinality, Cardinality

\* What shows as overdue is counted, and what is counted shows so or is at the limit.
LEMMA OverdueMatch ==
    ASSUME NEW desk, NEW now \in Int, FirstResponse \in Int, IsFiniteSet(DOMAIN desk),
           \A n \in DOMAIN desk : IsTicket(desk[n])
    PROVE  Views!OverdueAgrees(desk, now)
<1>. DEFINE visible == {n \in DOMAIN desk : LET a == Views!computeAwaiting(desk[n], now) IN
                                          a.kind = "first_response" /\ a.since.overdue}
            atLimit == {n \in DOMAIN desk : desk[n].created = now - FirstResponse}
            counted == {n \in Views!Scope(desk, "all") :
                          /\ desk[n].status \in Views!ActiveStatuses /\ desk[n].first_response = 0
                          /\ desk[n].created <= now - FirstResponse}
<1>1. Views!getSummary(desk, "all", now).overdue = Cardinality(counted)
  BY ViewsCount DEF Views!getSummary
<1>2. ASSUME NEW n \in DOMAIN desk
      PROVE  n \in visible <=> /\ desk[n].status \in Views!ActiveStatuses /\ desk[n].first_response = 0
                             /\ desk[n].created < now - FirstResponse
  <2>. DEFINE t == desk[n]
              a == Views!computeAwaiting(t, now)
  <2>1. IsTicket(t)
    BY <1>2
  <2>. HIDE DEF t
  <2>2. CASE t.first_response # 0
    <3>1. a.kind # "first_response"
      BY <2>2 DEF Views!computeAwaiting
    <3>. QED BY <2>2, <3>1, <1>2 DEF t
  <2>3. CASE t.first_response = 0 /\ t.status \in {"resolved", "closed"}
    <3>1. a.kind # "first_response"
      BY <2>3 DEF Views!computeAwaiting
    <3>. QED BY <2>3, <3>1, <1>2 DEF t, Views!ActiveStatuses
  <2>4. CASE t.first_response = 0 /\ t.status \notin {"resolved", "closed"}
    <3>1. a.kind = "first_response" /\ (a.since.overdue <=> now - t.created > FirstResponse)
      BY <2>4 DEF Views!computeAwaiting
    <3>2. now - t.created > FirstResponse <=> t.created < now - FirstResponse
      BY <2>1 DEF IsTicket
    <3>. QED BY <2>1, <2>4, <3>1, <3>2, <1>2 DEF t, Views!ActiveStatuses, IsTicket
  <2>. QED BY <2>2, <2>3, <2>4
<1>3. visible \subseteq counted /\ counted \subseteq visible \union atLimit
  BY <1>2 DEF Views!Scope, IsTicket
<1>4. visible \union atLimit \in SUBSET (DOMAIN desk)
  OBVIOUS
<1>. HIDE DEF visible, counted, atLimit
<1>5. IsFiniteSet(visible \union atLimit)
  BY <1>4, FS_Subset
<1>6. /\ IsFiniteSet(counted) /\ IsFiniteSet(visible)
      /\ Cardinality(visible) <= Cardinality(counted)
      /\ Cardinality(counted) <= Cardinality(visible \union atLimit)
  BY <1>3, <1>5, FS_Subset
<1>7. Cardinality(visible) \in Nat /\ Cardinality(counted) \in Nat /\ Cardinality(visible \union atLimit) \in Nat
  BY <1>5, <1>6, FS_CardinalityType
<1>8. Cardinality(counted) \in Cardinality(visible)..Cardinality(visible \union atLimit)
  BY <1>6, <1>7
<1>. QED BY <1>1, <1>8, ViewsCount DEF Views!OverdueAgrees, visible, atLimit

-----------------------------------------------------------------------------
(* A file and the kinds that are enabled.                                  *)

\* An extension that is allowed has one kind.
LEMMA KindIsOne ==
    ASSUME NEW ext, NEW k \in Rules!Kinds, ext \in Rules!Extensions[k]
    PROVE  Rules!KindOf(ext) = k /\ ext \in Rules!Allowed
<1>1. \A j \in Rules!Kinds : ext \in Rules!Extensions[j] => j = k
  BY DEF Rules!Kinds, Rules!Extensions
<1>. QED BY <1>1 DEF Rules!KindOf, Rules!Allowed

\* An extension that is allowed is of its kind.
LEMMA KindOfAllowed ==
    ASSUME NEW ext \in Rules!Allowed
    PROVE  Rules!KindOf(ext) \in Rules!Kinds /\ ext \in Rules!Extensions[Rules!KindOf(ext)]
BY DEF Rules!KindOf, Rules!Allowed

\* What is allowed is not refused.
LEMMA AllowedNotBlocked == Rules!Allowed \intersect Rules!Blocked = {}
BY DEF Rules!Allowed, Rules!Blocked, Rules!Extensions, Rules!Kinds

\* The largest size that is sent is at least each kind's.
LEMMA MaxBytesBound ==
    ASSUME NEW kinds \in SUBSET Rules!Kinds, NEW k \in kinds
    PROVE  /\ Rules!getAttachmentConfig(kinds).max_bytes \in Nat
           /\ Rules!getAttachmentConfig(kinds).max_bytes >= Rules!maxBytes[k]
<1>. DEFINE S == {Rules!maxBytes[j] : j \in kinds} \union {0}
            sizes == {10, 100, 25, 50, 0}
<1>1. S \subseteq sizes
  BY DEF Rules!Kinds, Rules!maxBytes
<1>2. Rules!maxBytes[k] \in S
  OBVIOUS
<1>3. \E x \in S : \A y \in S : x >= y
  <2>1. CASE 100 \in S
    BY <1>1, <2>1
  <2>2. CASE 100 \notin S /\ 50 \in S
    BY <1>1, <2>2
  <2>3. CASE 100 \notin S /\ 50 \notin S /\ 25 \in S
    BY <1>1, <2>3
  <2>4. CASE 100 \notin S /\ 50 \notin S /\ 25 \notin S /\ 10 \in S
    BY <1>1, <2>4
  <2>5. CASE 100 \notin S /\ 50 \notin S /\ 25 \notin S /\ 10 \notin S
    BY <1>1, <1>2, <2>5
  <2>. QED BY <2>1, <2>2, <2>3, <2>4, <2>5
<1>5. S \subseteq Nat
  BY <1>1
<1>. HIDE DEF S
<1>4. Rules!Max(S) \in S /\ \A y \in S : Rules!Max(S) >= y
  BY <1>3 DEF Rules!Max
<1>. QED BY <1>2, <1>4, <1>5 DEF S, Rules!getAttachmentConfig

\* What a file's first bytes are taken for is one of the contents they can be taken for.
Found(file) == {i \in 1..13 : Rules!Signatures[i][1] \in file.marks}

\* What is detected is what some signature found says.
LEMMA ContentIsFound ==
    ASSUME NEW file, Found(file) # {}
    PROVE  Rules!detectContent(file) \in {Rules!Signatures[i][2] : i \in Found(file)}
<1>1. DOMAIN Rules!Signatures = 1..13
  BY DEF Rules!Signatures
<1>2. \E n \in Found(file) : \A m \in Found(file) : n <= m
  BY LeastExists DEF Found
<1>3. Rules!Min(Found(file)) \in Found(file)
  BY <1>2 DEF Rules!Min
<1>. QED BY <1>1, <1>3 DEF Rules!detectContent, Found

\* What each signature stands for, of the contents programs write.
Means(p) ==
    /\ p[1] = "PNG" => p[2] = "png"
    /\ p[1] = "JPEG" => p[2] = "jpeg"
    /\ p[1] = "GIF8" => p[2] = "gif"
    /\ p[1] = "WEBP" => p[2] = "webp"
    /\ p[1] = "%PDF" => p[2] = "pdf"
    /\ p[1] = "ftyp qt" => p[2] = "mov"
    /\ p[1] = "ftyp" => p[2] = "mp4"
    /\ p[1] = "EBML" => p[2] = "webm"
    /\ p[1] = "PK" => p[2] = "zip"

\* What each signature says, and that there is one for each mark.
LEMMA SignatureMeans == \A i \in 1..13 : Means(Rules!Signatures[i])
<1>1. /\ Rules!Signatures[1] = <<"MZ", "pe">> /\ Rules!Signatures[2] = <<"ELF", "elf">>
      /\ Rules!Signatures[3] = <<"Mach-O", "macho">> /\ Rules!Signatures[4] = <<"OLE2", "ole2">>
      /\ Rules!Signatures[5] = <<"PNG", "png">> /\ Rules!Signatures[6] = <<"JPEG", "jpeg">>
      /\ Rules!Signatures[7] = <<"GIF8", "gif">> /\ Rules!Signatures[8] = <<"WEBP", "webp">>
      /\ Rules!Signatures[9] = <<"%PDF", "pdf">> /\ Rules!Signatures[10] = <<"ftyp qt", "mov">>
      /\ Rules!Signatures[11] = <<"ftyp", "mp4">> /\ Rules!Signatures[12] = <<"EBML", "webm">>
      /\ Rules!Signatures[13] = <<"PK", "zip">>
  BY DEF Rules!Signatures
<1>2. /\ Means(<<"MZ", "pe">>) /\ Means(<<"ELF", "elf">>) /\ Means(<<"Mach-O", "macho">>)
      /\ Means(<<"OLE2", "ole2">>) /\ Means(<<"PNG", "png">>) /\ Means(<<"JPEG", "jpeg">>)
      /\ Means(<<"GIF8", "gif">>) /\ Means(<<"WEBP", "webp">>) /\ Means(<<"%PDF", "pdf">>)
      /\ Means(<<"ftyp qt", "mov">>) /\ Means(<<"ftyp", "mp4">>) /\ Means(<<"EBML", "webm">>)
      /\ Means(<<"PK", "zip">>)
  BY DEF Means
<1>3. ASSUME NEW i \in 1..13
      PROVE  \/ i = 1 \/ i = 2 \/ i = 3 \/ i = 4 \/ i = 5 \/ i = 6 \/ i = 7 \/ i = 8 \/ i = 9 \/ i = 10
             \/ i = 11 \/ i = 12 \/ i = 13
  OBVIOUS
<1>. QED BY <1>1, <1>2, <1>3

\* Each mark is the first of some signature.
LEMMA SignatureExists ==
    \A m \in {"PNG", "JPEG", "GIF8", "WEBP", "%PDF", "ftyp qt", "ftyp", "EBML", "PK"} :
        \E i \in 1..13 : Rules!Signatures[i][1] = m
<1>1. /\ Rules!Signatures[5][1] = "PNG" /\ Rules!Signatures[6][1] = "JPEG" /\ Rules!Signatures[7][1] = "GIF8"
      /\ Rules!Signatures[8][1] = "WEBP" /\ Rules!Signatures[9][1] = "%PDF" /\ Rules!Signatures[10][1] = "ftyp qt"
      /\ Rules!Signatures[11][1] = "ftyp" /\ Rules!Signatures[12][1] = "EBML" /\ Rules!Signatures[13][1] = "PK"
  BY DEF Rules!Signatures
<1>2. {5, 6, 7, 8, 9, 10, 11, 12, 13} \subseteq 1..13
  OBVIOUS
<1>. QED BY <1>1, <1>2

\* A genuine file with an extension the desk takes has the content of that extension.
LEMMA GenuineFits ==
    ASSUME NEW file, Rules!Genuine(file), file.ext \in Rules!Allowed
    PROVE  /\ Rules!detectContent(file) \notin Rules!Executable
           /\ Rules!ContentFits(file, Rules!detectContent(file))
<1>. DEFINE c == Rules!detectContent(file)
            written == {"png", "jpg", "jpeg", "gif", "webp", "mp4", "mov", "webm", "pdf", "docx", "xlsx",
                        "pptx", "zip"}
<1>1. DOMAIN Rules!Written = written /\ DOMAIN Rules!Part = {"docx", "xlsx", "pptx"}
  BY DEF Rules!Written, Rules!Part
<1>2. file.ext \in written \union {"txt", "csv", "log", "json", "har"}
  BY DEF Rules!Allowed, Rules!Kinds, Rules!Extensions
<1>3. CASE file.ext \in written
  <2>1. file.marks # {} /\ file.marks \subseteq Rules!Written[file.ext]
    BY <1>1, <1>3 DEF Rules!Genuine
  <2>9. /\ file.ext = "png" => Rules!Written[file.ext] = {"PNG"}
        /\ file.ext \in {"jpg", "jpeg"} => Rules!Written[file.ext] = {"JPEG"}
        /\ file.ext = "gif" => Rules!Written[file.ext] = {"GIF8"}
        /\ file.ext = "webp" => Rules!Written[file.ext] = {"WEBP"}
        /\ file.ext = "mp4" => Rules!Written[file.ext] = {"ftyp"}
        /\ file.ext = "mov" => Rules!Written[file.ext] = {"ftyp", "ftyp qt"}
        /\ file.ext = "webm" => Rules!Written[file.ext] = {"EBML"}
        /\ file.ext = "pdf" => Rules!Written[file.ext] = {"%PDF"}
        /\ file.ext \in {"docx", "xlsx", "pptx", "zip"} => Rules!Written[file.ext] = {"PK"}
    <3>1. /\ Rules!Written["png"] = {"PNG"} /\ Rules!Written["jpg"] = {"JPEG"}
          /\ Rules!Written["jpeg"] = {"JPEG"} /\ Rules!Written["gif"] = {"GIF8"}
      BY DEF Rules!Written
    <3>2. /\ Rules!Written["webp"] = {"WEBP"} /\ Rules!Written["mp4"] = {"ftyp"}
          /\ Rules!Written["mov"] = {"ftyp", "ftyp qt"}
      BY DEF Rules!Written
    <3>3. /\ Rules!Written["webm"] = {"EBML"} /\ Rules!Written["pdf"] = {"%PDF"}
          /\ Rules!Written["docx"] = {"PK"}
      BY DEF Rules!Written
    <3>4. /\ Rules!Written["xlsx"] = {"PK"} /\ Rules!Written["pptx"] = {"PK"} /\ Rules!Written["zip"] = {"PK"}
      BY DEF Rules!Written
    <3>. QED BY <3>1, <3>2, <3>3, <3>4
  <2>2. Rules!Written[file.ext] \subseteq
          {"PNG", "JPEG", "GIF8", "WEBP", "%PDF", "ftyp qt", "ftyp", "EBML", "PK"}
    BY <1>3, <2>9
  <2>3. Found(file) # {}
    <3>1. PICK m \in file.marks : TRUE
      BY <2>1
    <3>3. m \in {"PNG", "JPEG", "GIF8", "WEBP", "%PDF", "ftyp qt", "ftyp", "EBML", "PK"}
      BY <2>1, <2>2, <3>1
    <3>2. \E i \in 1..13 : Rules!Signatures[i][1] = m
      BY <3>3, SignatureExists
    <3>. QED BY <3>1, <3>2 DEF Found
  <2>4. PICK i \in 1..13 : /\ Rules!Signatures[i][1] \in Rules!Written[file.ext]
                           /\ c = Rules!Signatures[i][2]
    BY <2>1, <2>3, ContentIsFound DEF Found
  <2>. HIDE DEF c
  <2>5. /\ file.ext = "png" => c = "png"
        /\ file.ext \in {"jpg", "jpeg"} => c = "jpeg"
        /\ file.ext = "gif" => c = "gif"
        /\ file.ext = "webp" => c = "webp"
        /\ file.ext = "mp4" => c = "mp4"
        /\ file.ext = "mov" => c \in {"mov", "mp4"}
        /\ file.ext = "webm" => c = "webm"
        /\ file.ext = "pdf" => c = "pdf"
        /\ file.ext \in {"docx", "xlsx", "pptx", "zip"} => c = "zip"
    BY <2>4, <2>9, SignatureMeans DEF Means
  <2>6. Rules!ZipSafe(file) /\ (file.ext \in DOMAIN Rules!Part => Rules!validateOoxml(file))
    BY DEF Rules!Genuine, Rules!ZipSafe, Rules!validateOoxml
  <2>7. c \notin Rules!Executable
    BY <1>3, <2>5 DEF Rules!Executable
  <2>8. Rules!ContentFits(file, c)
    BY <1>1, <1>3, <2>5, <2>6 DEF Rules!ContentFits, Rules!Extensions
  <2>. QED BY <2>7, <2>8 DEF c
<1>4. CASE file.ext \in {"txt", "csv", "log", "json", "har"}
  <2>1. file.marks = {} /\ file.plain
    BY <1>1, <1>4 DEF Rules!Genuine
  <2>2. c = "text"
    BY <2>1 DEF Rules!detectContent
  <2>3. "text" \notin Rules!Executable
    BY DEF Rules!Executable
  <2>4. file.ext \notin {"jpg", "jpeg", "mov", "zip", "docx", "xlsx", "pptx"} /\ file.ext \in Rules!Extensions.text
    BY <1>4 DEF Rules!Extensions
  <2>5. Rules!ContentFits(file, "text")
    BY <1>1, <2>4 DEF Rules!ContentFits
  <2>. QED BY <2>2, <2>3, <2>5
<1>. QED BY <1>2, <1>3, <1>4

\* The panel and the server agree on every file.
LEMMA PanelAndServer ==
    ASSUME NEW file, IsFile(file), NEW kinds \in SUBSET Rules!Kinds
    PROVE  Rules!PanelAgrees(file, kinds)
<1>. DEFINE config == Rules!getAttachmentConfig(kinds)
            listed == \E k \in kinds : /\ file.ext \in config.kinds[k].extensions
                                       /\ file.size \in 1..config.kinds[k].maxBytes
            fits == /\ file.ext \in Rules!Allowed /\ Rules!KindOf(file.ext) \in kinds
                    /\ file.size \in 1..Rules!maxBytes[Rules!KindOf(file.ext)]
<1>1. \A k \in Rules!Kinds : Rules!maxBytes[k] \in Nat
  BY DEF Rules!Kinds, Rules!maxBytes
<1>2. \A k \in kinds : /\ config.kinds[k].extensions = Rules!Extensions[k]
                       /\ config.kinds[k].maxBytes = Rules!maxBytes[k]
  BY DEF Rules!getAttachmentConfig
<1>3. listed <=> fits
  <2>1. ASSUME listed PROVE fits
    <3>1. PICK k \in kinds : /\ file.ext \in config.kinds[k].extensions
                             /\ file.size \in 1..config.kinds[k].maxBytes
      BY <2>1
    <3>2. k \in Rules!Kinds /\ file.ext \in Rules!Extensions[k] /\ file.size \in 1..Rules!maxBytes[k]
      BY <3>1, <1>2
    <3>3. Rules!KindOf(file.ext) = k /\ file.ext \in Rules!Allowed
      BY <3>2, KindIsOne
    <3>. QED BY <3>2, <3>3
  <2>2. ASSUME fits PROVE listed
    <3>1. file.ext \in Rules!Extensions[Rules!KindOf(file.ext)]
      BY <2>2, KindOfAllowed
    <3>. QED BY <2>2, <3>1, <1>2
  <2>. QED BY <2>1, <2>2
<1>4. Rules!Accepted(file, kinds) => fits
  <2>. SUFFICES ASSUME Rules!Accepted(file, kinds) PROVE fits
    OBVIOUS
  <2>1. /\ file.ext \in Rules!Allowed /\ Rules!KindOf(file.ext) \in kinds /\ file.size > 0
        /\ file.size <= Rules!maxBytes[Rules!KindOf(file.ext)]
    BY DEF Rules!Accepted
  <2>. QED BY <2>1, <1>1 DEF IsFile
<1>5. fits => file.size <= config.max_bytes
  <2>. SUFFICES ASSUME fits PROVE file.size <= config.max_bytes
    OBVIOUS
  <2>1. config.max_bytes >= Rules!maxBytes[Rules!KindOf(file.ext)]
    BY MaxBytesBound
  <2>2. config.max_bytes \in Nat
    BY MaxBytesBound
  <2>. QED BY <2>1, <2>2, <1>1 DEF IsFile
<1>6. Rules!Genuine(file) /\ fits => Rules!Accepted(file, kinds)
  <2>. SUFFICES ASSUME Rules!Genuine(file), fits PROVE Rules!Accepted(file, kinds)
    OBVIOUS
  <2>1. file.size > 0 /\ file.size <= Rules!maxBytes[Rules!KindOf(file.ext)]
    BY <1>1 DEF IsFile
  <2>2. file.ext \notin Rules!Blocked
    BY AllowedNotBlocked
  <2>. QED BY <2>1, <2>2, GenuineFits DEF Rules!Accepted
<1>. HIDE DEF listed, fits, config
<1>. QED BY <1>3, <1>4, <1>5, <1>6 DEF Rules!PanelAgrees, listed, config

\* A file that was taken keeps its kind.
LEMMA KindStays ==
    ASSUME NEW file, NEW kinds PROVE Rules!KindIsKept(file, kinds)
<1>. SUFFICES ASSUME file.ext \in Rules!Allowed
              PROVE  Rules!KindIsKept(file, kinds)
  BY DEF Rules!KindIsKept, Rules!Accepted
<1>. DEFINE k == Rules!KindOf(file.ext)
            mime == Rules!MimeOf(file.ext)
<1>1. k \in Rules!Kinds /\ file.ext \in Rules!Extensions[k]
  BY KindOfAllowed
<1>2. "" \notin Rules!Allowed /\ "none" \notin Rules!Kinds
  <2>1. \A j \in Rules!Kinds : "" \notin Rules!Extensions[j]
    <3>1. /\ Rules!Extensions["image"] = {"png", "jpg", "jpeg", "webp", "gif"}
          /\ Rules!Extensions["video"] = {"mp4", "mov", "webm"}
          /\ Rules!Extensions["document"] = {"pdf", "docx", "xlsx", "pptx"}
          /\ Rules!Extensions["text"] = {"txt", "csv", "log", "json", "har"}
          /\ Rules!Extensions["archive"] = {"zip"}
      BY DEF Rules!Extensions
    <3>2. /\ "" \notin Rules!Extensions["image"] /\ "" \notin Rules!Extensions["video"]
          /\ "" \notin Rules!Extensions["document"] /\ "" \notin Rules!Extensions["text"]
          /\ "" \notin Rules!Extensions["archive"]
      BY <3>1
    <3>. QED BY <3>2 DEF Rules!Kinds
  <2>. QED BY <2>1 DEF Rules!Allowed, Rules!Kinds
<1>. HIDE DEF k
<1>3. /\ k = "image" => mime = "image"
      /\ k = "video" => mime = "video"
      /\ k = "document" => mime \in {"pdf", "office"}
      /\ k = "text" => mime \in {"text", "json"}
      /\ k = "archive" => mime = "zip"
  BY <1>1 DEF Rules!MimeOf, Rules!Kinds, Rules!Extensions
<1>. HIDE DEF mime
<1>4. Rules!kindForAttachment(mime, file.ext) = k
  BY DEF Rules!kindForAttachment, k
<1>5. /\ mime # "office" => Rules!kindForAttachment(mime, "") = k
      /\ mime = "office" => Rules!kindForAttachment(mime, "") = "none"
  BY <1>1, <1>2, <1>3 DEF Rules!kindForAttachment, Rules!Kinds
<1>6. ASSUME NEW kind \in {k, "none"}, NEW ext \in {file.ext, ""},
             NEW att, att = [kind |-> kind, mime |-> mime, ext |-> ext, removed |-> FALSE]
      PROVE  Rules!serializeAttachment(att).previewable
                <=> Rules!canPreviewAttachment(Rules!storedKind(att), att.mime, att.ext)
  <2>1. att.kind = kind /\ att.mime = mime /\ att.ext = ext /\ att.removed = FALSE
    BY <1>6
  <2>2. Rules!storedKind(att) = IF kind # "none" THEN kind ELSE Rules!kindForAttachment(mime, ext)
    BY <2>1 DEF Rules!storedKind
  <2>3. Rules!serializeAttachment(att).previewable <=> Rules!storedKind(att) \in Rules!Previewable
    BY <2>1 DEF Rules!serializeAttachment
  <2>4. \/ Rules!storedKind(att) = k
        \/ Rules!storedKind(att) = "none" /\ ext = "" /\ mime = "office"
    BY <2>2, <1>4, <1>5
  <2>5. CASE Rules!storedKind(att) = k
    BY <2>1, <2>3, <2>5, <1>1, <1>2 DEF Rules!canPreviewAttachment
  <2>6. CASE Rules!storedKind(att) = "none" /\ ext = "" /\ mime = "office"
    BY <2>1, <2>3, <2>6, <1>2 DEF Rules!canPreviewAttachment, Rules!Previewable
  <2>. QED BY <2>4, <2>5, <2>6
<1>. QED BY <1>4, <1>5, <1>6 DEF Rules!KindIsKept, k, mime

-----------------------------------------------------------------------------
(* A table of countries.                                                   *)

\* What a row answers to, and rows that answer to nothing in common.
Claims(r) == Names!Keys(r) \union {Names!Key(r.code)}
Apart(T) == \A i, j \in DOMAIN T : i # j => Claims(T[i]) \intersect Claims(T[j]) = {}

\* The names are counted as FiniteSets does.
LEMMA NamesCount == ASSUME NEW S PROVE Names!Cardinality(S) = Cardinality(S)
BY DEF Names!Cardinality, Cardinality

\* A label that is a key of a row finds that row.
LEMMA ResolveOwn ==
    ASSUME NEW T, Apart(T), NEW i \in DOMAIN T, NEW label, Names!Key(label) \in Claims(T[i])
    PROVE  Names!resolveCountry(T, label) = {i}
<1>. DEFINE byCode == {j \in DOMAIN T : label = T[j].code}
            exact == {j \in DOMAIN T : label \in Names!Names(T[j])}
            folded == {j \in DOMAIN T : Names!Key(label) \in Names!Keys(T[j]) \union {Names!Key(T[j].code)}}
<1>1. folded = {i}
  BY DEF Apart, Claims
<1>2. byCode \subseteq folded /\ exact \subseteq folded
  BY DEF Names!Keys
<1>3. byCode \in {{}, {i}} /\ exact \in {{}, {i}}
  BY <1>1, <1>2
<1>. HIDE DEF byCode, exact, folded
<1>4. (IF byCode # {} THEN byCode ELSE IF exact # {} THEN exact ELSE folded) = {i}
  BY <1>1, <1>3
<1>. QED BY <1>4 DEF Names!resolveCountry, byCode, exact, folded

\* So it has the name of that row.
LEMMA ResolveNameOwn ==
    ASSUME NEW T, Apart(T), NEW i \in DOMAIN T, DOMAIN T \subseteq Nat, NEW label,
           Names!Key(label) \in Claims(T[i])
    PROVE  Names!resolveCountryName(T, label) = T[i].name
<1>1. Names!resolveCountry(T, label) = {i}
  BY ResolveOwn
<1>2. Names!Min({i}) = i
  BY DEF Names!Min
<1>. QED BY <1>1, <1>2 DEF Names!resolveCountryName

\* What is found is a row.
LEMMA ResolvedIsRow ==
    ASSUME NEW T, DOMAIN T \subseteq Nat, NEW label, Names!resolveCountryName(T, label) # Names!None
    PROVE  \E i \in DOMAIN T : Names!resolveCountryName(T, label) = T[i].name
<1>. DEFINE found == Names!resolveCountry(T, label)
<1>1. found # {} /\ Names!resolveCountryName(T, label) = T[Names!Min(found)].name
  BY DEF Names!resolveCountryName
<1>2. found \subseteq DOMAIN T
  BY DEF Names!resolveCountry
<1>. HIDE DEF found
<1>3. \E m \in found : \A t \in found : m <= t
  BY <1>1, <1>2, LeastExists
<1>4. Names!Min(found) \in found
  BY <1>3 DEF Names!Min
<1>. QED BY <1>1, <1>2, <1>4

\* A name of a row finds the row.
LEMMA OwnName ==
    ASSUME NEW T, Apart(T), NEW i \in DOMAIN T, DOMAIN T \subseteq Nat
    PROVE  Names!resolveCountryName(T, T[i].name) = T[i].name
<1>1. Names!Key(T[i].name) \in Claims(T[i])
  BY DEF Claims, Names!Keys, Names!Names
<1>. QED BY <1>1, ResolveNameOwn

-----------------------------------------------------------------------------
(* Aliases of which only the first of each key is kept.                    *)

Kept(list) == {i \in DOMAIN list : \A j \in 1..i - 1 : Names!Key(list[j]) # Names!Key(list[i])}
Rank(held, i) == Names!Cardinality({j \in held : j < i})

\* Ranks count as FiniteSets does.
LEMMA RankIs == ASSUME NEW held, NEW i PROVE Rank(held, i) = Cardinality({j \in held : j < i})
BY NamesCount DEF Rank

\* Two that are kept do not have one rank.
LEMMA RanksDiffer ==
    ASSUME NEW held \in SUBSET Nat, IsFiniteSet(held), NEW i \in held, NEW k \in held,
           Rank(held, i) = Rank(held, k)
    PROVE  i = k
<1>1. ASSUME NEW a \in held, NEW b \in held, a < b
      PROVE  Rank(held, a) # Rank(held, b)
  <2>. DEFINE below(x) == {j \in held : j < x}
  <2>6. a \in Nat /\ b \in Nat /\ \A j \in held : j \in Nat
    OBVIOUS
  <2>1. below(a) \in SUBSET below(b) /\ a \in below(b) /\ a \notin below(a)
    <3>1. \A j \in held : j < a => j < b
      BY <1>1, <2>6
    <3>2. ~(a < a)
      BY <2>6
    <3>. QED BY <1>1, <3>1, <3>2
  <2>2. below(b) \in SUBSET held /\ below(a) \in SUBSET held
    OBVIOUS
  <2>3. IsFiniteSet(below(b)) /\ IsFiniteSet(below(a))
    BY <2>2, FS_Subset
  <2>. HIDE DEF below
  <2>5. Cardinality(below(a)) \in Nat /\ Cardinality(below(b)) \in Nat
    BY <2>3, FS_CardinalityType
  <2>4. Cardinality(below(a)) < Cardinality(below(b))
    <3>1. below(a) # below(b)
      BY <2>1
    <3>2. Cardinality(below(a)) <= Cardinality(below(b)) /\ Cardinality(below(a)) # Cardinality(below(b))
      BY <2>1, <2>3, <3>1, FS_Subset
    <3>. QED BY <2>5, <3>2
  <2>. QED BY <2>4, <2>5, RankIs DEF below
<1>2. i < k \/ k < i \/ i = k
  OBVIOUS
<1>. QED BY <1>1, <1>2

\* A rank is below the number of those that are held.
LEMMA RankInRange ==
    ASSUME NEW held, IsFiniteSet(held), NEW i \in held, held \in SUBSET Nat
    PROVE  Rank(held, i) \in 0..Cardinality(held) - 1
<1>. DEFINE before == {j \in held : j < i}
<1>1. before \in SUBSET (held \ {i})
  OBVIOUS
<1>2. IsFiniteSet(held \ {i}) /\ Cardinality(held \ {i}) = Cardinality(held) - 1
  BY FS_RemoveElement
<1>3. IsFiniteSet(before) /\ Cardinality(before) <= Cardinality(held) - 1
  BY <1>1, <1>2, FS_Subset
<1>4. Cardinality(before) \in Nat /\ Cardinality(held) \in Nat
  BY <1>3, FS_CardinalityType
<1>. QED BY <1>3, <1>4, RankIs

\* As many are before one that is kept as places it moves to.
LEMMA RanksAreOnto ==
    ASSUME NEW held \in SUBSET Nat, IsFiniteSet(held), NEW n \in 1..Cardinality(held)
    PROVE  \E i \in held : Rank(held, i) = n - 1
<1>. DEFINE c == Cardinality(held)
            r == [i \in held |-> Rank(held, i)]
            T == (0..c - 1) \ {n - 1}
<1>1. c \in Nat
  BY FS_CardinalityType
<1>2. \A i \in held : Rank(held, i) \in 0..c - 1
  BY RankInRange
<1>. SUFFICES ASSUME \A i \in held : Rank(held, i) # n - 1
              PROVE  FALSE
  OBVIOUS
<1>4. r \in [held -> T]
  BY <1>2
<1>5. IsFiniteSet(T) /\ Cardinality(T) = c - 1
  <2>1. IsFiniteSet(0..c - 1) /\ Cardinality(0..c - 1) = c
    <3>1. 0 \in Int /\ c - 1 \in Int
      BY <1>1
    <3>. HIDE DEF c
    <3>2. IsFiniteSet(0..c - 1) /\ Cardinality(0..c - 1) = IF 0 > c - 1 THEN 0 ELSE c - 1 - 0 + 1
      BY <3>1, FS_Interval
    <3>. QED BY <3>2, <1>1
  <2>2. n - 1 \in 0..c - 1
    BY <1>1
  <2>. HIDE DEF c
  <2>3. Cardinality((0..c - 1) \ {n - 1}) = Cardinality(0..c - 1) - 1 /\ IsFiniteSet((0..c - 1) \ {n - 1})
    BY <2>1, <2>2, FS_RemoveElement
  <2>. QED BY <2>1, <2>3
<1>6. Cardinality(T) < Cardinality(held)
  BY <1>1, <1>5
<1>. HIDE DEF r, T, c
<1>7. \E x, y \in held : x # y /\ r[x] = r[y]
  BY <1>4, <1>5, <1>6, FS_PigeonHole
<1>8. PICK x \in held, y \in held : x # y /\ Rank(held, x) = Rank(held, y)
  BY <1>7 DEF r
<1>. QED BY <1>8, RanksDiffer

\* What is held of a list is some of its places.
LEMMA KeptIsFinite ==
    ASSUME NEW L, NEW list \in Seq(L)
    PROVE  /\ Kept(list) \in SUBSET (1..Len(list)) /\ Kept(list) \in SUBSET Nat /\ IsFiniteSet(Kept(list))
           /\ Cardinality(Kept(list)) \in Nat
<1>1. Kept(list) \in SUBSET (1..Len(list)) /\ Len(list) \in Nat
  BY DEF Kept
<1>2. IsFiniteSet(1..Len(list))
  BY <1>1, FS_Interval
<1>3. IsFiniteSet(Kept(list))
  BY <1>1, <1>2, FS_Subset
<1>. QED BY <1>1, <1>3, FS_CardinalityType

\* What is kept of a list moves together, in its order.
LEMMA UniqueAt ==
    ASSUME NEW L, NEW list \in Seq(L), NEW n \in 1..Cardinality(Kept(list))
    PROVE  \E i \in Kept(list) : Rank(Kept(list), i) = n - 1 /\ Names!uniqueAliases(list)[n] = list[i]
<1>. DEFINE held == Kept(list)
            at == CHOOSE i \in held : Rank(held, i) = n - 1
<1>1. \E i \in held : Rank(held, i) = n - 1
  BY KeptIsFinite, RanksAreOnto
<1>2. at \in held /\ Rank(held, at) = n - 1
  BY <1>1
<1>3. Names!uniqueAliases(list)
        = [m \in 1..Names!Cardinality(held) |-> list[CHOOSE i \in held : Rank(held, i) = m - 1]]
  BY DEF Names!uniqueAliases, Kept, Rank
<1>4. n \in 1..Names!Cardinality(held)
  BY NamesCount
<1>. HIDE DEF held
<1>5. Names!uniqueAliases(list)[n] = list[at]
  BY <1>3, <1>4
<1>. QED BY <1>2, <1>5 DEF held

\* A list without doubles is as long as what is held of it.
LEMMA UniqueType ==
    ASSUME NEW L, NEW list \in Seq(L)
    PROVE  /\ Names!uniqueAliases(list) \in Seq(L)
           /\ Len(Names!uniqueAliases(list)) = Cardinality(Kept(list))
<1>. DEFINE c == Cardinality(Kept(list))
            u == Names!uniqueAliases(list)
<1>1. c \in Nat /\ Kept(list) \in SUBSET (1..Len(list))
  BY KeptIsFinite
<1>2. DOMAIN u = 1..c /\ u = [n \in 1..c |-> u[n]]
  BY NamesCount DEF Names!uniqueAliases, Kept
<1>3. \A n \in 1..c : u[n] \in L
  BY <1>1, UniqueAt
<1>. HIDE DEF u, c
<1>4. u \in [1..c -> L]
  BY <1>2, <1>3
<1>5. u \in Seq(L)
  BY <1>1, <1>4
<1>6. Len(u) = c
  BY <1>1, <1>2, <1>5
<1>. QED BY <1>5, <1>6 DEF u, c

\* No key is there twice, ...
LEMMA UniqueDiffers ==
    ASSUME NEW L, NEW list \in Seq(L), NEW n \in 1..Cardinality(Kept(list)), NEW m \in 1..Cardinality(Kept(list)),
           Names!Key(Names!uniqueAliases(list)[n]) = Names!Key(Names!uniqueAliases(list)[m])
    PROVE  n = m
<1>1. PICK i \in Kept(list) : Rank(Kept(list), i) = n - 1 /\ Names!uniqueAliases(list)[n] = list[i]
  BY UniqueAt
<1>2. PICK k \in Kept(list) : Rank(Kept(list), k) = m - 1 /\ Names!uniqueAliases(list)[m] = list[k]
  BY UniqueAt
<1>3. i \in 1..Len(list) /\ k \in 1..Len(list) /\ Len(list) \in Nat /\ Cardinality(Kept(list)) \in Nat
  BY KeptIsFinite
<1>4. ~(i < k) /\ ~(k < i)
  BY <1>1, <1>2, <1>3 DEF Kept
<1>5. i = k
  BY <1>3, <1>4
<1>6. n - 1 = m - 1
  BY <1>1, <1>2, <1>5
<1>. QED BY <1>6, <1>3

\* ... and every key of the list is.
LEMMA UniqueHolds ==
    ASSUME NEW L, NEW list \in Seq(L), NEW i \in DOMAIN list
    PROVE  \E n \in 1..Cardinality(Kept(list)) : Names!Key(Names!uniqueAliases(list)[n]) = Names!Key(list[i])
<1>. DEFINE same == {j \in 1..Len(list) : Names!Key(list[j]) = Names!Key(list[i])}
<1>1. i \in same /\ same \subseteq Nat
  OBVIOUS
<1>2. PICK k \in same : \A j \in same : k <= j
  BY <1>1, LeastExists
<1>3. k \in Kept(list)
  <2>1. ASSUME NEW j \in 1..k - 1 PROVE Names!Key(list[j]) # Names!Key(list[k])
    <3>1. j \in 1..Len(list) /\ ~(k <= j)
      BY <1>2
    <3>. QED BY <3>1, <1>2
  <2>. QED BY <2>1, <1>2 DEF Kept
<1>. DEFINE n == Rank(Kept(list), k) + 1
<1>4. Rank(Kept(list), k) \in 0..Cardinality(Kept(list)) - 1
  BY <1>3, KeptIsFinite, RankInRange
<1>5. n \in 1..Cardinality(Kept(list)) /\ n - 1 = Rank(Kept(list), k)
  BY <1>4, KeptIsFinite
<1>6. PICK j \in Kept(list) : Rank(Kept(list), j) = n - 1 /\ Names!uniqueAliases(list)[n] = list[j]
  BY <1>5, UniqueAt
<1>7. j = k
  BY <1>3, <1>5, <1>6, KeptIsFinite, RanksDiffer
<1>. QED BY <1>2, <1>5, <1>6, <1>7

\* A list of different keys, with labels behind it whose keys it has, is what is kept.
LEMMA UniqueAgain ==
    ASSUME NEW L, NEW list \in Seq(L), NEW m \in 0..Len(list),
           \A i, j \in 1..m : i # j => Names!Key(list[i]) # Names!Key(list[j]),
           \A i \in m + 1..Len(list) : \E j \in 1..m : Names!Key(list[i]) = Names!Key(list[j])
    PROVE  Names!uniqueAliases(list) = [n \in 1..m |-> list[n]]
<1>1. m \in Nat /\ Len(list) \in Nat
  OBVIOUS
<1>2. Kept(list) = 1..m
  <2>1. ASSUME NEW i \in 1..m PROVE i \in Kept(list)
    BY <1>1 DEF Kept
  <2>2. ASSUME NEW i \in Kept(list) PROVE i \in 1..m
    <3>. SUFFICES ASSUME i \in m + 1..Len(list) PROVE FALSE
      BY <1>1 DEF Kept
    <3>1. PICK j \in 1..m : Names!Key(list[i]) = Names!Key(list[j])
      OBVIOUS
    <3>2. j \in 1..i - 1
      BY <1>1
    <3>. QED BY <3>1, <3>2 DEF Kept
  <2>. QED BY <2>1, <2>2
<1>3. Cardinality(Kept(list)) = m
  BY <1>1, <1>2, FS_Interval
<1>4. ASSUME NEW n \in 1..m PROVE Names!uniqueAliases(list)[n] = list[n]
  <2>6. n \in 1..Cardinality(Kept(list))
    BY <1>3
  <2>1. PICK i \in Kept(list) : Rank(Kept(list), i) = n - 1 /\ Names!uniqueAliases(list)[n] = list[i]
    BY <2>6, UniqueAt
  <2>2. {j \in 1..m : j < i} = 1..i - 1 /\ i \in 1..m
    BY <1>1, <1>2
  <2>3. Cardinality(1..i - 1) = i - 1
    BY <1>1, <2>2, FS_Interval
  <2>5. Rank(Kept(list), i) = i - 1
    BY <1>2, <2>2, <2>3, RankIs
  <2>4. i = n
    BY <1>1, <2>1, <2>2, <2>5
  <2>. QED BY <2>1, <2>4
<1>5. Names!uniqueAliases(list) = [n \in 1..m |-> Names!uniqueAliases(list)[n]]
  <2>1. Names!uniqueAliases(list) = [n \in 1..Cardinality(Kept(list)) |-> Names!uniqueAliases(list)[n]]
    BY NamesCount DEF Names!uniqueAliases, Kept
  <2>. QED BY <2>1, <1>3
<1>. QED BY <1>4, <1>5

-----------------------------------------------------------------------------
\* What is seeded, and what a row claims when it is.
IsSeed(byCode, L) == \A c \in DOMAIN byCode : byCode[c] \in Seq(L)
SeededKeys(r, byCode) == IF r.code \in DOMAIN byCode THEN {Names!Key(l) : l \in Names!ToSet(byCode[r.code])} ELSE {}
Merged(r, byCode) ==
    IF r.code \in DOMAIN byCode THEN Names!uniqueAliases(r.aliases \o byCode[r.code]) ELSE r.aliases
SeedRow(r, byCode) ==
    IF Len(Merged(r, byCode)) # Len(r.aliases) THEN [r EXCEPT !.aliases = Merged(r, byCode)] ELSE r

\* The table is seeded row by row.
LEMMA SeedIs ==
    ASSUME NEW T, NEW byCode
    PROVE  Names!seedAliases(T, byCode) = [i \in DOMAIN T |-> SeedRow(T[i], byCode)]
BY DEF Names!seedAliases, SeedRow, Merged

\* The keys of a list that was merged, and that merging it again changes nothing.
LEMMA MergedKeys ==
    ASSUME NEW L, NEW r, IsRow(r, L), NEW byCode, IsSeed(byCode, L), r.code \in DOMAIN byCode
    PROVE  /\ Merged(r, byCode) \in Seq(L)
           /\ {Names!Key(l) : l \in Names!ToSet(Merged(r, byCode))}
                = {Names!Key(l) : l \in Names!ToSet(r.aliases)} \union SeededKeys(r, byCode)
           /\ Names!uniqueAliases(Merged(r, byCode) \o byCode[r.code]) = Merged(r, byCode)
<1>. DEFINE a == r.aliases
            b == byCode[r.code]
            u == Merged(r, byCode)
            c == Cardinality(Kept(a \o b))
<1>1. a \in Seq(L) /\ b \in Seq(L) /\ a \o b \in Seq(L) /\ u = Names!uniqueAliases(a \o b)
  BY DEF IsRow, IsSeed, Merged
<1>. HIDE DEF a, b, u
<1>2. Len(a) \in Nat /\ Len(b) \in Nat /\ Len(a \o b) = Len(a) + Len(b)
  BY <1>1
<1>3. /\ \A i \in 1..Len(a) : i \in DOMAIN (a \o b) /\ (a \o b)[i] = a[i]
      /\ \A i \in 1..Len(b) : Len(a) + i \in DOMAIN (a \o b) /\ (a \o b)[Len(a) + i] = b[i]
      /\ \A i \in DOMAIN (a \o b) : \/ i \in 1..Len(a) /\ (a \o b)[i] = a[i]
                                    \/ i - Len(a) \in 1..Len(b) /\ (a \o b)[i] = b[i - Len(a)]
  BY <1>1, <1>2
<1>4. u \in Seq(L) /\ Len(u) = c /\ c \in Nat
  BY <1>1, UniqueType, KeptIsFinite
<1>5. /\ Names!ToSet(a) = {a[i] : i \in 1..Len(a)} /\ Names!ToSet(b) = {b[i] : i \in 1..Len(b)}
      /\ Names!ToSet(u) = {u[i] : i \in 1..c}
  BY <1>1, <1>4 DEF Names!ToSet
<1>6. \A i \in DOMAIN (a \o b) : \E n \in 1..c : Names!Key(u[n]) = Names!Key((a \o b)[i])
  BY <1>1, UniqueHolds
<1>7. \A n \in 1..c : \E i \in DOMAIN (a \o b) : u[n] = (a \o b)[i]
  <2>1. ASSUME NEW n \in 1..c PROVE \E i \in DOMAIN (a \o b) : u[n] = (a \o b)[i]
    <3>1. PICK i \in Kept(a \o b) : u[n] = (a \o b)[i]
      BY <1>1, UniqueAt
    <3>. QED BY <3>1 DEF Kept
  <2>. QED BY <2>1
<1>8. \A n, m \in 1..c : n # m => Names!Key(u[n]) # Names!Key(u[m])
  BY <1>1, UniqueDiffers
<1>. HIDE DEF c
<1>9. {Names!Key(l) : l \in Names!ToSet(u)}
        = {Names!Key(l) : l \in Names!ToSet(a)} \union {Names!Key(l) : l \in Names!ToSet(b)}
  <2>1. ASSUME NEW n \in 1..c
        PROVE  Names!Key(u[n]) \in {Names!Key(l) : l \in Names!ToSet(a)} \union {Names!Key(l) : l \in Names!ToSet(b)}
    <3>1. PICK i \in DOMAIN (a \o b) : u[n] = (a \o b)[i]
      BY <1>7
    <3>. QED BY <3>1, <1>3, <1>5
  <2>2. ASSUME NEW i \in 1..Len(a) PROVE Names!Key(a[i]) \in {Names!Key(l) : l \in Names!ToSet(u)}
    <3>1. PICK n \in 1..c : Names!Key(u[n]) = Names!Key(a[i])
      BY <1>3, <1>6
    <3>. QED BY <3>1, <1>5
  <2>3. ASSUME NEW i \in 1..Len(b) PROVE Names!Key(b[i]) \in {Names!Key(l) : l \in Names!ToSet(u)}
    <3>1. PICK n \in 1..c : Names!Key(u[n]) = Names!Key((a \o b)[Len(a) + i])
      BY <1>3, <1>6
    <3>. QED BY <3>1, <1>3, <1>5
  <2>. QED BY <2>1, <2>2, <2>3, <1>5
<1>10. Names!uniqueAliases(u \o b) = u
  <2>1. u \o b \in Seq(L) /\ Len(u \o b) = c + Len(b) /\ c \in 0..Len(u \o b)
    BY <1>1, <1>2, <1>4
  <2>2. \A i \in 1..c : (u \o b)[i] = u[i]
    BY <1>1, <1>2, <1>4
  <2>3. \A i \in c + 1..Len(u \o b) : i - c \in 1..Len(b) /\ (u \o b)[i] = b[i - c]
    BY <1>1, <1>2, <1>4, <2>1
  <2>4. \A i, j \in 1..c : i # j => Names!Key((u \o b)[i]) # Names!Key((u \o b)[j])
    BY <1>8, <2>2
  <2>5. ASSUME NEW i \in c + 1..Len(u \o b)
        PROVE  \E j \in 1..c : Names!Key((u \o b)[i]) = Names!Key((u \o b)[j])
    <3>1. PICK j \in 1..c : Names!Key(u[j]) = Names!Key((a \o b)[Len(a) + (i - c)])
      BY <1>3, <1>6, <2>3
    <3>. QED BY <3>1, <1>3, <2>2, <2>3
  <2>6. Names!uniqueAliases(u \o b) = [n \in 1..c |-> (u \o b)[n]]
    BY <2>1, <2>4, <2>5, UniqueAgain
  <2>7. u = [n \in 1..c |-> u[n]]
    BY <1>4
  <2>. QED BY <2>2, <2>6, <2>7
<1>. QED BY <1>4, <1>9, <1>10 DEF a, b, u, SeededKeys

\* A row that was seeded.
LEMMA SeededRow ==
    ASSUME NEW L, NEW r, IsRow(r, L), NEW byCode, IsSeed(byCode, L)
    PROVE  LET s == SeedRow(r, byCode) IN
           /\ IsRow(s, L) /\ s.code = r.code /\ s.name = r.name
           /\ Claims(s) \subseteq Claims(r) \union SeededKeys(r, byCode)
           /\ s # r => r.code \in DOMAIN byCode /\ SeededKeys(r, byCode) \subseteq Names!Keys(s)
           /\ SeedRow(s, byCode) = s
<1>. DEFINE s == SeedRow(r, byCode)
            m == Merged(r, byCode)
<1>1. Names!Keys(r) = {Names!Key(r.name)} \union {Names!Key(l) : l \in Names!ToSet(r.aliases)}
  BY DEF Names!Keys, Names!Names
<1>2. CASE Len(m) = Len(r.aliases)
  <2>1. s = r
    BY <1>2 DEF SeedRow
  <2>. QED BY <2>1
<1>3. CASE Len(m) # Len(r.aliases)
  <2>1. r.code \in DOMAIN byCode
    BY <1>3 DEF Merged
  <2>2. s = [r EXCEPT !.aliases = m]
    BY <1>3 DEF SeedRow
  <2>. HIDE DEF m, s
  <2>3. s = [code |-> r.code, name |-> r.name, aliases |-> m]
    BY <2>2 DEF IsRow
  <2>4. s.code = r.code /\ s.name = r.name /\ s.aliases = m
    BY <2>3
  <2>5. /\ m \in Seq(L)
        /\ {Names!Key(l) : l \in Names!ToSet(m)}
             = {Names!Key(l) : l \in Names!ToSet(r.aliases)} \union SeededKeys(r, byCode)
        /\ Names!uniqueAliases(m \o byCode[r.code]) = m
    BY <2>1, MergedKeys DEF m
  <2>6. IsRow(s, L)
    BY <2>3, <2>4, <2>5 DEF IsRow
  <2>7. Names!Keys(s) = {Names!Key(r.name)} \union {Names!Key(l) : l \in Names!ToSet(m)}
    BY <2>4 DEF Names!Keys, Names!Names
  <2>8. SeedRow(s, byCode) = s
    <3>1. Merged(s, byCode) = m
      BY <2>1, <2>4, <2>5 DEF Merged
    <3>. QED BY <2>4, <3>1 DEF SeedRow
  <2>9. Claims(s) \subseteq Claims(r) \union SeededKeys(r, byCode) /\ SeededKeys(r, byCode) \subseteq Names!Keys(s)
    BY <1>1, <2>4, <2>5, <2>7 DEF Claims
  <2>. QED BY <2>1, <2>4, <2>6, <2>8, <2>9 DEF s
<1>. QED BY <1>2, <1>3

\* A table that is seeded is a table, and its rows stay apart.
LEMMA SeededTable ==
    ASSUME NEW L, NEW T, IsTable(T, L), NEW byCode, IsSeed(byCode, L), Names!Unambiguous(T, byCode)
    PROVE  LET S == Names!seedAliases(T, byCode) IN
           /\ DOMAIN S = DOMAIN T /\ IsTable(S, L) /\ Apart(S) /\ Apart(T)
           /\ \A i \in DOMAIN T : S[i] = SeedRow(T[i], byCode) /\ S[i].name = T[i].name
<1>. DEFINE S == Names!seedAliases(T, byCode)
<1>1. DOMAIN S = DOMAIN T /\ \A i \in DOMAIN T : S[i] = SeedRow(T[i], byCode)
  BY SeedIs
<1>. HIDE DEF S
<1>2. ASSUME NEW i \in DOMAIN T
      PROVE  /\ IsRow(S[i], L) /\ S[i].name = T[i].name
             /\ Claims(S[i]) \subseteq Claims(T[i]) \union SeededKeys(T[i], byCode)
  <2>1. IsRow(T[i], L)
    BY DEF IsTable
  <2>. QED BY <2>1, <1>1, SeededRow
<1>3. \A i, j \in DOMAIN T : i # j =>
         (Claims(T[i]) \union SeededKeys(T[i], byCode)) \intersect (Claims(T[j]) \union SeededKeys(T[j], byCode)) = {}
  BY DEF Names!Unambiguous, Claims, SeededKeys
<1>4. Apart(T)
  BY <1>3 DEF Apart
<1>5. Apart(S)
  BY <1>1, <1>2, <1>3 DEF Apart
<1>6. IsTable(S, L)
  BY <1>1, <1>2 DEF IsTable
<1>. QED BY <1>1, <1>2, <1>4, <1>5, <1>6 DEF S

\* A second run of the migration changes nothing.
LEMMA Idempotent ==
    ASSUME NEW L, NEW T, IsTable(T, L), NEW byCode, IsSeed(byCode, L), NEW saved
    PROVE  Names!MigrationIsIdempotent(T, byCode, saved)
<1>. DEFINE S == Names!seedAliases(T, byCode)
            renamed == Names!normalizeStores(S, saved)
<1>. SUFFICES ASSUME Names!Unambiguous(T, byCode)
              PROVE  Names!seedAliases(S, byCode) = S /\ Names!normalizeStores(S, renamed) = renamed
  BY DEF Names!MigrationIsIdempotent
<1>1. /\ DOMAIN S = DOMAIN T /\ IsTable(S, L) /\ Apart(S)
      /\ \A i \in DOMAIN T : S[i] = SeedRow(T[i], byCode)
  BY SeededTable
<1>2. S = [i \in DOMAIN T |-> SeedRow(T[i], byCode)]
  BY SeedIs
<1>3. Names!seedAliases(S, byCode) = [i \in DOMAIN T |-> SeedRow(S[i], byCode)]
  BY <1>1, SeedIs
<1>. HIDE DEF S
<1>4. ASSUME NEW i \in DOMAIN T PROVE SeedRow(S[i], byCode) = SeedRow(T[i], byCode)
  <2>1. IsRow(T[i], L)
    BY DEF IsTable
  <2>. QED BY <2>1, <1>1, SeededRow
<1>5. Names!seedAliases(S, byCode) = S
  BY <1>2, <1>3, <1>4
<1>6. DOMAIN renamed = DOMAIN saved /\ renamed = [o \in DOMAIN saved |-> renamed[o]]
  BY DEF Names!normalizeStores
<1>7. Names!normalizeStores(S, renamed)
        = [o \in DOMAIN saved |-> IF Names!resolveCountryName(S, renamed[o]) = Names!None THEN renamed[o]
                                   ELSE Names!resolveCountryName(S, renamed[o])]
  BY <1>6 DEF Names!normalizeStores
<1>8. ASSUME NEW o \in DOMAIN saved
      PROVE  \/ Names!resolveCountryName(S, renamed[o]) = Names!None
             \/ Names!resolveCountryName(S, renamed[o]) = renamed[o]
  <2>. DEFINE name == Names!resolveCountryName(S, saved[o])
  <2>1. renamed[o] = IF name = Names!None THEN saved[o] ELSE name
    BY DEF Names!normalizeStores
  <2>2. CASE name = Names!None
    BY <2>1, <2>2
  <2>3. CASE name # Names!None
    <3>1. PICK i \in DOMAIN S : name = S[i].name
      BY <2>3, <1>1, ResolvedIsRow DEF IsTable
    <3>2. Names!resolveCountryName(S, S[i].name) = S[i].name
      BY <1>1, OwnName DEF IsTable
    <3>. QED BY <2>1, <2>3, <3>1, <3>2
  <2>. QED BY <2>2, <2>3
<1>. HIDE DEF renamed
<1>9. Names!normalizeStores(S, renamed) = renamed
  BY <1>6, <1>7, <1>8
<1>. QED BY <1>5, <1>9

\* After it every seeded alias means its country.
LEMMA AliasesMean ==
    ASSUME NEW L, NEW T, IsTable(T, L), NEW byCode, IsSeed(byCode, L), NEW saved
    PROVE  Names!AliasesResolve(T, byCode, saved)
<1>. DEFINE S == Names!seedAliases(T, byCode)
            renamed == Names!normalizeStores(S, saved)
<1>. SUFFICES ASSUME Names!Unambiguous(T, byCode)
              PROVE  /\ \A i \in DOMAIN T : T[i].code \in DOMAIN byCode /\ ~(S[i] = T[i]) =>
                           \A l \in Names!ToSet(byCode[T[i].code]), spelling \in 1..2 :
                              Names!resolveCountryName(S, <<Names!Key(l), spelling>>) = T[i].name
                     /\ \A o \in DOMAIN saved :
                           renamed[o] = saved[o] \/ \E i \in DOMAIN T : renamed[o] = T[i].name
  BY DEF Names!AliasesResolve
<1>1. /\ DOMAIN S = DOMAIN T /\ IsTable(S, L) /\ Apart(S)
      /\ \A i \in DOMAIN T : S[i] = SeedRow(T[i], byCode) /\ S[i].name = T[i].name
  BY SeededTable
<1>. HIDE DEF S
<1>2. ASSUME NEW i \in DOMAIN T, T[i].code \in DOMAIN byCode, S[i] # T[i],
             NEW l \in Names!ToSet(byCode[T[i].code]), NEW spelling \in 1..2
      PROVE  Names!resolveCountryName(S, <<Names!Key(l), spelling>>) = T[i].name
  <2>. DEFINE label == <<Names!Key(l), spelling>>
  <2>1. Names!Key(label) = Names!Key(l)
    BY DEF Names!Key
  <2>2. Names!Key(l) \in SeededKeys(T[i], byCode)
    BY <1>2 DEF SeededKeys
  <2>3. IsRow(T[i], L)
    BY DEF IsTable
  <2>4. SeededKeys(T[i], byCode) \subseteq Names!Keys(S[i])
    BY <2>3, <1>1, <1>2, SeededRow
  <2>. HIDE DEF label
  <2>5. Names!Key(label) \in Claims(S[i])
    BY <2>1, <2>2, <2>4 DEF Claims
  <2>6. Names!resolveCountryName(S, label) = S[i].name
    BY <1>1, <2>5, ResolveNameOwn DEF IsTable
  <2>. QED BY <2>6, <1>1 DEF label
<1>3. ASSUME NEW o \in DOMAIN saved
      PROVE  renamed[o] = saved[o] \/ \E i \in DOMAIN T : renamed[o] = T[i].name
  <2>1. renamed[o] = IF Names!resolveCountryName(S, saved[o]) = Names!None THEN saved[o]
                     ELSE Names!resolveCountryName(S, saved[o])
    BY DEF Names!normalizeStores
  <2>. HIDE DEF renamed
  <2>2. CASE Names!resolveCountryName(S, saved[o]) # Names!None
    <3>1. PICK i \in DOMAIN S : Names!resolveCountryName(S, saved[o]) = S[i].name
      BY <2>2, <1>1, ResolvedIsRow DEF IsTable
    <3>. QED BY <2>1, <2>2, <3>1, <1>1
  <2>. QED BY <2>1, <2>2
<1>. HIDE DEF renamed
<1>. QED BY <1>2, <1>3

\* A name that was stored is left as it is.
LEMMA ResolvedStays ==
    ASSUME NEW L, NEW T, IsTable(T, L), NEW byCode, IsSeed(byCode, L), NEW saved
    PROVE  Names!ResolvedIsCanonical(T, byCode, saved)
<1>. SUFFICES ASSUME Names!Unambiguous(T, byCode), NEW o \in DOMAIN saved,
                     Names!resolveCountryName(T, saved[o]) # Names!None
              PROVE  Names!resolveCountryName(T, Names!resolveCountryName(T, saved[o]))
                        = Names!resolveCountryName(T, saved[o])
  BY DEF Names!ResolvedIsCanonical
<1>1. Apart(T) /\ DOMAIN T \subseteq Nat
  BY SeededTable DEF IsTable
<1>2. PICK i \in DOMAIN T : Names!resolveCountryName(T, saved[o]) = T[i].name
  BY <1>1, ResolvedIsRow
<1>. QED BY <1>1, <1>2, OwnName

\* Whatever the table, names mean after a migration what they meant before.
LEMMA CountriesAgree ==
    ASSUME NEW L, NEW T, IsTable(T, L), NEW seed \in Seq(L), NEW name
    PROVE  NamesAgree(T, seed, name)
<1>. DEFINE byCode == [code \in {<<"T", 1>>} |-> seed]
<1>1. IsSeed(byCode, L)
  BY DEF IsSeed
<1>. HIDE DEF byCode
<1>2. /\ Names!MigrationIsIdempotent(T, byCode, <<name>>)
      /\ Names!AliasesResolve(T, byCode, <<name>>)
      /\ Names!ResolvedIsCanonical(T, byCode, <<name>>)
  BY <1>1, Idempotent, AliasesMean, ResolvedStays
<1>. QED BY <1>2 DEF NamesAgree, byCode

-----------------------------------------------------------------------------
(* The questions.                                                          *)

\* What is asked is one of the questions there are.
QuestionInv ==
    \/ question = [topic |-> "none"]
    \/ \E q \in Presets \union Customs : question = [topic |-> "days", of |-> q]
    \/ \E o \in AtLimit : question = [topic |-> "reports", of |-> o]
    \/ \E f \in Files : question = [topic |-> "file", of |-> f]
    \/ \E t \in Tickets : question = [topic |-> "desk", of |-> t]
    \/ \E account \in Accounts : question = [topic |-> "account", of |-> account]
    \/ \E t \in Tables : question = [topic |-> "names", of |-> t]

\* A question is asked once, and of those there are.
LEMMA QuestionStep ==
    ASSUME QuestionInv, [Next]_vars
    PROVE  QuestionInv'
<1>1. NextQuestion \/ UNCHANGED question
  BY DEF Next, Resting, In, vars
<1>2. CASE NextQuestion
  BY <1>2 DEF NextQuestion, Ask, QuestionInv
<1>3. CASE UNCHANGED question
  BY <1>3 DEF QuestionInv
<1>. QED BY <1>1, <1>2, <1>3

\* Reports of two organizations are those of a database.
LEMMA TwoOrganizations ==
    ASSUME NEW o \in AtLimit, NEW other \in Others
    PROVE  ReportsAgree([a |-> o, b |-> other])
<1>. DEFINE db == [a |-> o, b |-> other]
            names == {"a", "b"}
<1>1. DOMAIN db = names /\ db["a"] = o /\ db["b"] = other
  OBVIOUS
<1>2. IsFiniteSet(names)
  <2>1. IsFiniteSet({"a"})
    BY FS_Singleton
  <2>2. IsFiniteSet({"a"} \union {"b"})
    BY <2>1, FS_AddElement
  <2>3. names = {"a"} \union {"b"}
    OBVIOUS
  <2>. QED BY <2>2, <2>3
<1>3. IsOrg(o) /\ IsOrg(other) /\ NearLimitPct \in Nat \ {0}
      /\ TeamLimit \in Nat /\ TopLimit \in Nat
  BY QuestionAssumption
<1>. HIDE DEF db
<1>4. IsBase(db)
  BY <1>1, <1>2, <1>3 DEF IsBase
<1>5. ReportsAgree(db)
  BY <1>3, <1>4, ReportsMatch
<1>. QED BY <1>5 DEF db

\* Two tickets are a desk.
LEMMA TwoTickets ==
    ASSUME NEW t \in Tickets, NEW new \in NewTickets
    PROVE  DeskAgrees(<<t, new>>)
<1>. DEFINE desk == <<t, new>>
            places == 1..2
<1>1. DOMAIN desk = places /\ desk[1] = t /\ desk[2] = new
  OBVIOUS
<1>2. IsFiniteSet(places)
  <2>1. 1 \in Int /\ 2 \in Int
    OBVIOUS
  <2>. QED BY <2>1, FS_Interval
<1>3. IsTicket(t) /\ IsTicket(new) /\ FirstResponse \in Int
  BY QuestionAssumption
<1>. HIDE DEF desk
<1>4. \A n \in DOMAIN desk : IsTicket(desk[n])
  BY <1>1, <1>3
<1>5. IsFiniteSet(DOMAIN desk)
  BY <1>1, <1>2
<1>6. DeskAgrees(desk)
  <2>1. \A who : Views!CountersMatchLists(desk, who, 5)
    BY CountersMatch
  <2>2. Views!TurnsAgree(desk, 5) /\ Views!SearchNarrows(desk, "x")
    BY <1>4, TurnsMatch, SearchesNarrow
  <2>3. Views!OverdueAgrees(desk, 5)
    BY <1>3, <1>4, <1>5, OverdueMatch
  <2>. QED BY <2>1, <2>2, <2>3 DEF DeskAgrees
<1>. QED BY <1>6 DEF desk

\* Whatever is asked, the two places agree.
LEMMA QuestionEnds ==
    ASSUME QuestionInv
    PROVE  /\ question.topic = "days" => DaysAgree(question.of)
           /\ question.topic = "reports" => \A other \in Others : ReportsAgree([a |-> question.of, b |-> other])
           /\ question.topic = "file" => \A kinds \in KindSets : /\ Rules!PanelAgrees(question.of, kinds)
                                                                 /\ Rules!KindIsKept(question.of, kinds)
           /\ question.topic = "desk" => \A new \in NewTickets : DeskAgrees(<<question.of, new>>)
           /\ question.topic = "account" => Views!SnapshotTells(question.of)
           /\ question.topic = "names" => \A seed \in Seeds, name \in Labels : NamesAgree(question.of, seed, name)
<1>1. ASSUME question.topic = "days" PROVE DaysAgree(question.of)
  <2>1. question.of \in Presets \union Customs
    BY <1>1 DEF QuestionInv
  <2>2. PICK q \in Presets \union Customs : q = question.of
    BY <2>1
  <2>3. /\ IsCalendar /\ (IsPreset(q) \/ IsCustom(q))
        /\ \E m \in DOMAIN FirstDay : FirstDay[m] <= Days!DayOf(q.zone, q.at)
    BY QuestionAssumption
  <2>. QED BY <2>2, <2>3, DaysMatch
<1>2. ASSUME question.topic = "reports", NEW other \in Others
      PROVE  ReportsAgree([a |-> question.of, b |-> other])
  <2>1. question.of \in AtLimit
    BY <1>2 DEF QuestionInv
  <2>. QED BY <2>1, TwoOrganizations
<1>3. ASSUME question.topic = "file", NEW kinds \in KindSets
      PROVE  Rules!PanelAgrees(question.of, kinds) /\ Rules!KindIsKept(question.of, kinds)
  <2>1. question.of \in Files
    BY <1>3 DEF QuestionInv
  <2>2. IsFile(question.of) /\ kinds \in SUBSET Rules!Kinds
    BY <2>1, QuestionAssumption
  <2>. QED BY <2>2, PanelAndServer, KindStays
<1>4. ASSUME question.topic = "desk", NEW new \in NewTickets
      PROVE  DeskAgrees(<<question.of, new>>)
  <2>1. question.of \in Tickets
    BY <1>4 DEF QuestionInv
  <2>. QED BY <2>1, TwoTickets
<1>5. Views!SnapshotTells(question.of)
  BY SnapshotNames
<1>6. ASSUME question.topic = "names", NEW seed \in Seeds, NEW name \in Labels
      PROVE  NamesAgree(question.of, seed, name)
  <2>1. question.of \in Tables
    BY <1>6 DEF QuestionInv
  <2>2. IsTable(question.of, Labels) /\ seed \in Seq(Labels)
    BY <2>1, QuestionAssumption
  <2>. QED BY <2>2, CountriesAgree
<1>. QED BY <1>1, <1>2, <1>3, <1>4, <1>5, <1>6

-----------------------------------------------------------------------------
(* The theorems.                                                           *)

\* An operator has an id to sign in with, an administrator an address and no PIN; an id
\* once given stays with its account; a number that is drawn is nobody else's in the
\* organization; and an administrator shows what his organization shows.  Exempt are the
\* accounts and fields whose calls met, or that were set apart (raced, bare, apart).
THEOREM AccountsCorrect == Spec => AccountsKeepSignIn
<1>. DEFINE Life == \A u \in AccountUsers \ raced :
                       users[u].id # Accts!NoId => users'[u].id = users[u].id
            Good == Accts!CredentialsFitRole /\ Accts!NumbersAreFresh /\ Companies!Mirrored
<1>1. Init => AccountInv /\ CompanyInv
  BY AccountStart, CompanyStart DEF Init
<1>2. AccountInv /\ CompanyInv /\ [Next]_vars => (AccountInv /\ CompanyInv)'
  <2>. SUFFICES ASSUME AccountInv, CompanyInv, [Next]_vars PROVE AccountInv' /\ CompanyInv'
    OBVIOUS
  <2>. QED BY SceneSteps, AccountStep, CompanyStep
<1>3. AccountInv /\ CompanyInv => Good
  BY AccountEnds DEF CompanyInv
<1>4. AccountInv /\ [Next]_vars => [Life]_(Accts!vars)
  <2>. SUFFICES ASSUME AccountInv, [Next]_vars PROVE Life
    OBVIOUS
  <2>. QED BY SceneSteps, AccountLife
<1>. QED BY <1>1, <1>2, <1>3, <1>4, PTL DEF Spec, AccountsKeepSignIn, Accts!IdIsForLife

\* A quarterly price is the one that was given or the one that follows from price and
\* discount, a plan on sale has a price for its cycle and for no other, and two plans have
\* one name only if they raced for it; and whatever the zone, the
\* database, the file, the desk, the account and the table that is asked about: a chart
\* shows each scan of its range once, under the day of its zone, and as many days before;
\* each report counts what the lists behind it hold, and a list of the most active leaves
\* nobody out who has more scans than somebody on it; the panel takes a file if the server
\* does; a counter of tickets is as long as its list; and a name of a country means after
\* a migration what it meant before.  Exempt are the plans on which two writers met
\* (crossed).  The organization's page and its dashboard show the same use while their two
\* counters, Redis' and the usage row's, are the same, either may be ahead otherwise; what
\* differs for raised limits is named at AlertsAgree, for deleted organizations at
\* CountsAddUp, for teams larger than a query at TeamIsSplit.
THEOREM RulesCorrect == Spec => []RulesAgree
<1>1. Init => PlanInv /\ QuestionInv
  BY PlanStart DEF Init, QuestionInv
<1>2. PlanInv /\ QuestionInv /\ [Next]_vars => (PlanInv /\ QuestionInv)'
  <2>. SUFFICES ASSUME PlanInv, QuestionInv, [Next]_vars PROVE PlanInv' /\ QuestionInv'
    OBVIOUS
  <2>. QED BY SceneSteps, PlanStep, QuestionStep
<1>3. PlanInv /\ QuestionInv => RulesAgree
  <2>. SUFFICES ASSUME PlanInv, QuestionInv PROVE RulesAgree
    OBVIOUS
  <2>. QED BY PlanEnds, QuestionEnds DEF RulesAgree
<1>. QED BY <1>1, <1>2, <1>3, PTL DEF Spec

\* The types of all components: of reminders, records and plans in every scene, of the rest in
\* the scenes in which they run.
TypeInv ==
    /\ MailInv /\ NoticeInv /\ AccountInv /\ AccountDetails /\ CompanyInv /\ StatusKept /\ PlanInv
    /\ scene = "periods" => PeriodInv /\ ScansCounted
    /\ scene = "alerts" => AlertInv /\ LevelsGiven
    /\ scene = "threads" => ThreadInv /\ TimesKept
    /\ scene = "uploads" => Uploads!TypeOK

\* Every document, row and message has values its table allows, in its scene: a window that
\* is recorded is one of the job's, a row of usage holds no more than was charged, an alert's
\* level is a threshold, no message is from later than now, a prefix is an organization's and
\* a status one of the three.
THEOREM TypeCorrect == Spec => []TypeOK
<1>1. Init => TypeInv
  <2>. SUFFICES ASSUME Init PROVE TypeInv
    OBVIOUS
  <2>1. MailInv /\ NoticeInv /\ AccountInv /\ CompanyInv /\ PlanInv
    BY MailStart, NoticeStart, AccountStart, CompanyStart, PlanStart DEF Init
  <2>2. AccountDetails /\ StatusKept
    BY DetailsStart, StatusStart DEF Init
  <2>3. PeriodInv /\ ScansCounted /\ AlertInv /\ LevelsGiven
    BY PeriodStart, ScansStart, AlertStart, LevelsStart DEF Init
  <2>4. ThreadInv /\ TimesKept /\ Uploads!TypeOK
    BY ThreadStart, TimesStart, UploadTyped DEF Init
  <2>. QED BY <2>1, <2>2, <2>3, <2>4 DEF TypeInv
<1>2. TypeInv /\ [Next]_vars => TypeInv'
  <2>. SUFFICES ASSUME TypeInv, [Next]_vars PROVE TypeInv'
    OBVIOUS
  <2>1. (MailInv /\ NoticeInv /\ CompanyInv /\ PlanInv)'
    BY SceneSteps, MailStep, NoticeStep, CompanyStep, PlanStep DEF TypeInv
  <2>2. (AccountInv /\ AccountDetails)'
    BY SceneSteps, AccountStep, DetailsStep DEF TypeInv, AccountInv
  <2>3. StatusKept'
    BY SceneSteps, StatusStep DEF TypeInv
  <2>4. ASSUME scene = "periods" PROVE (PeriodInv /\ ScansCounted)'
    BY <2>4, SceneSteps, PeriodStep, ScansStep DEF TypeInv, PeriodInv
  <2>5. ASSUME scene = "alerts" PROVE (AlertInv /\ LevelsGiven)'
    BY <2>5, SceneSteps, AlertStep, LevelsStep DEF TypeInv, AlertInv
  <2>6. ASSUME scene = "threads" PROVE (ThreadInv /\ TimesKept)'
    BY <2>6, SceneSteps, ThreadStep, TimesStep DEF TypeInv, ThreadInv
  <2>7. ASSUME scene = "uploads" PROVE Uploads!TypeOK'
    BY <2>7, SceneSteps, UploadTyped DEF TypeInv
  <2>. QED BY SceneSteps, <2>1, <2>2, <2>3, <2>4, <2>5, <2>6, <2>7 DEF TypeInv
<1>3. TypeInv => TypeOK
  <2>. SUFFICES ASSUME TypeInv PROVE TypeOK
    OBVIOUS
  <2>1. ByMail!TypeOK /\ InApp!TypeOK /\ Accts!TypeOK /\ Companies!TypeOK /\ Catalog!TypeOK
    BY MailTyped, NoticeTyped, AccountTyped, CompanyTyped, PlanEnds
       DEF TypeInv, NoticeInv, AccountInv, CompanyInv
  <2>2. scene = "periods" => Periods!TypeOK
    BY PeriodTyped DEF TypeInv, PeriodInv
  <2>3. scene = "alerts" => Alerts!TypeOK
    BY DEF TypeInv, LevelsGiven, Alerts!TypeOK
  <2>4. scene = "threads" => Threads!TypeOK
    BY ThreadTyped DEF TypeInv, ThreadInv
  <2>. QED BY <2>1, <2>2, <2>3, <2>4 DEF TypeOK, TypeInv, In
<1>. QED BY <1>1, <1>2, <1>3, PTL DEF Spec
=============================================================================
