--------------------- MODULE CheckoutProvisioningProofs ---------------------
(***************************************************************************)
(* Theorems about CheckoutProvisioning, for any finite sets of orders,     *)
(* handlers and addresses and any number of faults.                        *)
(*                                                                         *)
(* Types adds to TypeOK that the tables are finite, so that their rows can *)
(* be numbered.  Backed says of a handler past the grant what              *)
(* SuccessIsBacked says of a paid order.                                   *)
(***************************************************************************)
EXTENDS CheckoutProvisioning, FiniteSetTheorems, TLAPS

Types == TypeOK /\ IsFiniteSet(orgs) /\ IsFiniteSet(subs)

\* A handler that has granted remembers an organization it granted its order to.
Backed ==
    \A h \in Handlers : pc[h] \in {"savePayment", "saveLead"} =>
        \A g \in org[h] : \E s \in SubsOf(order[h]) : s[2] = g

SuccessInv == Types /\ Backed /\ SuccessIsBacked

\* What holds of an address whose organization is resolved by one handler at a
\* time and unharmed.
Alone(e) ==
    /\ \A h, k \in Contending(e) : h = k
    /\ \A a, b \in OrgsOf(e) : a = b
    /\ \A h \in Contending(e) :
          /\ pc[h] \in {"isEmailTaken", "findTaken", "createOrganization"} => OrgsOf(e) = {}
          /\ pc[h] \in {"createOrganization", "createUser"} => e \notin users
          /\ pc[h] = "createUser" => OrgsOf(e) = org[h]
    /\ OrgsOf(e) \subseteq admins \/ \E h \in Contending(e) : pc[h] = "createUser"
    /\ \A s \in subs : s[2][1] = e => s[2] \in admins
    /\ \A h \in Handlers : pc[h] = "grant" => \A g \in org[h] : g[1] = e => g \in admins

ContentionInv == Types /\ \A e \in Emails \ contended : Alone(e)

\* The checkout is opened in the order lead, gateway order, payment row, and the
\* customer pays after that.
Opened(o) ==
    /\ lead[o] = "absent" => gateway[o] = "absent"
    /\ gateway[o] = "absent" => payment[o] = "absent"
    /\ gateway[o] = "captured" => payment[o] # "absent"
    /\ InFlight(o) # {} => gateway[o] = "captured"

\* An order no handler is at work on has no grant unless it is paid, and its
\* lead is initiated only as long as its payment is open.
Resting(o) ==
    /\ lead[o] = "initiated" => payment[o] \in {"absent", "CREATED"}
    /\ SubsOf(o) # {} => payment[o] = "TXN_SUCCESS"

\* The rows of an order as its one handler finds them at each stage.
Stands(o, stage) ==
    /\ stage \in {"idle", "findPayment", "findLead"} => Resting(o)
    /\ stage = "findLead" => payment[o] # "TXN_SUCCESS"
    /\ stage \in Resolving \union {"grant"} \union Catching =>
          payment[o] = "CREATED" /\ SubsOf(o) = {}
    /\ stage = "failPayment" => lead[o] = "failed"
    /\ stage = "savePayment" => payment[o] = "CREATED" /\ SubsOf(o) # {}
    /\ stage = "saveLead" => payment[o] = "TXN_SUCCESS" /\ SubsOf(o) # {}

\* What holds of an order whose notifications are handled one after the other
\* and unharmed.
Undisturbed(o) ==
    /\ \A h, k \in InFlight(o) : h = k
    /\ \A s, t \in SubsOf(o) : s = t
    /\ \A h \in InFlight(o) : Stands(o, pc[h])
    /\ InFlight(o) = {} => Resting(o)

OrderInv ==
    /\ Types
    /\ \A o \in Orders : Opened(o)
    /\ \A o \in Orders \ disturbed : Undisturbed(o)

-----------------------------------------------------------------------------
(* Types.                                                                  *)

\* A set whose members are all equal is empty or a singleton.
LEMMA AtMostOne ==
    ASSUME NEW S, \A a, b \in S : a = b
    PROVE  \/ S = {} /\ Cardinality(S) = 0
           \/ \E a \in S : S = {a} /\ Cardinality(S) = 1
<1>1. CASE S = {}
  BY <1>1, FS_EmptySet
<1>2. CASE S # {}
  <2>1. PICK a \in S : TRUE
    BY <1>2
  <2>2. S = {a}
    BY <2>1
  <2>. QED BY <2>1, <2>2, FS_Singleton
<1>. QED BY <1>1, <1>2

\* An injective image of the addresses is finite.
LEMMA KnownFinite ==
    ASSUME NEW known \in SUBSET Emails
    PROVE  IsFiniteSet({<<e, 1>> : e \in known})
<1>. DEFINE S == {<<e, 1>> : e \in known}
<1>. DEFINE f == [e \in known |-> <<e, 1>>]
<1>1. IsFiniteSet(known)
  BY CheckoutAssumption, FS_Subset DEF CheckoutAssumption
<1>2. f \in Surjection(known, S)
  BY Zenon DEF Surjection
<1>. QED BY <1>1, <1>2, FS_Surjection

\* The first number of an organization's address, and of an order's grant, is a number.
LEMMA NumbersAreNumbers ==
    ASSUME Types
    PROVE  /\ \A e \in Emails : Cardinality(OrgsOf(e)) \in Nat
           /\ \A o \in Orders : IsFiniteSet(SubsOf(o)) /\ Cardinality(SubsOf(o)) \in Nat
<1>1. \A e \in Emails : OrgsOf(e) \subseteq orgs
  BY DEF OrgsOf
<1>2. \A o \in Orders : SubsOf(o) \subseteq subs
  BY DEF SubsOf
<1>. QED BY <1>1, <1>2, FS_Subset, FS_CardinalityType DEF Types

\* Init establishes the types.
LEMMA TypesInit == Init => Types
<1>. SUFFICES ASSUME Init PROVE Types
  OBVIOUS
<1>1. PICK known \in SUBSET Emails :
          orgs = {<<e, 1>> : e \in known} /\ \E other \in SUBSET Emails : users = known \union other
  BY DEF Init
<1>2. IsFiniteSet(orgs) /\ IsFiniteSet(subs)
  BY <1>1, KnownFinite, FS_EmptySet DEF Init
<1>3. orgs \subseteq Emails \X (Nat \ {0}) /\ users \subseteq Emails
  BY <1>1
<1>4. order \in [Handlers -> Orders]
  BY CheckoutAssumption DEF Init, CheckoutAssumption
<1>5. 0 \in 0 .. MaxFaults
  BY CheckoutAssumption DEF CheckoutAssumption
<1>. QED BY <1>2, <1>3, <1>4, <1>5 DEF Init, Types, TypeOK, Stages

\* A handler that remembers one organization remembers one that exists.
LEMMA Remembered ==
    ASSUME Types, NEW h \in Handlers, NEW g \in orgs, NEW stage \in Stages,
           org' = [org EXCEPT ![h] = {g}], pc' = [pc EXCEPT ![h] = stage]
    PROVE  /\ org' \in [Handlers -> SUBSET orgs]
           /\ pc' \in [Handlers -> Stages]
           /\ \A k \in Handlers :
                 pc'[k] \in {"createUser", "grant", "savePayment", "saveLead"}
                     => Cardinality(org'[k]) = 1
<1>. org \in [Handlers -> SUBSET orgs] /\ pc \in [Handlers -> Stages]
  BY DEF Types, TypeOK
<1>1. org' \in [Handlers -> SUBSET orgs] /\ pc' \in [Handlers -> Stages]
  OBVIOUS
<1>2. Cardinality({g}) = 1
  BY FS_Singleton
<1>3. org'[h] = {g}
  OBVIOUS
<1>4. \A k \in Handlers : k # h => org'[k] = org[k] /\ pc'[k] = pc[k]
  OBVIOUS
<1>5. ASSUME NEW k \in Handlers,
             pc'[k] \in {"createUser", "grant", "savePayment", "saveLead"}
      PROVE  Cardinality(org'[k]) = 1
  <2>1. CASE k = h
    BY <1>2, <1>3, <2>1
  <2>2. CASE k # h
    BY <1>4, <1>5, <2>2 DEF Types, TypeOK
  <2>. QED BY <2>1, <2>2
<1>. QED BY <1>1, <1>5

\* A step of a handler keeps the types.
LEMMA TypesHandler ==
    ASSUME Types, NEW h \in Handlers, Step(h)
    PROVE  Types'
<1>. USE FS_Singleton DEF Types, TypeOK, Goto, Stages, Trying, Catching, store, form, history
<1>1. CASE FindPayment(h)
  BY <1>1 DEF FindPayment
<1>2. CASE FindLead(h)
  BY <1>2 DEF FindLead
<1>3. CASE FindOrganization(h)
  <2>. UNCHANGED <<email, via, lead, gateway, payment, payOrg, orgs, users, admins, subs, order, faults,
                   disturbed, contended, cut>>
    BY <1>3 DEF FindOrganization
  <2>1. CASE org' = org /\ pc' = [pc EXCEPT ![h] = "isEmailTaken"]
    BY <2>1
  <2>2. CASE \E g \in orgs : org' = [org EXCEPT ![h] = {g}] /\ pc' = [pc EXCEPT ![h] = "grant"]
    <3>1. PICK g \in orgs :
              org' = [org EXCEPT ![h] = {g}] /\ pc' = [pc EXCEPT ![h] = "grant"]
      BY <2>2
    <3>2. /\ org' \in [Handlers -> SUBSET orgs]
          /\ pc' \in [Handlers -> Stages]
          /\ \A k \in Handlers :
                pc'[k] \in {"createUser", "grant", "savePayment", "saveLead"}
                    => Cardinality(org'[k]) = 1
      BY <3>1, Remembered
    <3>. QED BY <3>2
  <2>. QED BY <1>3, <2>1, <2>2 DEF FindOrganization, OrgsOf
<1>4. CASE IsEmailTaken(h)
  BY <1>4 DEF IsEmailTaken
<1>5. CASE FindTaken(h)
  <2>. UNCHANGED <<email, via, lead, gateway, payment, payOrg, orgs, users, admins, subs, order, faults,
                   disturbed, contended, cut>>
    BY <1>5 DEF FindTaken
  <2>1. CASE org' = org /\ pc' = [pc EXCEPT ![h] = "failLead"]
    BY <2>1
  <2>2. CASE \E g \in orgs : org' = [org EXCEPT ![h] = {g}] /\ pc' = [pc EXCEPT ![h] = "grant"]
    <3>1. PICK g \in orgs :
              org' = [org EXCEPT ![h] = {g}] /\ pc' = [pc EXCEPT ![h] = "grant"]
      BY <2>2
    <3>2. /\ org' \in [Handlers -> SUBSET orgs]
          /\ pc' \in [Handlers -> Stages]
          /\ \A k \in Handlers :
                pc'[k] \in {"createUser", "grant", "savePayment", "saveLead"}
                    => Cardinality(org'[k]) = 1
      BY <3>1, Remembered
    <3>. QED BY <3>2
  <2>. QED BY <1>5, <2>1, <2>2 DEF FindTaken, OrgsOf
<1>6. CASE CreateOrganization(h)
  <2>. DEFINE g == <<email[order[h]], Cardinality(OrgsOf(email[order[h]])) + 1>>
  <2>1. g \in Emails \X (Nat \ {0})
    BY NumbersAreNumbers
  <2>. HIDE DEF g
  <2>2. IsFiniteSet(orgs \union {g})
    BY FS_AddElement
  <2>3. /\ orgs' = orgs \union {g} /\ org' = [org EXCEPT ![h] = {g}]
        /\ pc' = [pc EXCEPT ![h] = "createUser"]
        /\ UNCHANGED <<email, via, lead, gateway, payment, payOrg, users, admins, subs, order, faults,
                       disturbed, contended, cut>>
    BY <1>6 DEF CreateOrganization, g
  <2>. QED BY <2>1, <2>2, <2>3
<1>7. CASE CreateUser(h)
  BY <1>7 DEF CreateUser
<1>8. CASE GrantSubscription(h)
  <2>1. PICK g \in org[h] : subs' = subs \union {<<order[h], g, Cardinality(SubsOf(order[h])) + 1>>}
    BY <1>8 DEF GrantSubscription
  <2>. DEFINE s == <<order[h], g, Cardinality(SubsOf(order[h])) + 1>>
  <2>2. s[1] \in Orders /\ s[2] \in orgs /\ s[3] \in Nat
    BY NumbersAreNumbers
  <2>. HIDE DEF s
  <2>3. IsFiniteSet(subs \union {s})
    BY FS_AddElement
  <2>4. subs' = subs \union {s}
    BY <2>1 DEF s
  <2>. QED BY <1>8, <2>2, <2>3, <2>4 DEF GrantSubscription
<1>9. CASE SavePayment(h)
  BY <1>9 DEF SavePayment
<1>10. CASE SaveLead(h)
  BY <1>10 DEF SaveLead
<1>11. CASE FailLead(h)
  BY <1>11 DEF FailLead
<1>12. CASE FailPayment(h)
  BY <1>12 DEF FailPayment
<1>. QED BY <1>1, <1>2, <1>3, <1>4, <1>5, <1>6, <1>7, <1>8, <1>9, <1>10, <1>11, <1>12 DEF Step

\* A fault keeps the types.
LEMMA TypesStrike ==
    ASSUME Types, NEW h \in Handlers, Strike(h)
    PROVE  Types'
<1>. USE DEF Types, TypeOK
<1>1. /\ UNCHANGED <<form, lead, gateway, payment, payOrg, orgs, users, admins, order>>
      /\ faults' \in 0 .. MaxFaults
      /\ disturbed' \subseteq Orders /\ contended' \subseteq Emails
  BY CheckoutAssumption DEF Strike, CheckoutAssumption
<1>2. CASE Throw(h)
  <2>1. /\ org' \in [Handlers -> SUBSET orgs]
        /\ pc' = [pc EXCEPT ![h] = "failLead"] /\ cut' = cut
        /\ \A k \in Handlers : k # h => org'[k] = org[k]
    BY <1>2 DEF Throw, Goto
  <2>2. CASE subs' = subs
    BY <1>1, <2>1, <2>2 DEF form, Stages, Catching
  <2>3. CASE \E g \in org[h] :
                subs' = subs \union {<<order[h], g, Cardinality(SubsOf(order[h])) + 1>>}
    <3>1. PICK g \in org[h] :
              subs' = subs \union {<<order[h], g, Cardinality(SubsOf(order[h])) + 1>>}
      BY <2>3
    <3>. DEFINE s == <<order[h], g, Cardinality(SubsOf(order[h])) + 1>>
    <3>2. s[1] \in Orders /\ s[2] \in orgs /\ s[3] \in Nat
      BY NumbersAreNumbers
    <3>3. subs' = subs \union {s}
      BY <3>1
    <3>. HIDE DEF s
    <3>4. IsFiniteSet(subs \union {s})
      BY FS_AddElement
    <3>. QED BY <1>1, <2>1, <3>2, <3>3, <3>4 DEF form, Stages, Catching
  <2>. QED BY <1>2, <2>2, <2>3 DEF Throw
<1>3. CASE Die(h)
  BY <1>1, <1>3 DEF Die, Goto, form, Stages
<1>. QED BY <1>2, <1>3 DEF Strike

\* Every step keeps the types.
LEMMA TypesNext == Types /\ [Next]_vars => Types'
<1>. SUFFICES ASSUME Types, [Next]_vars PROVE Types'
  OBVIOUS
<1>. USE DEF store, form, handler, history
<1>1. CASE UNCHANGED vars
  BY <1>1 DEF vars, Types, TypeOK
<1>2. ASSUME NEW o \in Orders, Checkout(o) PROVE Types'
  BY <1>2 DEF Checkout, CreateLead, OpenOrder, CreatePayment, Capture, Types, TypeOK
<1>3. ASSUME NEW o \in Orders, NEW h \in Handlers, Notify(o, h) PROVE Types'
  BY <1>3 DEF Notify, Goto, Stages, Types, TypeOK
<1>4. ASSUME NEW h \in Handlers, Step(h) PROVE Types'
  BY <1>4, TypesHandler
<1>5. ASSUME NEW h \in Handlers, Strike(h) PROVE Types'
  BY <1>5, TypesStrike
<1>. QED BY <1>1, <1>2, <1>3, <1>4, <1>5 DEF Next

\* Every state has the types of TypeOK, whatever the sets of orders, handlers
\* and addresses: a handler past the lookup holds one organization that exists.
THEOREM TypeCorrect == Spec => []TypeOK
<1>1. Types => TypeOK
  BY DEF Types
<1>. QED BY <1>1, TypesInit, TypesNext, PTL DEF Spec

-----------------------------------------------------------------------------
(* A paid order is backed by a grant.                                      *)

\* A set of one member is that member's.
LEMMA OneOrganization ==
    ASSUME Types, NEW h \in Handlers,
           pc[h] \in {"createUser", "grant", "savePayment", "saveLead"}
    PROVE  \E g \in orgs : org[h] = {g}
<1>1. Cardinality(org[h]) = 1 /\ org[h] \subseteq orgs
  BY DEF Types, TypeOK
<1>2. IsFiniteSet(org[h])
  BY <1>1, FS_Subset DEF Types
<1>. QED BY <1>1, <1>2, FS_Singleton

\* Grants are never taken back.
LEMMA GrantsStay == [Next]_vars => subs \subseteq subs'
<1>. SUFFICES ASSUME [Next]_vars PROVE subs \subseteq subs'
  OBVIOUS
<1>. USE DEF store, form, handler, history
<1>1. CASE UNCHANGED vars
  BY <1>1 DEF vars
<1>2. ASSUME NEW o \in Orders, Checkout(o) PROVE subs \subseteq subs'
  BY <1>2 DEF Checkout, CreateLead, OpenOrder, CreatePayment, Capture
<1>3. ASSUME NEW o \in Orders, NEW h \in Handlers, Notify(o, h) PROVE subs \subseteq subs'
  BY <1>3 DEF Notify
<1>4. ASSUME NEW h \in Handlers, Step(h) PROVE subs \subseteq subs'
  BY <1>4 DEF Step, FindPayment, FindLead, FindOrganization, IsEmailTaken, FindTaken,
     CreateOrganization, CreateUser, GrantSubscription, SavePayment, SaveLead, FailLead, FailPayment
<1>5. ASSUME NEW h \in Handlers, Strike(h) PROVE subs \subseteq subs'
  BY <1>5 DEF Strike, Throw, Die
<1>. QED BY <1>1, <1>2, <1>3, <1>4, <1>5 DEF Next

\* What a step may do to the organizations handlers remember past the grant:
\* nothing, unless it is the grant.
LEMMA BackedNext == SuccessInv /\ [Next]_vars => Backed'
<1>. SUFFICES ASSUME SuccessInv, [Next]_vars, NEW k \in Handlers,
                     pc'[k] \in {"savePayment", "saveLead"}, NEW g \in org'[k]
              PROVE  \E s \in subs' : s[1] = order'[k] /\ s[2] = g
  BY DEF Backed, SubsOf
<1>. USE DEF SuccessInv, Types, TypeOK, Goto, store, form, handler, history
<1>1. CASE /\ pc[k] \in {"savePayment", "saveLead"}
           /\ org'[k] = org[k] /\ order'[k] = order[k]
  BY <1>1, GrantsStay DEF Backed, SubsOf
<1>2. CASE UNCHANGED vars
  BY <1>1, <1>2 DEF vars
<1>3. ASSUME NEW o \in Orders, Checkout(o) PROVE \E s \in subs' : s[1] = order'[k] /\ s[2] = g
  BY <1>1, <1>3 DEF Checkout, CreateLead, OpenOrder, CreatePayment, Capture
<1>4. ASSUME NEW o \in Orders, NEW h \in Handlers, Notify(o, h)
      PROVE  \E s \in subs' : s[1] = order'[k] /\ s[2] = g
  <2>. h # k
    BY <1>4 DEF Notify
  <2>. QED BY <1>1, <1>4 DEF Notify
<1>5. ASSUME NEW h \in Handlers, Step(h) PROVE \E s \in subs' : s[1] = order'[k] /\ s[2] = g
  <2>1. CASE h = k /\ GrantSubscription(h)
    <3>1. PICK a \in orgs : org[h] = {a}
      BY <2>1, OneOrganization DEF GrantSubscription
    <3>2. subs' = subs \union {<<order[h], a, Cardinality(SubsOf(order[h])) + 1>>}
      BY <2>1, <3>1 DEF GrantSubscription
    <3>3. g = a /\ order'[k] = order[h]
      BY <2>1, <3>1 DEF GrantSubscription
    <3>. DEFINE s == <<order[h], a, Cardinality(SubsOf(order[h])) + 1>>
    <3>4. s \in subs' /\ s[1] = order[h] /\ s[2] = a
      BY ONLY <3>2
    <3>. HIDE DEF s
    <3>. QED BY <3>3, <3>4
  <2>2. CASE h = k /\ SavePayment(h)
    BY <1>1, <2>2 DEF SavePayment
  <2>3. CASE h # k
    BY <1>1, <1>5, <2>3 DEF Step, FindPayment, FindLead, FindOrganization, IsEmailTaken, FindTaken,
       CreateOrganization, CreateUser, GrantSubscription, SavePayment, SaveLead, FailLead, FailPayment
  <2>. QED BY <1>5, <2>1, <2>2, <2>3 DEF Step, FindPayment, FindLead, FindOrganization, IsEmailTaken,
       FindTaken, CreateOrganization, CreateUser, SaveLead, FailLead, FailPayment
<1>6. ASSUME NEW h \in Handlers, Strike(h) PROVE \E s \in subs' : s[1] = order'[k] /\ s[2] = g
  <2>1. h # k
    BY <1>6 DEF Strike, Throw, Die
  <2>. QED BY <1>1, <1>6, <2>1 DEF Strike, Throw, Die
<1>. QED BY <1>2, <1>3, <1>4, <1>5, <1>6 DEF Next

\* Only the last save of a successful handler makes an order paid.
LEMMA SuccessNext == SuccessInv /\ [Next]_vars => SuccessIsBacked'
<1>. SUFFICES ASSUME SuccessInv, [Next]_vars, NEW o \in Orders, payment'[o] = "TXN_SUCCESS"
              PROVE  /\ payOrg'[o] # {}
                     /\ \A g \in payOrg'[o] : \E s \in subs' : s[1] = o /\ s[2] = g
  BY DEF SuccessIsBacked, SubsOf
<1>. DEFINE Paid == /\ payOrg'[o] # {}
                   /\ \A g \in payOrg'[o] : \E s \in subs' : s[1] = o /\ s[2] = g
<1>. USE DEF SuccessInv, Types, TypeOK, store, form, handler, history
<1>1. CASE payment[o] = "TXN_SUCCESS" /\ payOrg'[o] = payOrg[o]
  BY <1>1, GrantsStay DEF SuccessIsBacked, SubsOf
<1>2. CASE UNCHANGED vars
  BY <1>1, <1>2 DEF vars
<1>3. ASSUME NEW p \in Orders, Checkout(p) PROVE Paid
  BY <1>1, <1>3 DEF Checkout, CreateLead, OpenOrder, CreatePayment, Capture
<1>4. ASSUME NEW p \in Orders, NEW h \in Handlers, Notify(p, h) PROVE Paid
  BY <1>1, <1>4 DEF Notify
<1>5. ASSUME NEW h \in Handlers, Step(h) PROVE Paid
  <2>1. CASE SavePayment(h) /\ order[h] = o
    <3>1. PICK a \in orgs : org[h] = {a}
      BY <2>1, OneOrganization DEF SavePayment
    <3>2. payOrg'[o] = org[h] /\ subs' = subs
      BY <2>1 DEF SavePayment
    <3>. QED BY <2>1, <3>1, <3>2 DEF SavePayment, Backed, SubsOf
  <2>2. CASE SavePayment(h) /\ order[h] # o
    BY <1>1, <2>2 DEF SavePayment
  <2>3. CASE FailPayment(h)
    <3>1. order[h] # o
      BY <2>3 DEF FailPayment
    <3>2. payment'[o] = payment[o] /\ payOrg'[o] = payOrg[o]
      BY <2>3, <3>1 DEF FailPayment
    <3>. QED BY <1>1, <3>2
  <2>. QED BY <1>1, <1>5, <2>1, <2>2, <2>3 DEF Step, FindPayment, FindLead, FindOrganization,
       IsEmailTaken, FindTaken, CreateOrganization, CreateUser, GrantSubscription, SaveLead, FailLead
<1>6. ASSUME NEW h \in Handlers, Strike(h) PROVE Paid
  BY <1>1, <1>6 DEF Strike
<1>. QED BY <1>2, <1>3, <1>4, <1>5, <1>6 DEF Next

\* However many handlers work on an order at once and whichever of them are
\* struck, a payment reported successful names an organization that was granted
\* a subscription for that order (payment.service.ts:103-120).
THEOREM SuccessCorrect == Spec => []SuccessIsBacked
<1>1. Init => SuccessInv
  <2>1. Init => Backed /\ SuccessIsBacked
    BY DEF Init, Backed, SuccessIsBacked
  <2>. QED BY <2>1, TypesInit DEF SuccessInv
<1>2. SuccessInv /\ [Next]_vars => SuccessInv'
  BY TypesNext, BackedNext, SuccessNext DEF SuccessInv
<1>3. SuccessInv => SuccessIsBacked
  BY DEF SuccessInv
<1>. QED BY <1>1, <1>2, <1>3, PTL DEF Spec

-----------------------------------------------------------------------------
(* Organizations resolved one at a time.                                   *)

\* A step of a handler keeps what holds of an address it does not contend for.
LEMMA AloneHandler ==
    ASSUME ContentionInv, NEW h \in Handlers, Step(h), NEW e \in Emails, e \notin contended'
    PROVE  Alone(e)'
<1>. USE DEF ContentionInv, Types, TypeOK, Goto, store, form, history
<1>. e \notin contended
  BY DEF Step, FindPayment, FindLead, FindOrganization, IsEmailTaken, FindTaken, CreateOrganization,
     CreateUser, GrantSubscription, SavePayment, SaveLead, FailLead, FailPayment
<1>0. Alone(e)
  OBVIOUS
<1>. USE DEF Alone, Contending, OrgsOf, Resolving
<1>1. CASE FindPayment(h)
  BY <1>0, <1>1 DEF FindPayment
<1>2. CASE FindLead(h)
  BY <1>0, <1>2 DEF FindLead
<1>3. CASE FindOrganization(h)
  BY <1>0, <1>3 DEF FindOrganization
<1>4. CASE IsEmailTaken(h)
  BY <1>0, <1>4 DEF IsEmailTaken
<1>5. CASE FindTaken(h)
  BY <1>0, <1>5 DEF FindTaken
<1>6. CASE CreateOrganization(h)
  BY <1>0, <1>6 DEF CreateOrganization
<1>7. CASE CreateUser(h)
  BY <1>0, <1>7 DEF CreateUser
<1>8. CASE GrantSubscription(h)
  BY <1>0, <1>8 DEF GrantSubscription
<1>9. CASE SavePayment(h)
  BY <1>0, <1>9 DEF SavePayment
<1>10. CASE SaveLead(h)
  BY <1>0, <1>10 DEF SaveLead
<1>11. CASE FailLead(h)
  BY <1>0, <1>11 DEF FailLead
<1>12. CASE FailPayment(h)
  BY <1>0, <1>12 DEF FailPayment
<1>. QED BY <1>1, <1>2, <1>3, <1>4, <1>5, <1>6, <1>7, <1>8, <1>9, <1>10, <1>11, <1>12 DEF Step

\* A fault keeps what holds of an address it does not leave half resolved.
LEMMA AloneStrike ==
    ASSUME ContentionInv, NEW h \in Handlers, Strike(h), NEW e \in Emails, e \notin contended'
    PROVE  Alone(e)'
<1>. USE DEF ContentionInv, Types, TypeOK, Goto, form, Contending, OrgsOf, Resolving
<1>1. /\ Alone(e)
      /\ pc[h] = "createUser" => email[order[h]] # e
      /\ UNCHANGED <<form, orgs, users, admins, order>>
  BY DEF Strike
<1>2. CASE Throw(h)
  <2>1. /\ \A s \in subs' : s \in subs \/ (pc[h] = "grant" /\ s[2] \in org[h])
        /\ pc' = [pc EXCEPT ![h] = "failLead"]
        /\ \A k \in Handlers : k # h => org'[k] = org[k]
    BY <1>2 DEF Throw
  <2>. QED BY <1>1, <2>1 DEF Alone
<1>3. CASE Die(h)
  BY <1>1, <1>3 DEF Die, Alone
<1>. QED BY <1>2, <1>3 DEF Strike

\* Every step keeps the invariant.
LEMMA ContentionNext == ContentionInv /\ [Next]_vars => ContentionInv'
<1>. SUFFICES ASSUME ContentionInv, [Next]_vars, NEW e \in Emails, e \notin contended'
              PROVE  Alone(e)'
  BY TypesNext DEF ContentionInv
<1>. USE DEF store, form, handler, history
<1>1. ASSUME e \notin contended,
             UNCHANGED <<email, orgs, users, admins, subs, handler>>
      PROVE  Alone(e)'
  BY <1>1 DEF ContentionInv, Alone, Contending, OrgsOf
<1>2. CASE UNCHANGED vars
  BY <1>1, <1>2 DEF vars
<1>3. ASSUME NEW o \in Orders, Checkout(o) PROVE Alone(e)'
  BY <1>1, <1>3 DEF Checkout, CreateLead, OpenOrder, CreatePayment, Capture
<1>4. ASSUME NEW o \in Orders, NEW h \in Handlers, Notify(o, h) PROVE Alone(e)'
  BY <1>4 DEF Notify, Goto, ContentionInv, Types, TypeOK, Alone, Contending, OrgsOf, Resolving
<1>5. ASSUME NEW h \in Handlers, Step(h) PROVE Alone(e)'
  BY <1>5, AloneHandler
<1>6. ASSUME NEW h \in Handlers, Strike(h) PROVE Alone(e)'
  BY <1>6, AloneStrike
<1>. QED BY <1>2, <1>3, <1>4, <1>5, <1>6 DEF Next

\* An address ends up with two organizations, or with subscriptions nobody can
\* administer, only when two notifications resolved it at the same time or one
\* was struck between the organization and its admin
\* (organizations.service.ts:86-105).
THEOREM ContentionCorrect == Spec => []ContentionOnly
<1>1. Init => ContentionInv
  BY TypesInit DEF Init, ContentionInv, Alone, Contending, OrgsOf, Resolving
<1>2. ContentionInv => ContentionOnly
  <2>. SUFFICES ASSUME ContentionInv, NEW e \in Emails, e \notin contended
                PROVE  Cardinality(OrgsOf(e)) <= 1 /\ \A s \in subs : s[2][1] = e => s[2] \in admins
    BY DEF ContentionOnly
  <2>1. Alone(e)
    BY DEF ContentionInv
  <2>2. \A a, b \in OrgsOf(e) : a = b
    BY <2>1 DEF Alone
  <2>3. Cardinality(OrgsOf(e)) <= 1
    BY <2>2, AtMostOne
  <2>. QED BY <2>1, <2>3 DEF Alone
<1>. QED BY <1>1, <1>2, ContentionNext, PTL DEF Spec

-----------------------------------------------------------------------------
(* Orders handled one notification at a time.                              *)

\* Every step keeps the order in which a checkout is opened.
LEMMA OpenedNext == OrderInv /\ [Next]_vars => \A o \in Orders : Opened(o)'
<1>. SUFFICES ASSUME OrderInv, [Next]_vars, NEW o \in Orders PROVE Opened(o)'
  OBVIOUS
<1>. USE DEF store, form, handler, history, OrderInv, Types, TypeOK, Opened, InFlight, Goto
<1>1. CASE UNCHANGED vars
  BY <1>1 DEF vars
<1>2. ASSUME NEW p \in Orders, Checkout(p) PROVE Opened(o)'
  BY <1>2 DEF Checkout, CreateLead, OpenOrder, CreatePayment, Capture
<1>3. ASSUME NEW p \in Orders, NEW h \in Handlers, Notify(p, h) PROVE Opened(o)'
  BY <1>3 DEF Notify
<1>4. ASSUME NEW h \in Handlers, Step(h) PROVE Opened(o)'
  <2>1. pc[h] # "idle" /\ gateway[order[h]] = "captured"
    BY <1>4 DEF Step, FindPayment, FindLead, FindOrganization, IsEmailTaken, FindTaken,
       CreateOrganization, CreateUser, GrantSubscription, SavePayment, SaveLead, FailLead, FailPayment
  <2>2. /\ gateway' = gateway /\ order' = order
        /\ \A k \in Handlers : k # h => pc'[k] = pc[k]
        /\ lead'[o] = "absent" => lead[o] = "absent"
        /\ payment'[o] = "absent" <=> payment[o] = "absent"
    BY <1>4, <2>1 DEF Step, FindPayment, FindLead, FindOrganization, IsEmailTaken, FindTaken,
       CreateOrganization, CreateUser, GrantSubscription, SavePayment, SaveLead, FailLead, FailPayment
  <2>. QED BY <2>1, <2>2
<1>5. ASSUME NEW h \in Handlers, Strike(h) PROVE Opened(o)'
  BY <1>5 DEF Strike, Throw, Die, Trying
<1>. QED BY <1>1, <1>2, <1>3, <1>4, <1>5 DEF Next

\* A step of a handler of another order keeps what holds of an order.
LEMMA UndisturbedAside ==
    ASSUME OrderInv, NEW o \in Orders, o \notin disturbed, NEW h \in Handlers, order[h] # o,
           \A k \in Handlers : k # h => pc'[k] = pc[k],
           order' = order, payment'[o] = payment[o], lead'[o] = lead[o],
           SubsOf(o)' = SubsOf(o)
    PROVE  Undisturbed(o)'
<1>1. Undisturbed(o)
  BY DEF OrderInv
<1>2. InFlight(o)' = InFlight(o) /\ h \notin InFlight(o)
  BY DEF InFlight
<1>3. \A k \in InFlight(o) : pc'[k] = pc[k]
  BY <1>2 DEF InFlight
<1>. QED BY <1>1, <1>2, <1>3 DEF Undisturbed, Stands, Resting

\* A step of the one handler of an order keeps what holds of the order, if it
\* leaves the rows as they are found at its next stage.
LEMMA UndisturbedSole ==
    ASSUME OrderInv, NEW h \in Handlers, NEW stage,
           pc[h] # "idle", order[h] \notin disturbed,
           pc' = [pc EXCEPT ![h] = stage], order' = order,
           \A s, t \in SubsOf(order[h])' : s = t,
           Stands(order[h], stage)'
    PROVE  Undisturbed(order[h])'
<1>. DEFINE o == order[h]
<1>1. Undisturbed(o) /\ h \in InFlight(o) /\ o = order'[h]
  BY DEF OrderInv, Types, TypeOK, InFlight
<1>2. \A k \in InFlight(o)' : k = h /\ pc'[k] = stage
  BY <1>1 DEF Undisturbed, InFlight, OrderInv, Types, TypeOK
<1>3. InFlight(o)' = {} => stage = "idle"
  BY <1>1 DEF InFlight, OrderInv, Types, TypeOK
<1>. QED BY <1>1, <1>2, <1>3 DEF Undisturbed, Stands

\* A grant adds one row at most, to the order of its handler.
LEMMA GrantRows ==
    ASSUME Types, NEW h \in Handlers, NEW g,
           subs' = subs \union {<<order[h], g, Cardinality(SubsOf(order[h])) + 1>>}
    PROVE  /\ \A p \in Orders : p # order[h] => SubsOf(p)' = SubsOf(p)
           /\ order[h] \in Orders /\ order' = order =>
                 /\ \E s : SubsOf(order[h])' = SubsOf(order[h]) \union {s}
                 /\ \E n \in {0, 1} :
                       Cardinality(SubsOf(order[h])') = Cardinality(SubsOf(order[h])) + n
<1>. DEFINE s == <<order[h], g, Cardinality(SubsOf(order[h])) + 1>>
<1>1. s[1] = order[h] /\ subs' = subs \union {s}
  OBVIOUS
<1>. HIDE DEF s
<1>2. \A p \in Orders : p # order[h] => SubsOf(p)' = SubsOf(p)
  BY <1>1 DEF SubsOf
<1>3. ASSUME order[h] \in Orders, order' = order
      PROVE  SubsOf(order[h])' = SubsOf(order[h]) \union {s}
  BY <1>1, <1>3 DEF SubsOf
<1>4. ASSUME order[h] \in Orders
      PROVE  \E n \in {0, 1} : Cardinality(SubsOf(order[h]) \union {s})
                                   = Cardinality(SubsOf(order[h])) + n
  <2>. DEFINE S == SubsOf(order[h])
  <2>1. IsFiniteSet(S) /\ Cardinality(S) \in Nat
    BY <1>4, NumbersAreNumbers
  <2>. HIDE DEF S
  <2>2. s \in S => S \union {s} = S
    OBVIOUS
  <2>3. s \notin S => Cardinality(S \union {s}) = Cardinality(S) + 1
    BY <2>1, FS_AddElement
  <2>4. \E n \in {0, 1} : Cardinality(S \union {s}) = Cardinality(S) + n
    BY <2>1, <2>2, <2>3
  <2>. QED BY <2>4 DEF S
<1>. QED BY <1>2, <1>3, <1>4

\* A step of a handler keeps what holds of an undisturbed order.
LEMMA UndisturbedHandler ==
    ASSUME OrderInv, NEW h \in Handlers, Step(h), NEW o \in Orders, o \notin disturbed
    PROVE  Undisturbed(o)'
<1>. USE DEF Goto, store, form, history
<1>1. /\ pc[h] # "idle" /\ order' = order
      /\ \A k \in Handlers : k # h => pc'[k] = pc[k]
  BY DEF OrderInv, Types, TypeOK, Step, FindPayment, FindLead, FindOrganization, IsEmailTaken, FindTaken,
     CreateOrganization, CreateUser, GrantSubscription, SavePayment, SaveLead, FailLead, FailPayment
<1>2. CASE order[h] # o
  <2>1. payment'[o] = payment[o] /\ lead'[o] = lead[o]
    BY <1>2 DEF OrderInv, Types, TypeOK, Step, FindPayment, FindLead, FindOrganization, IsEmailTaken,
       FindTaken,
       CreateOrganization, CreateUser, GrantSubscription, SavePayment, SaveLead, FailLead, FailPayment
  <2>2. CASE subs' = subs
    BY <1>1, <1>2, <2>1, <2>2, UndisturbedAside DEF SubsOf
  <2>3. CASE GrantSubscription(h)
    <3>1. PICK g : subs' = subs \union {<<order[h], g, Cardinality(SubsOf(order[h])) + 1>>}
      BY <2>3 DEF GrantSubscription
    <3>2. SubsOf(o)' = SubsOf(o)
      BY <1>2, <3>1, GrantRows DEF OrderInv
    <3>. QED BY <1>1, <1>2, <2>1, <3>2, UndisturbedAside
  <2>. QED BY <2>2, <2>3 DEF Step, FindPayment, FindLead, FindOrganization, IsEmailTaken, FindTaken,
       CreateOrganization, CreateUser, SavePayment, SaveLead, FailLead, FailPayment
<1>3. CASE order[h] = o
  <2>1. Undisturbed(o) /\ Stands(o, pc[h]) /\ Opened(o) /\ gateway[o] = "captured"
    BY <1>1, <1>3 DEF OrderInv, Undisturbed, Opened, InFlight
  <2>2. /\ payment \in [Orders -> {"absent", "CREATED", "TXN_SUCCESS", "FAILED"}]
        /\ lead \in [Orders -> {"absent", "initiated", "success", "failed"}]
        /\ pc \in [Handlers -> Stages] /\ order \in [Handlers -> Orders]
    BY DEF OrderInv, Types, TypeOK
  <2>0. PICK stage : pc' = [pc EXCEPT ![h] = stage]
    BY DEF Step, FindPayment, FindLead, FindOrganization, IsEmailTaken, FindTaken,
       CreateOrganization, CreateUser, GrantSubscription, SavePayment, SaveLead, FailLead, FailPayment
  <2>. pc'[h] = stage
    BY <2>0, <2>2
  <2>3. SUFFICES (\A s, t \in SubsOf(o)' : s = t) /\ Stands(o, stage)'
    BY <1>1, <1>3, <2>0, UndisturbedSole
  <2>. USE <1>3, <2>1, <2>2 DEF Undisturbed, Opened, Stands, Resting, Resolving, Catching
  <2>4. CASE FindPayment(h)
    BY <2>4 DEF FindPayment, SubsOf
  <2>5. CASE FindLead(h)
    BY <2>5 DEF FindLead, SubsOf
  <2>6. CASE FindOrganization(h)
    BY <2>6 DEF FindOrganization, SubsOf
  <2>7. CASE IsEmailTaken(h)
    BY <2>7 DEF IsEmailTaken, SubsOf
  <2>8. CASE FindTaken(h)
    BY <2>8 DEF FindTaken, SubsOf
  <2>9. CASE CreateOrganization(h)
    BY <2>9 DEF CreateOrganization, SubsOf
  <2>10. CASE CreateUser(h)
    BY <2>10 DEF CreateUser, SubsOf
  <2>11. CASE GrantSubscription(h)
    <3>1. PICK g : subs' = subs \union {<<order[h], g, Cardinality(SubsOf(order[h])) + 1>>}
      BY <2>11 DEF GrantSubscription
    <3>2. PICK s : SubsOf(o)' = SubsOf(o) \union {s}
      BY <1>1, <3>1, GrantRows DEF OrderInv
    <3>3. SubsOf(o)' = {s}
      BY <3>2, <2>11 DEF GrantSubscription
    <3>. QED BY <2>11, <3>3 DEF GrantSubscription
  <2>12. CASE SavePayment(h)
    BY <2>12 DEF SavePayment, SubsOf
  <2>13. CASE SaveLead(h)
    BY <2>13 DEF SaveLead, SubsOf
  <2>14. CASE FailLead(h)
    BY <2>14 DEF FailLead, SubsOf
  <2>15. CASE FailPayment(h)
    BY <2>15 DEF FailPayment, SubsOf
  <2>. QED BY <2>4, <2>5, <2>6, <2>7, <2>8, <2>9, <2>10, <2>11, <2>12, <2>13, <2>14, <2>15 DEF Step
<1>. QED BY <1>2, <1>3

\* A fault keeps what holds of an undisturbed order: one that strikes an order
\* with a grant disturbs it.
LEMMA UndisturbedStrike ==
    ASSUME OrderInv, NEW h \in Handlers, Strike(h), NEW o \in Orders, o \notin disturbed'
    PROVE  Undisturbed(o)'
<1>. USE DEF form, Goto
<1>1. /\ o \notin disturbed /\ UNCHANGED <<payment, lead, gateway, order>>
      /\ order[h] = o => SubsOf(o)' = {}
  BY DEF Strike, SubsOf
<1>2. PICK stage \in {"idle", "failLead"} :
          /\ pc' = [pc EXCEPT ![h] = stage] /\ pc[h] # "idle"
          /\ stage = "failLead" => pc[h] \in Trying
  BY DEF Strike, Throw, Die, Trying
<1>3. \A k \in Handlers : k # h => pc'[k] = pc[k]
  BY <1>2 DEF OrderInv, Types, TypeOK
<1>4. subs \subseteq subs' /\ \A s \in subs' : s \in subs \/ s[1] = order[h]
  BY DEF Strike, Throw, Die
<1>5. CASE order[h] # o
  <2>1. SubsOf(o)' = SubsOf(o)
    BY <1>4, <1>5 DEF SubsOf
  <2>. QED BY <1>1, <1>3, <1>5, <2>1, UndisturbedAside
<1>6. CASE order[h] = o
  <2>1. SubsOf(o) = {}
    BY <1>1, <1>4, <1>6 DEF SubsOf
  <2>2. Stands(o, pc[h]) /\ Opened(o) /\ gateway[o] = "captured"
    BY <1>1, <1>2, <1>6 DEF OrderInv, Undisturbed, Opened, InFlight
  <2>3. Stands(o, stage)'
    BY <1>1, <1>2, <1>6, <2>1, <2>2 DEF Stands, Resting, Trying, Catching, Resolving, OrderInv, Types, TypeOK, Stages
  <2>. QED BY <1>1, <1>2, <1>6, <2>3, UndisturbedSole
<1>. QED BY <1>5, <1>6

\* A second notification disturbs the order; the first finds it at rest.
LEMMA UndisturbedNotify ==
    ASSUME OrderInv, NEW p \in Orders, NEW h \in Handlers, Notify(p, h),
           NEW o \in Orders, o \notin disturbed'
    PROVE  Undisturbed(o)'
<1>. USE DEF Notify, Goto, store, form, OrderInv, Types, TypeOK
<1>1. o \notin disturbed /\ Undisturbed(o) /\ SubsOf(o)' = SubsOf(o)
  BY DEF SubsOf
<1>2. CASE p # o
  <2>1. InFlight(o)' = InFlight(o) /\ \A k \in InFlight(o) : pc'[k] = pc[k]
    BY <1>2 DEF InFlight
  <2>. QED BY <1>1, <2>1 DEF Undisturbed, Stands, Resting
<1>3. CASE p = o
  <2>1. InFlight(o) = {}
    BY <1>3
  <2>2. \A k \in InFlight(o)' : k = h /\ pc'[k] = "findPayment"
    BY <1>3, <2>1 DEF InFlight
  <2>3. h \in InFlight(o)'
    BY <1>3 DEF InFlight
  <2>4. Resting(o)'
    BY <1>1, <2>1 DEF Undisturbed, Resting
  <2>. QED BY <1>1, <2>2, <2>3, <2>4 DEF Undisturbed, Stands, Resolving, Catching
<1>. QED BY <1>2, <1>3

\* Every step keeps the invariant.
LEMMA OrderNext == OrderInv /\ [Next]_vars => OrderInv'
<1>. SUFFICES ASSUME OrderInv, [Next]_vars, NEW o \in Orders, o \notin disturbed'
              PROVE  Undisturbed(o)'
  BY TypesNext, OpenedNext DEF OrderInv
<1>. USE DEF store, form, handler, history
<1>1. CASE UNCHANGED vars
  BY <1>1 DEF vars, OrderInv, Undisturbed, Stands, Resting, InFlight, SubsOf
<1>2. ASSUME NEW p \in Orders, Checkout(p) PROVE Undisturbed(o)'
  <2>1. o \notin disturbed /\ pc' = pc /\ SubsOf(o)' = SubsOf(o) /\ InFlight(o)' = InFlight(o)
    BY <1>2 DEF Checkout, CreateLead, OpenOrder, CreatePayment, Capture, SubsOf, InFlight
  <2>2. CASE lead'[o] = lead[o] /\ payment'[o] = payment[o]
    BY <2>1, <2>2 DEF OrderInv, Undisturbed, Stands, Resting
  <2>3. CASE InFlight(o) = {} /\ payment[o] = "absent" /\ payment'[o] \in {"absent", "CREATED"}
    BY <2>1, <2>3 DEF OrderInv, Undisturbed, Resting
  <2>. USE DEF OrderInv, Types, TypeOK
  <2>4. CASE p # o
    BY <1>2, <2>2, <2>4 DEF Checkout, CreateLead, OpenOrder, CreatePayment, Capture
  <2>5. CASE p = o /\ (OpenOrder(p) \/ Capture(p))
    BY <2>2, <2>5 DEF OpenOrder, Capture
  <2>6. CASE p = o /\ (CreateLead(p) \/ CreatePayment(p))
    <3>1. InFlight(o) = {} /\ payment[o] = "absent"
      BY <2>6 DEF CreateLead, CreatePayment, Opened
    <3>. QED BY <2>3, <2>6, <3>1 DEF CreateLead, CreatePayment
  <2>. QED BY <1>2, <2>4, <2>5, <2>6 DEF Checkout
<1>3. ASSUME NEW p \in Orders, NEW h \in Handlers, Notify(p, h) PROVE Undisturbed(o)'
  BY <1>3, UndisturbedNotify
<1>4. ASSUME NEW h \in Handlers, Step(h) PROVE Undisturbed(o)'
  <2>1. o \notin disturbed
    BY <1>4 DEF Step, FindPayment, FindLead, FindOrganization, IsEmailTaken, FindTaken,
       CreateOrganization, CreateUser, GrantSubscription, SavePayment, SaveLead, FailLead, FailPayment
  <2>. QED BY <1>4, <2>1, UndisturbedHandler
<1>5. ASSUME NEW h \in Handlers, Strike(h) PROVE Undisturbed(o)'
  BY <1>5, UndisturbedStrike
<1>. QED BY <1>1, <1>2, <1>3, <1>4, <1>5 DEF Next

-----------------------------------------------------------------------------
(* The order book.                                                         *)

\* A step that leaves the grants, the outcomes and the disturbed orders alone is
\* a stutter of the book.
LEMMA BookSame ==
    ASSUME \A o \in Orders : SubsOf(o)' = SubsOf(o) /\ Outcome(o)' = Outcome(o),
           disturbed' = disturbed
    PROVE  UNCHANGED Book!vars
BY DEF Book!vars

\* A step that changes the row of one order is a step of the book, if the order
\* is disturbed from then on or was granted, paid or failed in turn.
LEMMA BookRow ==
    ASSUME NEW o \in Orders,
           \A p \in Orders : p # o => SubsOf(p)' = SubsOf(p) /\ Outcome(p)' = Outcome(p),
           \E n \in {0, 1} : Cardinality(SubsOf(o)') = Cardinality(SubsOf(o)) + n,
           \/ disturbed' = disturbed \union {o}
           \/ /\ disturbed' = disturbed /\ Outcome(o) = "open"
              /\ \/ /\ Outcome(o)' = "open"
                    /\ Cardinality(SubsOf(o)) = 0 /\ Cardinality(SubsOf(o)') = 1
                 \/ /\ SubsOf(o)' = SubsOf(o)
                    /\ \/ Outcome(o)' = "paid" /\ Cardinality(SubsOf(o)) = 1
                       \/ Outcome(o)' = "failed" /\ Cardinality(SubsOf(o)) = 0
    PROVE  Book!Next
<1>. DEFINE grants == [p \in Orders |-> Cardinality(SubsOf(p))]
            outcome == [p \in Orders |-> Outcome(p)]
<1>1. /\ grants' = [grants EXCEPT ![o] = Cardinality(SubsOf(o)')]
      /\ outcome' = [outcome EXCEPT ![o] = Outcome(o)']
      /\ grants[o] = Cardinality(SubsOf(o)) /\ outcome[o] = Outcome(o)
  OBVIOUS
<1>2. Outcome(o)' \in {"open", "paid", "failed"}
  BY DEF Outcome
<1>3. grants \in [Orders -> {grants[p] : p \in Orders}] /\ outcome \in [Orders -> {outcome[p] : p \in Orders}]
  OBVIOUS
<1>. HIDE DEF grants, outcome
<1>4. CASE disturbed' = disturbed \union {o}
  <2>1. Book!Disturb(o)
    BY <1>1, <1>2, <1>4 DEF Book!Disturb, grants, outcome
  <2>. QED BY <2>1 DEF Book!Next
<1>5. CASE /\ disturbed' = disturbed /\ Outcome(o) = "open" /\ Outcome(o)' = "open"
           /\ Cardinality(SubsOf(o)) = 0 /\ Cardinality(SubsOf(o)') = 1
  <2>1. outcome' = outcome
    BY <1>1, <1>3, <1>5
  <2>2. Book!Grant(o)
    BY <1>1, <1>5, <2>1 DEF Book!Grant, grants, outcome
  <2>. QED BY <2>2 DEF Book!Next
<1>6. CASE /\ disturbed' = disturbed /\ Outcome(o) = "open" /\ SubsOf(o)' = SubsOf(o)
           /\ Outcome(o)' = "paid" /\ Cardinality(SubsOf(o)) = 1
  <2>1. grants' = grants
    BY <1>1, <1>3, <1>6
  <2>2. Book!Pay(o)
    BY <1>1, <1>6, <2>1 DEF Book!Pay, grants, outcome
  <2>. QED BY <2>2 DEF Book!Next
<1>7. CASE /\ disturbed' = disturbed /\ Outcome(o) = "open" /\ SubsOf(o)' = SubsOf(o)
           /\ Outcome(o)' = "failed" /\ Cardinality(SubsOf(o)) = 0
  <2>1. grants' = grants
    BY <1>1, <1>3, <1>7
  <2>2. Book!Fail(o)
    BY <1>1, <1>7, <2>1 DEF Book!Fail, grants, outcome
  <2>. QED BY <2>2 DEF Book!Next
<1>. QED BY <1>4, <1>5, <1>6, <1>7

\* A step of a handler implements a step of the book or a stutter.
LEMMA BookHandler ==
    ASSUME OrderInv, NEW h \in Handlers, Step(h)
    PROVE  [Book!Next]_(Book!vars)
<1>. USE DEF store, form, history
<1>1. PICK o \in Orders : o = order[h]
  BY DEF OrderInv, Types, TypeOK
<1>2. o \in disturbed \/ (Stands(o, pc[h]) /\ \A s, t \in SubsOf(o) : s = t)
  <2>1. h \in InFlight(o)
    BY <1>1 DEF InFlight, Step, FindPayment, FindLead, FindOrganization, IsEmailTaken, FindTaken,
       CreateOrganization, CreateUser, GrantSubscription, SavePayment, SaveLead, FailLead, FailPayment
  <2>2. o \notin disturbed => Undisturbed(o)
    BY DEF OrderInv
  <2>. QED BY <2>1, <2>2 DEF Undisturbed
<1>3. Cardinality(SubsOf(o)) \in Nat
  BY NumbersAreNumbers DEF OrderInv
<1>4. o \in disturbed => disturbed = disturbed \union {o}
  OBVIOUS
<1>5. CASE subs' = subs /\ payment' = payment /\ disturbed' = disturbed
  BY <1>5, BookSame DEF SubsOf, Outcome
<1>6. CASE GrantSubscription(h)
  <2>1. /\ pc[h] = "grant" /\ payment' = payment /\ order' = order /\ disturbed' = disturbed
        /\ \E g : subs' = subs \union {<<order[h], g, Cardinality(SubsOf(order[h])) + 1>>}
    BY <1>6 DEF GrantSubscription
  <2>2. /\ \A p \in Orders : p # o => SubsOf(p)' = SubsOf(p)
        /\ \E s : SubsOf(o)' = SubsOf(o) \union {s}
        /\ \E n \in {0, 1} : Cardinality(SubsOf(o)') = Cardinality(SubsOf(o)) + n
    BY <1>1, <2>1, GrantRows DEF OrderInv
  <2>3. \A p \in Orders : Outcome(p)' = Outcome(p)
    BY <2>1 DEF Outcome
  <2>4. CASE o \in disturbed
    BY <1>4, <2>1, <2>2, <2>3, <2>4, BookRow
  <2>5. CASE o \notin disturbed
    <3>1. SubsOf(o) = {} /\ Outcome(o) = "open"
      BY <1>2, <2>1, <2>5 DEF Stands, Outcome
    <3>2. \E s : SubsOf(o)' = {s}
      BY <2>2, <3>1
    <3>3. Cardinality(SubsOf(o)) = 0 /\ Cardinality(SubsOf(o)') = 1
      BY <3>1, <3>2, FS_EmptySet, FS_Singleton
    <3>. QED BY <2>1, <2>2, <2>3, <3>1, <3>3, BookRow
  <2>. QED BY <2>4, <2>5
<1>7. CASE SavePayment(h) \/ FailPayment(h)
  <2>1. /\ subs' = subs /\ disturbed' = disturbed
        /\ \A p \in Orders : p # o => payment'[p] = payment[p]
        /\ SavePayment(h) => pc[h] = "savePayment" /\ payment'[o] = "TXN_SUCCESS"
        /\ FailPayment(h) => pc[h] = "failPayment" /\ payment'[o] = "FAILED"
    BY <1>1, <1>7 DEF SavePayment, FailPayment, OrderInv, Types, TypeOK
  <2>2. /\ \A p \in Orders : SubsOf(p)' = SubsOf(p)
        /\ \A p \in Orders : p # o => Outcome(p)' = Outcome(p)
        /\ Outcome(o)' = IF payment'[o] = "TXN_SUCCESS" THEN "paid"
                         ELSE IF payment'[o] = "FAILED" THEN "failed" ELSE "open"
    BY <2>1 DEF SubsOf, Outcome
  <2>3. \E n \in {0, 1} : Cardinality(SubsOf(o)') = Cardinality(SubsOf(o)) + n
    BY <1>3, <2>2
  <2>4. CASE o \in disturbed
    BY <1>4, <2>1, <2>2, <2>3, <2>4, BookRow
  <2>5. CASE o \notin disturbed /\ SavePayment(h)
    <3>1. Outcome(o) = "open" /\ SubsOf(o) # {} /\ \A s, t \in SubsOf(o) : s = t
      BY <1>2, <2>1, <2>5 DEF Stands, Outcome
    <3>2. Cardinality(SubsOf(o)) = 1 /\ Outcome(o)' = "paid"
      BY <2>1, <2>2, <2>5, <3>1, AtMostOne
    <3>. QED BY <2>1, <2>2, <2>3, <3>1, <3>2, BookRow
  <2>6. CASE o \notin disturbed /\ FailPayment(h)
    <3>1. Outcome(o) = "open" /\ SubsOf(o) = {}
      BY <1>2, <2>1, <2>6 DEF Stands, Catching, Outcome
    <3>2. Cardinality(SubsOf(o)) = 0 /\ Outcome(o)' = "failed"
      BY <2>1, <2>2, <2>6, <3>1, FS_EmptySet
    <3>. QED BY <2>1, <2>2, <2>3, <3>1, <3>2, BookRow
  <2>. QED BY <1>7, <2>4, <2>5, <2>6
<1>. QED BY <1>5, <1>6, <1>7 DEF Step, FindPayment, FindLead, FindOrganization, IsEmailTaken, FindTaken,
     CreateOrganization, CreateUser, SaveLead, FailLead

\* Every step implements a step of the book or a stutter: the checkout and an
\* undisturbed notification stutter, a fault after a grant disturbs its order.
LEMMA BookNext == OrderInv /\ [Next]_vars => [Book!Next]_(Book!vars)
<1>. SUFFICES ASSUME OrderInv, [Next]_vars PROVE [Book!Next]_(Book!vars)
  OBVIOUS
<1>. USE DEF store, form, handler, history
<1>1. CASE UNCHANGED vars
  BY <1>1, BookSame DEF vars, SubsOf, Outcome
<1>2. ASSUME NEW p \in Orders, Checkout(p) PROVE [Book!Next]_(Book!vars)
  <2>1. subs' = subs /\ disturbed' = disturbed
    BY <1>2 DEF Checkout, CreateLead, OpenOrder, CreatePayment, Capture
  <2>2. CASE payment' = payment
    BY <2>1, <2>2, BookSame DEF SubsOf, Outcome
  <2>3. CASE payment[p] = "absent" /\ payment' = [payment EXCEPT ![p] = "CREATED"]
    <3>0. DOMAIN payment = Orders
      BY DEF OrderInv, Types, TypeOK
    <3>1. \A o \in Orders : \/ payment'[o] = payment[o]
                            \/ payment[o] = "absent" /\ payment'[o] = "CREATED"
      BY <2>3, <3>0
    <3>2. \A o \in Orders : Outcome(o)' = Outcome(o)
      BY <3>1 DEF Outcome
    <3>. QED BY <2>1, <3>2, BookSame DEF SubsOf
  <2>. QED BY <1>2, <2>2, <2>3 DEF Checkout, CreateLead, OpenOrder, CreatePayment, Capture
<1>3. ASSUME NEW p \in Orders, NEW h \in Handlers, Notify(p, h) PROVE [Book!Next]_(Book!vars)
  <2>1. /\ \A o \in Orders : SubsOf(o)' = SubsOf(o) /\ Outcome(o)' = Outcome(o)
        /\ disturbed' = disturbed \/ disturbed' = disturbed \union {p}
    BY <1>3 DEF Notify, SubsOf, Outcome
  <2>2. Cardinality(SubsOf(p)') = Cardinality(SubsOf(p)) + 0
    BY <2>1, NumbersAreNumbers DEF OrderInv
  <2>. QED BY <2>1, <2>2, BookSame, BookRow
<1>4. ASSUME NEW h \in Handlers, Step(h) PROVE [Book!Next]_(Book!vars)
  BY <1>4, BookHandler
<1>5. ASSUME NEW h \in Handlers, Strike(h) PROVE [Book!Next]_(Book!vars)
  <2>1. PICK o \in Orders : o = order[h]
    BY DEF OrderInv, Types, TypeOK
  <2>2. /\ \A p \in Orders : Outcome(p)' = Outcome(p)
        /\ order' = order
        /\ disturbed' = IF SubsOf(o)' # {} THEN disturbed \union {o} ELSE disturbed
    BY <1>5, <2>1 DEF Strike, Outcome, SubsOf
  <2>3. CASE subs' = subs
    <3>1. /\ \A p \in Orders : SubsOf(p)' = SubsOf(p)
          /\ Cardinality(SubsOf(o)') = Cardinality(SubsOf(o)) + 0
      BY <2>3, NumbersAreNumbers DEF SubsOf, OrderInv
    <3>. QED BY <2>2, <3>1, BookSame, BookRow
  <2>4. CASE \E g : subs' = subs \union {<<order[h], g, Cardinality(SubsOf(order[h])) + 1>>}
    <3>1. /\ \A p \in Orders : p # o => SubsOf(p)' = SubsOf(p)
          /\ \E s : SubsOf(o)' = SubsOf(o) \union {s}
          /\ \E n \in {0, 1} : Cardinality(SubsOf(o)') = Cardinality(SubsOf(o)) + n
      BY <2>1, <2>2, <2>4, GrantRows DEF OrderInv
    <3>2. disturbed' = disturbed \union {o}
      BY <2>2, <3>1
    <3>. QED BY <2>2, <3>1, <3>2, BookRow
  <2>. QED BY <1>5, <2>3, <2>4 DEF Strike, Throw, Die
<1>. QED BY <1>1, <1>2, <1>3, <1>4, <1>5 DEF Next

\* The handlers implement the order book: an order whose notifications are
\* handled one after the other and unharmed, however often the gateway repeats
\* them, is settled once, with one subscription if it is paid and none if it
\* failed (payment.service.ts:51-67 and 138-156).
THEOREM OrderBookCorrect == Spec => ImplementsOrderBook
<1>1. Init => OrderInv
  BY TypesInit DEF Init, OrderInv, Opened, Undisturbed, Resting, InFlight, SubsOf
<1>2. Init => Book!Init
  <2>. SUFFICES ASSUME Init PROVE Book!Init
    OBVIOUS
  <2>1. \A o \in Orders : SubsOf(o) = {} /\ Outcome(o) = "open"
    BY DEF Init, SubsOf, Outcome
  <2>. QED BY <2>1, FS_EmptySet DEF Book!Init, Init
<1>. QED BY <1>1, <1>2, OrderNext, BookNext, PTL DEF Spec, ImplementsOrderBook, Book!Spec

=============================================================================
