-------------------------- MODULE Services_proofs ---------------------------
(***************************************************************************)
(* Proofs about accounts, names and strategies in Services, for any        *)
(* finite set of requests, users, projects and e-mails.                    *)
(***************************************************************************)
EXTENDS Services, FiniteSetTheorems, TLAPS

\* A step of the whole is a step of each part or leaves the part alone.
LEMMA StepOfParts ==
  [Next]_vars =>
    /\ [ConnNext]_connVars /\ [RateNext]_rateVars
    /\ [AccountNext]_accountVars /\ [EditNext]_editVars /\ [PathNext]_pathVars
BY DEF Next, vars, Sources, Limiter, People, Edits, Search

\* A set with more than one element has one besides any given one.
LEMMA Another == \A S, u : Cardinality(S) > 1 => \E w \in S : w # u
<1> SUFFICES ASSUME NEW S, NEW u, Cardinality(S) > 1
             PROVE  \E w \in S : w # u
  OBVIOUS
<1>1. CASE S = {}
  BY <1>1, FS_EmptySet
<1>2. CASE S = {u}
  <2>1. Cardinality({u}) = 1
    BY FS_Singleton
  <2>. QED
    BY <1>2, <2>1
<1>. QED
  BY <1>1, <1>2

-----------------------------------------------------------------------------
(* Accounts: the slug of a new organisation                                *)

\* Of the numbers that are not in a set there is a least one.
LEMMA LeastOutside ==
  ASSUME NEW S \in SUBSET Nat, IsFiniteSet(S)
  PROVE  \E n \in Nat : n \notin S /\ \A k \in 0..(n - 1) : k \in S
<1> DEFINE T == {0..n : n \in Nat \ S}
<1>1. \A n \in Nat : 0..n \in FiniteSubsetsOf(Nat)
  BY FS_Interval DEF FiniteSubsetsOf
<1>2. Nat \ S # {}
  <2>1. Cardinality(S) \in Nat
    BY FS_CardinalityType
  <2>2. /\ IsFiniteSet(0..Cardinality(S))
        /\ Cardinality(0..Cardinality(S)) = Cardinality(S) + 1
    BY <2>1, FS_Interval
  <2>3. ~(0..Cardinality(S) \subseteq S)
    BY <2>1, <2>2, FS_Subset
  <2>. QED
    BY <2>1, <2>3
<1>3. T \subseteq FiniteSubsetsOf(Nat) /\ T # {}
  BY <1>1, <1>2
<1>4. PICK t \in T : \A y \in T : <<y, t>> \notin StrictSubsetOrdering(Nat)
  BY <1>3, FS_StrictSubsetOrderingWellFounded, WFMin
<1>5. PICK n \in Nat \ S : t = 0..n
  BY <1>4
<1>6. ASSUME NEW k \in 0..(n - 1), k \notin S PROVE FALSE
  <2>1. k \in Nat \ S /\ 0..k \in T
    BY <1>6
  <2>2. 0..k \subseteq 0..n /\ n \in 0..n /\ n \notin 0..k
    BY <2>1
  <2>3. <<0..k, 0..n>> \in StrictSubsetOrdering(Nat)
    BY <2>2 DEF StrictSubsetOrdering
  <2>. QED
    BY <1>4, <1>5, <2>1, <2>3
<1>. QED
  BY <1>5, <1>6

\* Counting up from the base finds a free slug after at most as many steps as
\* there are organisations.
LEMMA FreeSlugIsFree ==
  ASSUME orgs \in SUBSET Nat, IsFiniteSet(orgs)
  PROVE  FreeSlug \in 0..Cardinality(orgs) /\ FreeSlug \notin orgs
<1>1. PICK n \in Nat : n \notin orgs /\ \A k \in 0..(n - 1) : k \in orgs
  BY LeastOutside
<1>2. Cardinality(orgs) \in Nat
  BY FS_CardinalityType
<1>3. n <= Cardinality(orgs)
  <2>1. /\ 0..(n - 1) \in SUBSET orgs
        /\ Cardinality(0..(n - 1)) = n
    BY <1>1, FS_Interval
  <2>. QED
    BY <2>1, FS_Subset
<1>. QED
  BY <1>1, <1>2, <1>3 DEF FreeSlug

-----------------------------------------------------------------------------
(* Accounts: types                                                         *)

Registered(x) == acc[x] = "done" /\ plan[x].target = NoUser

\* Users belong to founders or to registrations that were committed, and every
\* organisation but the first came with one.
UserInv ==
  /\ \A u \in Founders : user[u] # NoRow /\ user[u].email = FirstEmail[u]
  /\ \A x \in AccountRequests : user[x] # NoRow <=> Registered(x)
  /\ \A x \in AccountRequests : Registered(x) =>
       user[x].email = plan[x].row.email /\ user[x].org = plan[x].row.org
  /\ \A u \in Users : user[u] # NoRow => user[u].role \in Roles
  /\ \A org \in orgs : org # 0 =>
       \E x \in AccountRequests : Registered(x) /\ plan[x].row.org = org
  /\ \A x \in AccountRequests : Registered(x) => plan[x].row.org \in orgs
  /\ 0 \in orgs

\* What a request is about to write: a user of its own, or another role of a
\* user that is there, who stays in his organisation.
PlanInv ==
  \A r \in AccountRequests :
    /\ acc[r] \in {"registering", "conflict"} => plan[r].target = NoUser
    /\ acc[r] = "registering" => plan[r].row.role \in Roles
    /\ acc[r] = "registering" /\ plan[r].row.org \notin orgs => Founding(r)
    /\ acc[r] = "changing" => plan[r].target # NoUser
    /\ acc[r] \in {"changing", "done"} /\ plan[r].target # NoUser =>
         /\ plan[r].target \in Present
         /\ user[plan[r].target].org = plan[r].row.org
         /\ {plan[r].row.role, plan[r].was} \subseteq Roles
         /\ plan[r].row.org \in orgs

AccInv == AccountTypeOK /\ UserInv /\ PlanInv

\* A set has one element more, at most, when one is added.
LEMMA OneMore ==
  ASSUME NEW S, IsFiniteSet(S), NEW x
  PROVE  /\ IsFiniteSet(S \cup {x}) /\ Cardinality(S \cup {x}) \in Nat
         /\ Cardinality(S \cup {x}) <= Cardinality(S) + 1
<1>1. /\ IsFiniteSet(S \cup {x})
      /\ Cardinality(S \cup {x})
           = IF x \in S THEN Cardinality(S) ELSE Cardinality(S) + 1
  BY FS_AddElement
<1>2. Cardinality(S) \in Nat /\ Cardinality(S \cup {x}) \in Nat
  BY <1>1, FS_CardinalityType
<1>. QED
  BY <1>1, <1>2

\* There is an organisation more than requests that founded one, at most.
LEMMA FewOrganisations ==
  ASSUME AccInv, NEW r \in AccountRequests, ~Registered(r)
  PROVE  /\ orgs \in SUBSET Nat /\ IsFiniteSet(orgs)
         /\ Cardinality(orgs) <= Cardinality(AccountRequests)
         /\ Cardinality(AccountRequests) \in Nat \ {0}
<1> DEFINE S == {x \in AccountRequests : Registered(x)}
           T == {plan[x].row.org : x \in S}
           f == [x \in S |-> plan[x].row.org]
<1>1. /\ IsFiniteSet(AccountRequests) /\ Cardinality(AccountRequests) \in Nat
      /\ IsFiniteSet(AccountRequests \ {r})
      /\ Cardinality(AccountRequests \ {r}) = Cardinality(AccountRequests) - 1
  BY FoundersAssumption, FS_CardinalityType, FS_RemoveElement
<1>2. Cardinality(AccountRequests \ {r}) \in Nat
  BY <1>1, FS_CardinalityType
<1>3. /\ IsFiniteSet(S) /\ Cardinality(S) \in Nat
      /\ Cardinality(S) <= Cardinality(AccountRequests) - 1
  <2>1. S \in SUBSET (AccountRequests \ {r})
    OBVIOUS
  <2>. QED
    BY <1>1, <2>1, FS_Subset, FS_CardinalityType
<1>4. f \in Surjection(S, T)
  BY DEF Surjection
<1>5. /\ IsFiniteSet(T) /\ Cardinality(T) \in Nat
      /\ Cardinality(T) <= Cardinality(S)
  BY <1>3, <1>4, FS_Surjection, FS_CardinalityType
<1>6. /\ IsFiniteSet(T \cup {0}) /\ Cardinality(T \cup {0}) \in Nat
      /\ Cardinality(T \cup {0}) <= Cardinality(T) + 1
  BY ONLY <1>5, OneMore
<1>7. orgs \in SUBSET (T \cup {0})
  BY DEF AccInv, UserInv
<1>8. IsFiniteSet(orgs) /\ Cardinality(orgs) \in Nat
      /\ Cardinality(orgs) <= Cardinality(T \cup {0})
  BY <1>6, <1>7, FS_Subset, FS_CardinalityType
<1>9. orgs \in SUBSET Nat
  BY <1>1 DEF AccInv, AccountTypeOK
<1>. QED
  BY <1>1, <1>2, <1>3, <1>5, <1>6, <1>8, <1>9

\* Before the first request there are the founders.
LEMMA InitAcc == AccountInit => AccInv
<1>1. NoRow.role = NoRole /\ NoRole \notin Roles
  BY FoundersAssumption DEF NoRow
<1>2. Cardinality(AccountRequests) \in Nat
  BY FoundersAssumption, FS_CardinalityType
<1> SUFFICES ASSUME AccountInit PROVE AccInv
  OBVIOUS
<1>3. AccountTypeOK
  BY <1>2, FoundersAssumption DEF AccountInit, AccountTypeOK, Users, AccountRows,
     NoRow, NoPlan
<1>4. UserInv
  BY <1>1, FoundersAssumption DEF AccountInit, UserInv, Registered, Users, NoRow
<1>. QED
  BY <1>3, <1>4 DEF AccInv, AccountInit, PlanInv

\* A registration reads: its plan is a new user.
LEMMA RegisterPlan ==
  ASSUME AccInv, NEW r \in AccountRequests, NEW e \in Emails,
         NEW joins \in BOOLEAN, NEW sl \in 0..1, Register(r, e, joins, sl)
  PROVE  \/ Reads(r, "refused", NoPlan)
         \/ \E org \in 0..Cardinality(AccountRequests) :
              /\ Reads(r, "registering",
                   [row |-> [email |-> e, org |-> org,
                             role |-> IF joins THEN "viewer" ELSE "owner"],
                    target |-> NoUser, was |-> NoRole])
              /\ ~EmailTaken(e)
              /\ joins => org \in orgs
              /\ ~joins => org \notin orgs
<1>1. ~Registered(r)
  BY DEF Register, Reads, Registered
<1>2. /\ orgs \in SUBSET Nat /\ IsFiniteSet(orgs)
      /\ Cardinality(orgs) <= Cardinality(AccountRequests)
      /\ Cardinality(AccountRequests) \in Nat \ {0}
  BY <1>1, FewOrganisations
<1>3. Cardinality(orgs) \in Nat
  BY <1>2, FS_CardinalityType
<1>4. FreeSlug \in 0..Cardinality(AccountRequests) /\ FreeSlug \notin orgs
  BY <1>2, <1>3, FreeSlugIsFree
<1> DEFINE org == IF joins THEN sl ELSE FreeSlug
<1>5. org \in 0..Cardinality(AccountRequests)
  BY <1>2, <1>4
<1>6. CASE EmailTaken(e) \/ (joins /\ sl \notin orgs)
  BY <1>6 DEF Register
<1>7. CASE ~(EmailTaken(e) \/ (joins /\ sl \notin orgs))
  <2>1. Reads(r, "registering",
              [NoPlan EXCEPT !.row = [email |-> e, org |-> org,
                                      role |-> RoleOnRegister(~joins)]])
    BY <1>7 DEF Register
  <2>2. RoleOnRegister(~joins) = IF joins THEN "viewer" ELSE "owner"
    BY DEF RoleOnRegister
  <2>3. Reads(r, "registering",
              [row |-> [email |-> e, org |-> org,
                        role |-> IF joins THEN "viewer" ELSE "owner"],
               target |-> NoUser, was |-> NoRole])
    BY <2>1, <2>2 DEF NoPlan
  <2>. QED
    BY <1>4, <1>5, <1>7, <2>3
<1>. QED
  BY <1>6, <1>7

\* A change reads: its plan is the row of a user with another role.
LEMMA RolePlan ==
  ASSUME AccInv, NEW r \in AccountRequests, NEW actor \in Present,
         NEW target \in Present, NEW role \in Roles, NEW sl,
         ChangeRole(r, actor, target, role, sl)
  PROVE  \/ Reads(r, "refused", NoPlan)
         \/ /\ Reads(r, "changing",
                 [row |-> [user[target] EXCEPT !.role = role],
                  target |-> target, was |-> user[target].role])
            /\ user[target].org \in orgs
            /\ user[target].role = "owner" /\ role # "owner"
                 => Cardinality(Owners(user[target].org)) > 1
BY DEF ChangeRole, MayChange, OwnerMayGo

\* Requests keep the shape of users and plans.
LEMMA StepAcc == AccInv /\ [AccountNext]_accountVars => AccInv'
<1> SUFFICES ASSUME AccInv, [AccountNext]_accountVars PROVE AccInv'
  OBVIOUS
<1>0. /\ NoRow.role = NoRole /\ NoRole \notin Roles
      /\ NoUser \notin Users /\ Founders \cap AccountRequests = {}
  BY FoundersAssumption DEF NoRow
<1> USE <1>0 DEF Users, Present, Closed
<1>1. ASSUME NEW r \in AccountRequests, Reads(r, "refused", NoPlan)
      PROVE  AccInv'
  <2>1. AccountTypeOK'
    BY <1>1, FoundersAssumption, FS_CardinalityType
       DEF AccInv, AccountTypeOK, Reads, NoPlan, AccountRows, NoRow
  <2>2. UserInv'
    BY <1>1 DEF AccInv, AccountTypeOK, UserInv, Registered, Reads
  <2>3. PlanInv'
    BY <1>1 DEF AccInv, AccountTypeOK, PlanInv, Founding, Reads
  <2>. QED
    BY <2>1, <2>2, <2>3 DEF AccInv
<1>2. ASSUME NEW r \in AccountRequests, NEW e \in Emails,
             NEW joins \in BOOLEAN, NEW sl \in 0..1,
             Register(r, e, joins, sl)
      PROVE  AccInv'
  <2>1. CASE Reads(r, "refused", NoPlan)
    BY <1>1, <2>1
  <2>2. ASSUME NEW org \in 0..Cardinality(AccountRequests),
               Reads(r, "registering",
                 [row |-> [email |-> e, org |-> org,
                           role |-> IF joins THEN "viewer" ELSE "owner"],
                  target |-> NoUser, was |-> NoRole]),
               joins => org \in orgs
        PROVE  AccInv'
    <3>0. (IF joins THEN "viewer" ELSE "owner") \in Roles
      BY DEF Roles
    <3>1. AccountTypeOK'
      BY <2>2, <3>0 DEF AccInv, AccountTypeOK, Reads, AccountRows
    <3>2. UserInv'
      BY <2>2 DEF AccInv, AccountTypeOK, UserInv, Registered, Reads
    <3>3. PlanInv'
      BY <2>2, <3>0 DEF AccInv, AccountTypeOK, PlanInv, Founding, Reads
    <3>. QED
      BY <3>1, <3>2, <3>3 DEF AccInv
  <2>. QED
    BY <1>2, <2>1, <2>2, RegisterPlan
<1>3. ASSUME NEW r \in AccountRequests, NEW actor \in Present,
             NEW target \in Present, NEW role \in Roles, NEW sl,
             ChangeRole(r, actor, target, role, sl)
      PROVE  AccInv'
  <2>1. CASE Reads(r, "refused", NoPlan)
    BY <1>1, <2>1
  <2>2. CASE /\ Reads(r, "changing",
                  [row |-> [user[target] EXCEPT !.role = role],
                   target |-> target, was |-> user[target].role])
             /\ user[target].org \in orgs
    <3>0. user[target].role \in Roles /\ user[target] \in AccountRows
      BY DEF AccInv, UserInv, AccountTypeOK
    <3>1. AccountTypeOK'
      BY <2>2, <3>0 DEF AccInv, AccountTypeOK, Reads, AccountRows
    <3>2. UserInv'
      BY <2>2 DEF AccInv, AccountTypeOK, UserInv, Registered, Reads
    <3>3. PlanInv'
      BY <2>2, <3>0 DEF AccInv, AccountTypeOK, PlanInv, Founding, Reads, AccountRows
    <3>. QED
      BY <3>1, <3>2, <3>3 DEF AccInv
  <2>. QED
    BY <1>3, <2>1, <2>2, RolePlan
<1>4. ASSUME NEW r \in AccountRequests, CommitRegister(r) PROVE AccInv'
  <2>0. /\ acc[r] = "registering" /\ plan[r].target = NoUser
        /\ plan[r].row.role \in Roles /\ plan[r].row \in AccountRows
        /\ plan[r].row # NoRow
    BY <1>4 DEF CommitRegister, Ends, AccInv, PlanInv, Founding, AccountTypeOK
  <2>1. CASE Registers(r)
    <3>1. AccountTypeOK'
      BY <1>4, <2>0, <2>1 DEF AccInv, AccountTypeOK, CommitRegister, Ends, AccountRows
    <3>2. UserInv'
      <4>1. /\ user' = [user EXCEPT ![r] = plan[r].row]
            /\ orgs' = orgs \cup {plan[r].row.org}
            /\ plan' = plan /\ acc' = [acc EXCEPT ![r] = "done"]
        BY <1>4, <2>1 DEF CommitRegister, Ends
      <4>2. /\ r \in Users /\ r \notin Founders
            /\ \A u \in Founders : u \in Users /\ u # r
            /\ AccountRequests \subseteq Users
        BY FoundersAssumption DEF Users
      <4>3. user'[r] = plan[r].row /\ \A u \in Users \ {r} : user'[u] = user[u]
        BY <4>1, <4>2 DEF AccInv, AccountTypeOK
      <4>4. \A x \in AccountRequests : Registered(x)' <=> Registered(x) \/ x = r
        BY <2>0, <4>1 DEF AccInv, AccountTypeOK, Registered
      <4>5. UserInv
        BY DEF AccInv
      <4>. QED
        BY <2>0, <4>1, <4>2, <4>3, <4>4, <4>5 DEF UserInv
    <3>3. PlanInv'
      BY <1>4, <2>0, <2>1 DEF AccInv, AccountTypeOK, UserInv, Registered, PlanInv, Founding, CommitRegister, Ends
    <3>. QED
      BY <3>1, <3>2, <3>3 DEF AccInv
  <2>2. CASE ~Registers(r)
    BY <1>4, <2>0, <2>2
       DEF AccInv, AccountTypeOK, UserInv, Registered, PlanInv, Founding, CommitRegister, Ends
  <2>. QED
    BY <2>1, <2>2
<1>5. ASSUME NEW r \in AccountRequests, CommitRole(r) PROVE AccInv'
  <2>0. /\ acc[r] = "changing" /\ plan[r].target \in Present
        /\ plan[r].target \in Users
        /\ plan[r].row.role \in Roles
    BY <1>5 DEF CommitRole, Ends, AccInv, PlanInv, Founding, AccountTypeOK
  <2>1. /\ \A u \in Users : /\ user'[u].email = user[u].email
                            /\ user'[u].org = user[u].org
                            /\ user'[u] # NoRow <=> user[u] # NoRow
                            /\ user[u] # NoRow => user'[u].role \in Roles
        /\ user' \in [Users -> AccountRows]
    BY <1>5, <2>0 DEF CommitRole, AccInv, AccountTypeOK, UserInv, AccountRows
  <2>2. AccountTypeOK'
    BY <1>5, <2>1 DEF AccInv, AccountTypeOK, CommitRole, Ends
  <2>3. UserInv'
    BY <1>5, <2>0, <2>1 DEF AccInv, AccountTypeOK, UserInv, Registered, CommitRole, Ends
  <2>4. PlanInv'
    BY <1>5, <2>0, <2>1 DEF AccInv, AccountTypeOK, PlanInv, Founding, CommitRole, Ends
  <2>. QED
    BY <2>2, <2>3, <2>4 DEF AccInv
<1>6. ASSUME NEW r \in AccountRequests, AccountAborted(r) PROVE AccInv'
  BY <1>6 DEF AccInv, AccountTypeOK, UserInv, Registered, PlanInv, Founding, AccountAborted, Ends
<1>7. CASE UNCHANGED accountVars
  BY <1>7 DEF accountVars, AccInv, AccountTypeOK, UserInv, Registered, PlanInv, Founding
<1>. QED
  BY <1>2, <1>3, <1>4, <1>5, <1>6, <1>7 DEF AccountNext

-----------------------------------------------------------------------------
(* Accounts: overlap                                                       *)

\* What a request saw as over stays over.
EndedInv == \A r \in AccountRequests : \A x \in ended[r] : acc[x] \in Closed

\* When a registration read, its e-mail and its new organisation were free:
\* whoever has them now was not over by then.
SeenInv ==
  \A r \in AccountRequests : acc[r] = "registering" =>
    /\ \A u \in Founders : FirstEmail[u] # plan[r].row.email
    /\ Founding(r) => plan[r].row.org # 0
    /\ \A x \in ended[r] : Registered(x) =>
         /\ plan[x].row.email # plan[r].row.email
         /\ Founding(r) => plan[x].row.org # plan[r].row.org

AccHistory == AccInv /\ EndedInv /\ SeenInv /\ ConflictOnlyFromOverlap

\* A request that reads notes what is over.
LEMMA ReadsEnded ==
  ASSUME AccInv, EndedInv, NEW r \in AccountRequests, NEW t, NEW what,
         Reads(r, t, what)
  PROVE  EndedInv'
BY DEF AccInv, AccountTypeOK, EndedInv, Reads, Closed

\* Nothing that is over begins again.
LEMMA StepEnded == AccInv /\ EndedInv /\ [AccountNext]_accountVars => EndedInv'
<1> SUFFICES ASSUME AccInv, EndedInv, [AccountNext]_accountVars PROVE EndedInv'
  OBVIOUS
<1>1. ASSUME NEW r \in AccountRequests, NEW e \in Emails,
             NEW joins \in BOOLEAN, NEW sl \in 0..1,
             Register(r, e, joins, sl)
      PROVE  EndedInv'
  BY <1>1, RegisterPlan, ReadsEnded
<1>2. ASSUME NEW r \in AccountRequests, NEW actor \in Present,
             NEW target \in Present, NEW role \in Roles, NEW sl,
             ChangeRole(r, actor, target, role, sl)
      PROVE  EndedInv'
  BY <1>2, RolePlan, ReadsEnded
<1>3. ASSUME NEW r \in AccountRequests,
             CommitRegister(r) \/ CommitRole(r) \/ AccountAborted(r)
      PROVE  EndedInv'
  BY <1>3 DEF AccInv, AccountTypeOK, EndedInv, CommitRegister, CommitRole,
     AccountAborted, Ends, Closed
<1>4. CASE UNCHANGED accountVars
  BY <1>4 DEF accountVars, EndedInv
<1>. QED
  BY <1>1, <1>2, <1>3, <1>4 DEF AccountNext

\* Registrations read what is free, and meet an index for one reason only.
LEMMA StepSeen ==
  AccHistory /\ [AccountNext]_accountVars => SeenInv' /\ ConflictOnlyFromOverlap'
<1> SUFFICES ASSUME AccHistory, [AccountNext]_accountVars
             PROVE  SeenInv' /\ ConflictOnlyFromOverlap'
  OBVIOUS
<1>0. /\ NoUser \notin Users /\ Founders \cap AccountRequests = {}
  BY FoundersAssumption
<1> USE <1>0 DEF AccHistory, AccInv, AccountTypeOK, Users, Present, Closed
<1>1. ASSUME NEW r \in AccountRequests, NEW t \in {"refused", "changing"},
             NEW what, Reads(r, t, what)
      PROVE  SeenInv' /\ ConflictOnlyFromOverlap'
  <2>1. SeenInv'
    BY <1>1 DEF Reads, SeenInv, EndedInv, Founding, Registered
  <2>2. ConflictOnlyFromOverlap'
    BY <1>1 DEF Reads, EndedInv, ConflictOnlyFromOverlap, Overlap
  <2>. QED
    BY <2>1, <2>2
<1>2. ASSUME NEW r \in AccountRequests, NEW e \in Emails,
             NEW joins \in BOOLEAN, NEW sl \in 0..1,
             Register(r, e, joins, sl)
      PROVE  SeenInv' /\ ConflictOnlyFromOverlap'
  <2>1. ASSUME NEW org \in 0..Cardinality(AccountRequests),
               Reads(r, "registering",
                 [row |-> [email |-> e, org |-> org,
                           role |-> IF joins THEN "viewer" ELSE "owner"],
                  target |-> NoUser, was |-> NoRole]),
               ~EmailTaken(e), ~joins => org \notin orgs
        PROVE  SeenInv' /\ ConflictOnlyFromOverlap'
    <3>1. \A u \in Founders : FirstEmail[u] # e
      BY <2>1 DEF EmailTaken, UserInv
    <3>2. \A x \in AccountRequests : Registered(x) => plan[x].row.email # e
      BY <2>1 DEF EmailTaken, UserInv
    <3>3. \A x \in AccountRequests : Registered(x) => plan[x].row.org \in orgs
      BY DEF UserInv
    <3>4. 0 \in orgs
      BY DEF UserInv
    <3>5. SeenInv'
      BY <2>1, <3>1, <3>2, <3>3, <3>4
         DEF Reads, SeenInv, EndedInv, Founding, Registered
    <3>6. ConflictOnlyFromOverlap'
      BY <2>1 DEF Reads, EndedInv, ConflictOnlyFromOverlap, Overlap
    <3>. QED
      BY <3>5, <3>6
  <2>. QED
    BY <1>1, <1>2, <2>1, RegisterPlan
<1>3. ASSUME NEW r \in AccountRequests, NEW actor \in Present,
             NEW target \in Present, NEW role \in Roles, NEW sl,
             ChangeRole(r, actor, target, role, sl)
      PROVE  SeenInv' /\ ConflictOnlyFromOverlap'
  <2>1. CASE Reads(r, "refused", NoPlan)
    BY <1>1, <2>1
  <2>2. CASE Reads(r, "changing",
                   [row |-> [user[target] EXCEPT !.role = role],
                    target |-> target, was |-> user[target].role])
    BY <1>1, <2>2
  <2>. QED
    BY <1>3, <2>1, <2>2, RolePlan
<1>4. ASSUME NEW r \in AccountRequests, CommitRegister(r)
      PROVE  SeenInv' /\ ConflictOnlyFromOverlap'
  <2>1. SeenInv'
    BY <1>4 DEF CommitRegister, Ends, SeenInv, EndedInv, Founding, Registered
  <2>2. CASE Registers(r)
    <3>1. \A x \in AccountRequests \ {r} : acc'[x] = acc[x]
      BY <1>4 DEF CommitRegister, Ends
    <3>. QED
      BY <1>4, <2>1, <2>2, <3>1
         DEF CommitRegister, Ends, ConflictOnlyFromOverlap, Overlap
  <2>3. CASE ~Registers(r)
    <3>1. PICK x \in AccountRequests :
            /\ Registered(x)
            /\ \/ plan[x].row.email = plan[r].row.email
               \/ Founding(r) /\ plan[x].row.org = plan[r].row.org
      <4>1. acc[r] = "registering"
        BY <1>4 DEF CommitRegister, Ends
      <4>2. CASE EmailTaken(plan[r].row.email)
        <5>1. PICK u \in Present : user[u].email = plan[r].row.email
          BY <4>2 DEF EmailTaken
        <5>2. u \notin Founders
          BY <4>1, <5>1 DEF UserInv, SeenInv
        <5>. QED
          BY <5>1, <5>2 DEF UserInv
      <4>3. CASE Founding(r) /\ plan[r].row.org \in orgs
        BY <4>1, <4>3 DEF UserInv, SeenInv
      <4>. QED
        BY <2>3, <4>2, <4>3 DEF Registers
    <3>2. acc[r] = "registering" /\ x # r /\ r \notin ended[x]
      BY <1>4, <3>1 DEF CommitRegister, Ends, EndedInv, Registered
    <3>3. x \notin ended[r]
      BY <3>1, <3>2 DEF SeenInv
    <3>4. Overlap(r, x)' /\ acc'[x] = "done" /\ plan' = plan
      BY <1>4, <3>1, <3>2, <3>3 DEF CommitRegister, Ends, Overlap, Registered
    <3>5. \A y \in AccountRequests \ {r} : acc'[y] = acc[y]
      BY <1>4 DEF CommitRegister, Ends
    <3>6. ASSUME NEW y \in AccountRequests, acc'[y] = "conflict"
          PROVE  \E z \in AccountRequests :
                   /\ Overlap(y, z)' /\ acc'[z] = "done" /\ plan'[z].target = NoUser
                   /\ \/ plan'[z].row.email = plan'[y].row.email
                      \/ plan'[z].row.org = plan'[y].row.org
      <4>1. CASE y = r
        BY <3>1, <3>4, <4>1 DEF Registered
      <4>2. CASE y # r
        BY <1>4, <3>2, <3>5, <3>6, <4>2
           DEF CommitRegister, Ends, ConflictOnlyFromOverlap, Overlap
      <4>. QED
        BY <4>1, <4>2
    <3>7. ConflictOnlyFromOverlap'
      BY <3>6 DEF ConflictOnlyFromOverlap
    <3>. QED
      BY <2>1, <3>7
  <2>. QED
    BY <2>2, <2>3
<1>5. ASSUME NEW r \in AccountRequests, CommitRole(r) \/ AccountAborted(r)
      PROVE  SeenInv' /\ ConflictOnlyFromOverlap'
  <2>1. SeenInv'
    BY <1>5 DEF CommitRole, AccountAborted, Ends, SeenInv, EndedInv, Founding, Registered
  <2>2. ConflictOnlyFromOverlap'
    <3>1. /\ \A x \in AccountRequests :
               /\ acc'[x] = "conflict" => acc[x] = "conflict"
               /\ acc[x] = "done" => acc'[x] = "done"
          /\ plan' = plan /\ ended' = ended
      BY <1>5 DEF CommitRole, AccountAborted, Ends
    <3>. QED
      BY <3>1 DEF ConflictOnlyFromOverlap, Overlap
  <2>. QED
    BY <2>1, <2>2
<1>6. CASE UNCHANGED accountVars
  BY <1>6 DEF accountVars, SeenInv, Founding, Registered, ConflictOnlyFromOverlap, Overlap
<1>. QED
  BY <1>2, <1>3, <1>4, <1>5, <1>6 DEF AccountNext

-----------------------------------------------------------------------------
(* Accounts: owners                                                        *)

\* Two that overlapped and each took a role from the organisation's owners, or
\* wrote over one.
LostTogether(org) ==
  \E r, x \in AccountRequests :
    /\ Lowered(r) /\ Lowered(x) /\ Overlap(r, x)
    /\ plan[r].row.org = org /\ plan[x].row.org = org

\* A change to a lower role left another owner when it read; who is no longer
\* one lost the role since.
OwnerKept(r) ==
  \/ \E w \in Owners(plan[r].row.org) : w # plan[r].target
  \/ \E x \in AccountRequests :
       Lowered(x) /\ x \notin ended[r] /\ plan[x].row.org = plan[r].row.org
  \/ LostTogether(plan[r].row.org)

OwnerInv ==
  \A r \in AccountRequests :
    acc[r] = "changing" /\ plan[r].row.role \notin {plan[r].was, "owner"} =>
      OwnerKept(r)

OwnerHistory ==
  AccInv /\ EndedInv /\ OwnerInv /\ OwnerlessOnlyFromOverlap

\* It stays so while owners stay and who lost the role is over.
LEMMA StillKept ==
  ASSUME NEW x \in AccountRequests, OwnerKept(x),
         plan'[x] = plan[x], ended'[x] = ended[x],
         Owners(plan[x].row.org) \subseteq Owners(plan[x].row.org)',
         LostTogether(plan[x].row.org) => LostTogether(plan[x].row.org)',
         \A y \in AccountRequests : Lowered(y) => Lowered(y)' /\ plan'[y] = plan[y]
  PROVE  OwnerKept(x)'
<1>1. CASE \E w \in Owners(plan[x].row.org) : w # plan[x].target
  BY <1>1 DEF OwnerKept
<1>2. CASE \E y \in AccountRequests :
             /\ Lowered(y) /\ y \notin ended[x]
             /\ plan[y].row.org = plan[x].row.org
  BY <1>2 DEF OwnerKept
<1>3. CASE LostTogether(plan[x].row.org)
  BY <1>3 DEF OwnerKept
<1>. QED
  BY <1>1, <1>2, <1>3 DEF OwnerKept

\* So the invariant stays when no owner goes, and who reads sees it.
LEMMA OwnerInvStays ==
  ASSUME OwnerInv, PlanInv,
         \A x \in AccountRequests : acc'[x] = "changing" =>
           \/ acc[x] = "changing" /\ plan'[x] = plan[x] /\ ended'[x] = ended[x]
           \/ plan'[x].row.role \notin {plan'[x].was, "owner"} => OwnerKept(x)',
         \A y \in AccountRequests : Lowered(y) => Lowered(y)' /\ plan'[y] = plan[y],
         \A org \in orgs : /\ Owners(org) \subseteq Owners(org)'
                           /\ LostTogether(org) => LostTogether(org)'
  PROVE  OwnerInv'
<1>1. ASSUME NEW x \in AccountRequests, acc'[x] = "changing",
             plan'[x].row.role \notin {plan'[x].was, "owner"}
      PROVE  OwnerKept(x)'
  <2>1. CASE acc[x] = "changing" /\ plan'[x] = plan[x] /\ ended'[x] = ended[x]
    <3>1. OwnerKept(x) /\ plan[x].row.org \in orgs
      BY <1>1, <2>1 DEF OwnerInv, PlanInv
    <3>. QED
      BY <2>1, <3>1, StillKept
  <2>. QED
    BY <1>1, <2>1
<1>. QED
  BY <1>1 DEF OwnerInv

\* A step that leaves the users and what is over leaves these facts.
LEMMA SameOwners ==
  ASSUME OwnerHistory, UNCHANGED <<user, orgs>>,
         NEW r \in AccountRequests, acc[r] \notin Closed,
         acc'[r] \notin {"changing", "done"},
         \A x \in AccountRequests \ {r} :
           acc'[x] = acc[x] /\ plan'[x] = plan[x] /\ ended'[x] = ended[x]
  PROVE  OwnerInv' /\ OwnerlessOnlyFromOverlap'
<1> USE DEF OwnerHistory, AccInv, AccountTypeOK, Closed
<1>1. \A x \in AccountRequests : Lowered(x) => Lowered(x)' /\ x # r
  BY DEF Lowered
<1>2. \A org \in orgs : LostTogether(org) => LostTogether(org)'
  BY <1>1 DEF LostTogether, Overlap
<1>3. \A org : Owners(org)' = Owners(org)
  BY DEF Owners, Present
<1>4. OwnerInv'
  <2>1. \A x \in AccountRequests : acc'[x] = "changing" =>
          acc[x] = "changing" /\ plan'[x] = plan[x] /\ ended'[x] = ended[x]
    OBVIOUS
  <2>2. \A x \in AccountRequests : Lowered(x) => Lowered(x)' /\ plan'[x] = plan[x]
    BY <1>1
  <2>. QED
    BY <1>2, <1>3, <2>1, <2>2, OwnerInvStays
<1>5. OwnerlessOnlyFromOverlap'
  BY <1>2, <1>3 DEF OwnerlessOnlyFromOverlap, LostTogether
<1>. QED
  BY <1>4, <1>5

\* Of two owners one is another.
LEMMA AnotherOwner ==
  ASSUME NEW org, NEW u, Cardinality(Owners(org)) > 1
  PROVE  \E w \in Owners(org) : w # u
BY Another

\* A change reads: there is another owner, or there was none already.
LEMMA ChangeReads ==
  ASSUME OwnerHistory, NEW r \in AccountRequests, NEW target \in Present,
         NEW role \in Roles,
         Reads(r, "changing", [row |-> [user[target] EXCEPT !.role = role],
                               target |-> target, was |-> user[target].role]),
         user[target].org \in orgs,
         user[target].role = "owner" /\ role # "owner"
           => Cardinality(Owners(user[target].org)) > 1
  PROVE  OwnerInv' /\ OwnerlessOnlyFromOverlap'
<1> USE DEF OwnerHistory, AccInv, AccountTypeOK, Closed
<1> DEFINE o == user[target].org
<1>0. /\ acc[r] = "idle" /\ acc'[r] = "changing" /\ UNCHANGED <<user, orgs>>
      /\ plan'[r].row.org = o /\ plan'[r].row.role = role
      /\ plan'[r].target = target /\ plan'[r].was = user[target].role
      /\ \A x \in AccountRequests \ {r} :
           acc'[x] = acc[x] /\ plan'[x] = plan[x] /\ ended'[x] = ended[x]
  BY DEF Reads, AccountRows, Users, Present
<1>1. \A x \in AccountRequests : Lowered(x) => Lowered(x)' /\ x # r
  BY <1>0 DEF Lowered
<1>2. \A org \in orgs : LostTogether(org) => LostTogether(org)'
  BY <1>0, <1>1 DEF LostTogether, Overlap
<1>3. \A org : Owners(org)' = Owners(org)
  BY <1>0 DEF Owners, Present
<1>4. ASSUME role \notin {user[target].role, "owner"}
      PROVE  (\E w \in Owners(o) : w # target) \/ LostTogether(o)
  <2>1. CASE user[target].role = "owner"
    <3>1. Cardinality(Owners(o)) > 1
      BY <1>4, <2>1
    <3>2. \E w \in Owners(o) : w # target
      BY ONLY <3>1, AnotherOwner
    <3>. QED
      BY <3>2
  <2>2. CASE user[target].role # "owner"
    <3>1. CASE Owners(o) = {}
      BY <3>1 DEF OwnerlessOnlyFromOverlap, LostTogether
    <3>2. CASE Owners(o) # {}
      BY <2>2, <3>2 DEF Owners
    <3>. QED
      BY <3>1, <3>2
  <2>. QED
    BY <2>1, <2>2
<1>5. OwnerInv'
  <2>1. ASSUME NEW x \in AccountRequests, acc'[x] = "changing", x # r
        PROVE  acc[x] = "changing" /\ plan'[x] = plan[x] /\ ended'[x] = ended[x]
    BY <1>0, <2>1
  <2>2. ASSUME role \notin {user[target].role, "owner"}
        PROVE  OwnerKept(r)'
    <3>1. CASE \E w \in Owners(o) : w # target
      BY <1>0, <1>3, <3>1 DEF OwnerKept
    <3>2. CASE LostTogether(o)
      <4>1. LostTogether(o)'
        BY <1>0, <1>2, <3>2
      <4>. QED
        BY <1>0, <4>1 DEF OwnerKept
    <3>. QED
      BY <1>4, <2>2, <3>1, <3>2
  <2>3. \A x \in AccountRequests : Lowered(x) => Lowered(x)' /\ plan'[x] = plan[x]
    BY <1>0, <1>1
  <2>. QED
    BY <1>0, <1>2, <1>3, <2>1, <2>2, <2>3, OwnerInvStays
<1>6. OwnerlessOnlyFromOverlap'
  BY <1>0, <1>2, <1>3 DEF OwnerlessOnlyFromOverlap, LostTogether
<1>. QED
  BY <1>5, <1>6

\* A registration adds users and, with a new organisation, its owner.
LEMMA RegistrationOwners ==
  ASSUME OwnerHistory, AccInv', NEW r \in AccountRequests, CommitRegister(r)
  PROVE  OwnerInv' /\ OwnerlessOnlyFromOverlap'
<1> USE DEF OwnerHistory, AccInv, AccountTypeOK, Closed
<1>0. /\ acc[r] = "registering" /\ plan' = plan /\ ended' = ended
      /\ plan[r].target = NoUser /\ acc'[r] \in {"done", "conflict"}
      /\ \A x \in AccountRequests \ {r} : acc'[x] = acc[x]
  BY DEF CommitRegister, Ends, PlanInv
<1>1. \A x \in AccountRequests : Lowered(x) => Lowered(x)'
  BY <1>0 DEF Lowered
<1>2. \A org : LostTogether(org) => LostTogether(org)'
  BY <1>0, <1>1 DEF LostTogether, Overlap
<1>3. \A u \in Present : user'[u] = user[u]
  BY <1>0 DEF CommitRegister, Present, UserInv, Registered
<1>4. \A org : Owners(org) \subseteq Owners(org)'
  BY <1>3 DEF Owners, Present
<1>5. OwnerInv'
  <2>1. \A x \in AccountRequests : acc'[x] = "changing" => acc[x] = "changing"
    BY <1>0
  <2>. QED
    BY <1>0, <1>1, <1>2, <1>4, <2>1, OwnerInvStays
<1>6. \A org \in orgs' \ orgs : Owners(org)' # {}
  <2>1. ASSUME NEW org \in orgs' \ orgs PROVE r \in Owners(org)'
    <3>1. /\ Registers(r) /\ org = plan[r].row.org
          /\ user' = [user EXCEPT ![r] = plan[r].row]
      BY <2>1 DEF CommitRegister
    <3>2. plan[r].row.role = "owner"
      BY <1>0, <2>1, <3>1 DEF PlanInv, Founding
    <3>. QED
      BY <1>0, <3>1, <3>2, FoundersAssumption DEF Owners, Present, Users, NoRow, Roles
  <2>. QED
    BY <2>1
<1>7. OwnerlessOnlyFromOverlap'
  BY <1>2, <1>4, <1>6 DEF OwnerlessOnlyFromOverlap, LostTogether
<1>. QED
  BY <1>5, <1>7

\* The commit of a change: if it takes the last owner away, another that
\* overlapped took the other one.
LEMMA ChangeOwners ==
  ASSUME OwnerHistory, NEW r \in AccountRequests, CommitRole(r)
  PROVE  OwnerInv' /\ OwnerlessOnlyFromOverlap'
<1> USE DEF OwnerHistory, AccInv, AccountTypeOK, Closed
<1> PICK o, t : o = plan[r].row.org /\ t = plan[r].target
  OBVIOUS
<1>0. /\ acc[r] = "changing" /\ acc'[r] = "done"
      /\ plan' = plan /\ ended' = ended /\ orgs' = orgs
      /\ t \in Present /\ t # NoUser /\ user[t].org = o /\ o \in orgs
      /\ \A x \in AccountRequests \ {r} : acc'[x] = acc[x]
      /\ t \in Users /\ plan[r].row.role \in Roles
  BY DEF CommitRole, Ends, PlanInv, Present
<1>1. \A x \in AccountRequests : Lowered(x) => Lowered(x)' /\ x # r
  BY <1>0 DEF Lowered
<1>2. \A org : LostTogether(org) => LostTogether(org)'
  BY <1>0, <1>1 DEF LostTogether, Overlap
<1>3. r \notin UNION {ended[x] : x \in AccountRequests}
  BY <1>0 DEF EndedInv
<1>4. CASE plan[r].row.role \in {plan[r].was, "owner"}
  <2>1. \A org : Owners(org) \subseteq Owners(org)'
    <3>1. CASE plan[r].row.role = plan[r].was
      BY <1>0, <3>1 DEF CommitRole, Owners, Present
    <3>2. CASE plan[r].row.role = "owner" /\ plan[r].row.role # plan[r].was
      <4>1. user' = [user EXCEPT ![t].role = "owner"]
        BY <3>2 DEF CommitRole
      <4>2. user'[t].role = "owner" /\ user'[t].org = user[t].org
        BY <1>0, <4>1 DEF AccountRows
      <4>3. \A u \in Users \ {t} : user'[u] = user[u]
        BY <4>1
      <4>4. user'[t] # NoRow
        BY <4>2, FoundersAssumption DEF NoRow, Roles
      <4>. QED
        BY <4>2, <4>3, <4>4 DEF Owners, Present
    <3>. QED
      BY <1>4, <3>1, <3>2
  <2>2. OwnerInv'
    <3>1. \A x \in AccountRequests : acc'[x] = "changing" => acc[x] = "changing"
      BY <1>0
    <3>. QED
      BY <1>0, <1>1, <1>2, <2>1, <3>1, OwnerInvStays
  <2>3. OwnerlessOnlyFromOverlap'
    <3>1. \A org \in orgs : Owners(org) = {} => LostTogether(org)
      BY DEF OwnerlessOnlyFromOverlap, LostTogether
    <3>2. \A org \in orgs' : Owners(org)' = {} => LostTogether(org)'
      BY <1>0, <1>2, <2>1, <3>1
    <3>. QED
      BY <3>2 DEF OwnerlessOnlyFromOverlap, LostTogether
  <2>. QED
    BY <2>2, <2>3
<1>5. CASE plan[r].row.role \notin {plan[r].was, "owner"}
  <2>1. Lowered(r)'
    BY <1>0, <1>5 DEF Lowered
  <2>2. \A org : Owners(org) \ {t} \subseteq Owners(org)'
    BY <1>0 DEF CommitRole, Owners, Present
  <2>3. \A org : org # o => Owners(org) \subseteq Owners(org)'
    BY <1>0, <2>2 DEF Owners
  <2>4. \/ \E w \in Owners(o) : w # t
        \/ \E x \in AccountRequests :
             Lowered(x) /\ x \notin ended[r] /\ plan[x].row.org = o
        \/ LostTogether(o)
    BY <1>0, <1>5 DEF OwnerInv, OwnerKept
  <2>5. (\E w \in Owners(o)' : w # t) \/ LostTogether(o)'
    <3>1. ASSUME NEW x \in AccountRequests, Lowered(x), x \notin ended[r],
                 plan[x].row.org = o
          PROVE  LostTogether(o)'
      BY <1>0, <1>1, <1>3, <2>1, <3>1 DEF LostTogether, Overlap
    <3>2. ASSUME NEW w \in Owners(o), w # t PROVE w \in Owners(o)'
      BY <2>2, <3>2
    <3>. QED
      BY <1>2, <2>4, <3>1, <3>2
  <2>6. OwnerlessOnlyFromOverlap'
    <3>1. ASSUME NEW org \in orgs', Owners(org)' = {} PROVE LostTogether(org)'
      <4>1. CASE org = o
        BY <2>5, <3>1, <4>1
      <4>2. CASE org # o
        <5>1. Owners(org) = {} /\ org \in orgs
          BY <1>0, <2>3, <3>1, <4>2
        <5>2. LostTogether(org)
          BY <5>1 DEF OwnerlessOnlyFromOverlap, LostTogether
        <5>. QED
          BY <1>2, <5>2
      <4>. QED
        BY <4>1, <4>2
    <3>. QED
      BY <3>1 DEF OwnerlessOnlyFromOverlap, LostTogether
  <2>7. ASSUME NEW y \in AccountRequests, acc'[y] = "changing",
               plan'[y].row.role \notin {plan'[y].was, "owner"}
        PROVE  OwnerKept(y)'
    <3>1. acc[y] = "changing"
      BY <1>0, <2>7
    <3>2. CASE plan[y].row.org = o
      BY <1>0, <1>3, <2>1, <3>2 DEF OwnerKept
    <3>3. CASE plan[y].row.org # o
      <4>1. OwnerKept(y)
        BY <1>0, <2>7, <3>1 DEF OwnerInv
      <4>2. Owners(plan[y].row.org) \subseteq Owners(plan[y].row.org)'
        BY <1>0, <2>3, <3>3
      <4>. QED
        BY <1>0, <1>1, <1>2, <4>1, <4>2, StillKept
    <3>. QED
      BY <3>2, <3>3
  <2>8. OwnerInv'
    BY <2>7 DEF OwnerInv
  <2>. QED
    BY <2>6, <2>8
<1>. QED
  BY <1>4, <1>5

\* Every step keeps an owner in each organisation, or can tell who took it.
LEMMA StepOwners ==
  OwnerHistory /\ [AccountNext]_accountVars
    => OwnerInv' /\ OwnerlessOnlyFromOverlap'
<1> SUFFICES ASSUME OwnerHistory, [AccountNext]_accountVars
             PROVE  OwnerInv' /\ OwnerlessOnlyFromOverlap'
  OBVIOUS
<1>0. AccInv'
  BY StepAcc DEF OwnerHistory
<1>1. ASSUME NEW r \in AccountRequests, NEW t \in {"refused", "registering"},
             NEW what, Reads(r, t, what)
      PROVE  OwnerInv' /\ OwnerlessOnlyFromOverlap'
  <2>1. /\ UNCHANGED <<user, orgs>> /\ acc[r] \notin Closed
        /\ acc'[r] \notin {"changing", "done"}
        /\ \A x \in AccountRequests \ {r} :
             acc'[x] = acc[x] /\ plan'[x] = plan[x] /\ ended'[x] = ended[x]
    BY <1>1 DEF Reads, OwnerHistory, AccInv, AccountTypeOK, Closed
  <2>. QED
    BY <2>1, SameOwners
<1>2. ASSUME NEW r \in AccountRequests, NEW e \in Emails,
             NEW joins \in BOOLEAN, NEW sl \in 0..1,
             Register(r, e, joins, sl)
      PROVE  OwnerInv' /\ OwnerlessOnlyFromOverlap'
  <2>1. AccInv
    BY DEF OwnerHistory
  <2>. QED
    BY <1>1, <1>2, <2>1, RegisterPlan
<1>3. ASSUME NEW r \in AccountRequests, NEW actor \in Present,
             NEW target \in Present, NEW role \in Roles, NEW sl,
             ChangeRole(r, actor, target, role, sl)
      PROVE  OwnerInv' /\ OwnerlessOnlyFromOverlap'
  <2>1. AccInv
    BY DEF OwnerHistory
  <2>2. CASE Reads(r, "refused", NoPlan)
    BY <1>1, <2>2
  <2>3. CASE /\ Reads(r, "changing", [row |-> [user[target] EXCEPT !.role = role],
                                      target |-> target, was |-> user[target].role])
             /\ user[target].org \in orgs
             /\ user[target].role = "owner" /\ role # "owner"
                  => Cardinality(Owners(user[target].org)) > 1
    BY <2>3, ChangeReads
  <2>. QED
    BY <1>3, <2>1, <2>2, <2>3, RolePlan
<1>4. ASSUME NEW r \in AccountRequests, CommitRegister(r)
      PROVE  OwnerInv' /\ OwnerlessOnlyFromOverlap'
  BY <1>0, <1>4, RegistrationOwners
<1>5. ASSUME NEW r \in AccountRequests, CommitRole(r)
      PROVE  OwnerInv' /\ OwnerlessOnlyFromOverlap'
  BY <1>5, ChangeOwners
<1>6. ASSUME NEW r \in AccountRequests, AccountAborted(r)
      PROVE  OwnerInv' /\ OwnerlessOnlyFromOverlap'
  <2>1. /\ UNCHANGED <<user, orgs>> /\ acc[r] \notin Closed
        /\ acc'[r] \notin {"changing", "done"}
        /\ \A x \in AccountRequests \ {r} :
             acc'[x] = acc[x] /\ plan'[x] = plan[x] /\ ended'[x] = ended[x]
    BY <1>6 DEF AccountAborted, Ends, OwnerHistory, AccInv, AccountTypeOK, Closed
  <2>. QED
    BY <2>1, SameOwners
<1>7. CASE UNCHANGED accountVars
  <2>1. \A org : Owners(org)' = Owners(org)
    BY <1>7 DEF accountVars, Owners, Present
  <2>2. \A org : LostTogether(org)' = LostTogether(org)
    BY <1>7 DEF accountVars, LostTogether, Lowered, Overlap
  <2>3. OwnerInv'
    <3>1. /\ \A x \in AccountRequests : Lowered(x)' = Lowered(x)
          /\ plan' = plan /\ acc' = acc /\ ended' = ended
      BY <1>7 DEF accountVars, Lowered
    <3>2. OwnerInv /\ PlanInv
      BY DEF OwnerHistory, AccInv
    <3>. QED
      BY <2>1, <2>2, <3>1, <3>2, OwnerInvStays
  <2>4. OwnerlessOnlyFromOverlap'
    BY <1>7, <2>1, <2>2
       DEF accountVars, OwnerHistory, OwnerlessOnlyFromOverlap, LostTogether
  <2>. QED
    BY <2>3, <2>4
<1>. QED
  BY <1>2, <1>3, <1>4, <1>5, <1>6, <1>7 DEF AccountNext

\* At the start there is an owner, and nobody has read anything.
LEMMA InitAccHistory ==
  AccountInit => AccHistory /\ OwnerHistory
<1> SUFFICES ASSUME AccountInit PROVE AccHistory /\ OwnerHistory
  OBVIOUS
<1>1. AccInv
  BY InitAcc
<1>2. EndedInv /\ SeenInv /\ ConflictOnlyFromOverlap /\ OwnerInv
  BY DEF AccountInit, EndedInv, SeenInv, ConflictOnlyFromOverlap, OwnerInv
<1>3. OwnerlessOnlyFromOverlap
  <2>1. PICK u \in Founders : FirstRole[u] = "owner"
    BY FoundersAssumption
  <2>2. user[u].role = "owner" /\ user[u].org = 0 /\ user[u] # NoRow /\ u \in Users
    BY <2>1, FoundersAssumption DEF AccountInit, Users, NoRow, Roles
  <2>3. Owners(0) # {}
    BY <2>2 DEF Owners, Present
  <2>. QED
    BY <2>3 DEF AccountInit, OwnerlessOnlyFromOverlap
<1>. QED
  BY <1>1, <1>2, <1>3 DEF AccHistory, OwnerHistory

\* The invariants of the accounts hold in every reachable state.
THEOREM AccountInvariance == Spec => [](AccHistory /\ OwnerHistory)
<1>1. Init => AccHistory /\ OwnerHistory
  BY InitAccHistory DEF Init
<1>2. AccHistory /\ OwnerHistory /\ [Next]_vars => AccHistory' /\ OwnerHistory'
  BY StepOfParts, StepAcc, StepEnded, StepSeen, StepOwners
     DEF AccHistory, OwnerHistory
<1>. QED
  BY <1>1, <1>2, PTL DEF Spec

\* A registration is refused by an index, and a 500, only if another that
\* overlapped took its e-mail or its slug.
THEOREM ConflictsOverlap == Spec => []ConflictOnlyFromOverlap
<1>1. AccHistory => ConflictOnlyFromOverlap
  BY DEF AccHistory
<1>. QED
  BY <1>1, AccountInvariance, PTL

\* An organisation loses its last owner only to two changes that overlapped.
THEOREM OwnersLostTogether == Spec => []OwnerlessOnlyFromOverlap
<1>1. OwnerHistory => OwnerlessOnlyFromOverlap
  BY DEF OwnerHistory
<1>. QED
  BY <1>1, AccountInvariance, PTL

-----------------------------------------------------------------------------
(* Names and strategies                                                    *)

\* What a request saw as over stays over.
BeforeInv == \A r \in EditRequests : \A x \in before[r] : edit[x] \in Ended

\* Each slug is that of a project at the start or was given by a request that
\* is done.
GiverInv ==
  /\ Existing \subseteq Committed
  /\ \A p \in Committed :
       IF giver[p] = Nobody
       THEN p \in Existing /\ slug[p] = Plain(FirstName[p])
       ELSE edit[giver[p]] = "done" /\ wants[giver[p]].slug = slug[p]

\* What a request is about to write.
WantsInv ==
  \A r \in EditRequests :
    /\ edit[r] \in {"creating", "renaming"} => wants[r].slug \in Slugs
    /\ edit[r] \in {"creating", "renaming"} => wants[r].fields = {}
    /\ edit[r] = "creating" => wants[r].project = NoProject
    /\ edit[r] = "renaming" => wants[r].project \in Committed
    /\ edit[r] = "writing" => wants[r].project \in Existing
    /\ edit[r] = "done" /\ wants[r].fields # {} => wants[r].project \in Existing

\* When it read, nobody else bore the slug: who does now got it since.
SlugInv ==
  \A r \in EditRequests : edit[r] \in {"creating", "renaming"} =>
    \A q \in Committed :
      q # wants[r].project /\ slug[q] = wants[r].slug
        => giver[q] # Nobody /\ giver[q] \notin before[r]

\* A field was written by a request that is done; a strategy that was not
\* found was written since.
WriterInv ==
  /\ \A p \in Existing, f \in Fields :
       strategy[p][f] # Nobody =>
         /\ edit[strategy[p][f]] = "done"
         /\ wants[strategy[p][f]].project = p
  /\ \A r \in EditRequests : edit[r] = "writing" /\ ~wants[r].found =>
       \A f \in Fields : strategy[wants[r].project][f] \notin before[r]

EditInv ==
  /\ EditTypeOK /\ BeforeInv /\ GiverInv /\ WantsInv /\ SlugInv /\ WriterInv
  /\ ClashesComeFromOverlap /\ LaterFieldsStay

\* The empty slug is none that a project can bear.
LEMMA SlugFacts ==
  /\ NoSlug \notin Slugs
  /\ \A n \in 0..MaxCopies : Plain(n) \in Slugs
  /\ \A n, m \in 0..MaxCopies : Plain(n) = Plain(m) => n = m
  /\ Nobody \notin EditRequests /\ NoProject \notin Projects
  /\ Existing \subseteq Projects /\ EditRequests \subseteq Projects
  /\ Fields # {}
<1>1. NoSlug \notin Slugs
  BY EditsAssumption DEF NoSlug, Slugs
<1>. QED
  BY <1>1, EditsAssumption DEF Plain, Slugs, Projects, Fields

\* The projects at the start have names and slugs of their own.
LEMMA InitEdit == EditInit => EditInv
<1> SUFFICES ASSUME EditInit PROVE EditInv
  OBVIOUS
<1>0. /\ \A p \in Existing : FirstName[p] \in 0..MaxCopies
                             /\ slug[p] = Plain(FirstName[p]) /\ slug[p] \in Slugs
      /\ \A p \in Projects \ Existing : slug[p] = NoSlug
      /\ DOMAIN slug = Projects /\ 0 \in 0..MaxCopies
  <2>1. \A p \in Existing : FirstName[p] \in 0..MaxCopies
    BY EditsAssumption
  <2>2. \A p \in Existing : slug[p] = Plain(FirstName[p])
    BY SlugFacts DEF EditInit
  <2>3. \A p \in Existing : slug[p] \in Slugs
    BY <2>1, <2>2, SlugFacts
  <2>4. \A p \in Projects \ Existing : slug[p] = NoSlug
    BY DEF EditInit
  <2>5. DOMAIN slug = Projects
    BY DEF EditInit
  <2>6. MaxCopies \in Nat
    BY EditsAssumption
  <2>. QED
    BY <2>1, <2>2, <2>3, <2>4, <2>5, <2>6
<1>1. EditTypeOK
  <2>1. slug \in [Projects -> Slugs \cup {NoSlug}]
    BY <1>0 DEF EditInit
  <2>2. name \in [Projects -> 0..MaxCopies]
    BY <1>0 DEF EditInit
  <2>3. strategy \in [Existing -> [Fields -> EditRequests \cup {Nobody}]]
    BY DEF EditInit, NoStrategy
  <2>4. Nothing \in
          [project : Projects \cup {NoProject}, name : 0..MaxCopies,
           slug : Slugs \cup {NoSlug}, had : Slugs \cup {NoSlug},
           fields : SUBSET Fields, found : BOOLEAN]
    BY <1>0 DEF Nothing
  <2>. QED
    BY <2>1, <2>2, <2>3, <2>4 DEF EditInit, EditTypeOK
<1>2. Committed = Existing
  BY <1>0, SlugFacts DEF Committed
<1>3. ClashesComeFromOverlap
  <2>1. \A p \in Existing : slug[p] = Plain(FirstName[p])
    BY SlugFacts DEF EditInit
  <2>2. ASSUME NEW p \in Existing, NEW q \in Existing, p # q
        PROVE  slug[p] # slug[q]
    <3>1. FirstName[p] # FirstName[q]
      BY <2>2, EditsAssumption
    <3>2. FirstName[p] \in 0..MaxCopies /\ FirstName[q] \in 0..MaxCopies
      BY EditsAssumption
    <3>. QED
      BY <2>1, <3>1, <3>2, SlugFacts
  <2>3. \A r \in EditRequests : edit[r] # "conflict"
    BY DEF EditInit
  <2>. QED
    BY <1>2, <2>2, <2>3 DEF ClashesComeFromOverlap
<1>4. GiverInv
  BY <1>2, SlugFacts, EditsAssumption DEF EditInit, GiverInv, Projects
<1>5. BeforeInv /\ WantsInv /\ SlugInv /\ WriterInv /\ LaterFieldsStay
  BY SlugFacts DEF EditInit, BeforeInv, WantsInv, SlugInv, WriterInv,
     LaterFieldsStay, NoStrategy
<1>. QED
  BY <1>1, <1>3, <1>4, <1>5 DEF EditInv

\* A slug is looked for: with two that bear it the request fails, else it goes
\* on with one that is free.
LEMMA ResolvingPlan ==
  ASSUME EditInv, NEW r \in EditRequests, NEW n \in 0..MaxCopies,
         NEW t, NEW what, Resolving(r, n, t, what)
  PROVE  \/ /\ Looks(r, "conflict", Nothing)
            /\ \E x, y \in EditRequests : SlugClash(x, y) /\ Together(x, y)
         \/ \E s \in Slugs :
              /\ Looks(r, t, [what EXCEPT !.slug = s, !.name = n])
              /\ Bearers(s) \subseteq {what.project}
<1>1. CASE Raising(n)
  <2>1. PICK p \in Bearers(Plain(n)) : TRUE
    BY ONLY <1>1, Another DEF Raising
  <2>2. PICK q \in Bearers(Plain(n)) : q # p
    BY ONLY <1>1, Another DEF Raising
  <2>3. /\ p \in Committed /\ q \in Committed /\ p # q /\ slug[p] = slug[q]
    BY <2>1, <2>2 DEF Bearers
  <2>4. /\ giver[p] # Nobody /\ giver[q] # Nobody
        /\ Together(giver[p], giver[q])
    BY <2>3 DEF EditInv, ClashesComeFromOverlap
  <2>5. giver[p] \in EditRequests /\ giver[q] \in EditRequests
    BY <2>3, <2>4 DEF EditInv, EditTypeOK, Committed
  <2>6. SlugClash(giver[p], giver[q])
    BY <2>3, <2>4 DEF EditInv, GiverInv, SlugClash
  <2>7. Looks(r, "conflict", Nothing)
    BY <1>1 DEF Resolving
  <2>. QED
    BY <2>4, <2>5, <2>6, <2>7
<1>2. CASE ~Raising(n)
  <2>1. PICK s \in Resolved(n, what.project) :
          Looks(r, t, [what EXCEPT !.slug = s, !.name = n])
    BY <1>2 DEF Resolving
  <2>2. s \in Slugs /\ Bearers(s) \subseteq {what.project}
    BY <2>1, SlugFacts DEF Resolved, Available
  <2>. QED
    BY <2>1, <2>2
<1>. QED
  BY <1>1, <1>2

\* How a request can begin: it trips over two projects that bear one slug, or
\* looks before it creates, renames or writes.
Trips(r) ==
  /\ Looks(r, "conflict", Nothing)
  /\ \E x, y \in EditRequests : SlugClash(x, y) /\ Together(x, y)
BeginsCreating(r) ==
  \E s \in Slugs, n \in 0..MaxCopies :
    /\ Looks(r, "creating", [Nothing EXCEPT !.slug = s, !.name = n])
    /\ Bearers(s) \subseteq {NoProject}
BeginsRenaming(r) ==
  \E s \in Slugs, n \in 0..MaxCopies, p \in Committed :
    /\ Looks(r, "renaming", [Nothing EXCEPT !.project = p, !.had = slug[p],
                                            !.slug = s, !.name = n])
    /\ Bearers(s) \subseteq {p}
BeginsWriting(r) ==
  \E p \in Existing, fields \in SUBSET Fields :
    Looks(r, "writing", [Nothing EXCEPT !.project = p, !.fields = fields,
                           !.found = strategy[p] # NoStrategy])

\* The handlers begin in one of these ways.
LEMMA Beginning ==
  ASSUME EditInv, NEW r \in EditRequests
  PROVE  /\ \A n \in 0..MaxCopies :
              Create(r, n) => Trips(r) \/ BeginsCreating(r)
         /\ \A p \in Projects :
              Duplicate(r, p) => Trips(r) \/ BeginsCreating(r)
         /\ \A p \in Projects, n \in 0..MaxCopies :
              PatchSlug(r, p, n) => Trips(r) \/ BeginsRenaming(r)
         /\ \A p \in Existing :
              PutStrategy(r, p) \/ GenerateStrategy(r, p) => BeginsWriting(r)
<1>0. Nothing.project = NoProject
  BY DEF Nothing
<1>1. ASSUME NEW n \in 0..MaxCopies, Resolving(r, n, "creating", Nothing)
      PROVE  Trips(r) \/ BeginsCreating(r)
  <2>1. CASE Trips(r)
    BY <2>1
  <2>2. CASE \E s \in Slugs :
               /\ Looks(r, "creating", [Nothing EXCEPT !.slug = s, !.name = n])
               /\ Bearers(s) \subseteq {Nothing.project}
    BY <1>0, <2>2 DEF BeginsCreating
  <2>3. Trips(r) \/ \E s \in Slugs :
               /\ Looks(r, "creating", [Nothing EXCEPT !.slug = s, !.name = n])
               /\ Bearers(s) \subseteq {Nothing.project}
    BY <1>1, ResolvingPlan DEF Trips
  <2>. QED
    BY <2>1, <2>2, <2>3
<1>2. ASSUME NEW p \in Projects, Duplicate(r, p)
      PROVE  Trips(r) \/ BeginsCreating(r)
  <2>1. name[p] \in 0..MaxCopies /\ name[p] < MaxCopies /\ MaxCopies \in Nat
    BY <1>2, EditsAssumption DEF Duplicate, EditInv, EditTypeOK
  <2>2. name[p] + 1 \in 0..MaxCopies
    BY <2>1
  <2>3. Resolving(r, name[p] + 1, "creating", Nothing)
    BY ONLY <1>2 DEF Duplicate
  <2>. QED
    BY <1>1, <2>2, <2>3
<1>3. ASSUME NEW p \in Projects, NEW n \in 0..MaxCopies, PatchSlug(r, p, n)
      PROVE  Trips(r) \/ BeginsRenaming(r)
  <2> DEFINE what == [Nothing EXCEPT !.project = p, !.had = slug[p]]
  <2>1. what.project = p /\ p \in Committed
    BY <1>3 DEF Nothing, PatchSlug
  <2>2. \A s : [what EXCEPT !.slug = s, !.name = n]
             = [Nothing EXCEPT !.project = p, !.had = slug[p],
                               !.slug = s, !.name = n]
    BY DEF Nothing
  <2>3. Resolving(r, n, "renaming", what)
    BY <1>3 DEF PatchSlug
  <2> HIDE DEF what
  <2>4. \/ Trips(r)
        \/ \E s \in Slugs :
             /\ Looks(r, "renaming", [what EXCEPT !.slug = s, !.name = n])
             /\ Bearers(s) \subseteq {p}
    BY <2>1, <2>3, ResolvingPlan DEF Trips
  <2>. QED
    BY <2>1, <2>2, <2>4 DEF BeginsRenaming
<1>4. ASSUME NEW p \in Existing, PutStrategy(r, p) \/ GenerateStrategy(r, p)
      PROVE  BeginsWriting(r)
  BY <1>4 DEF PutStrategy, GenerateStrategy, Upsert, Fields, BeginsWriting
<1>. QED
  BY <1>1, <1>2, <1>3, <1>4 DEF Create

\* The committed rows, and what was committed before, stay while a request
\* reads; what it will write is new.
LEMMA LooksKeeps ==
  ASSUME EditInv, NEW r \in EditRequests, NEW t, NEW what, Looks(r, t, what)
  PROVE  /\ UNCHANGED <<slug, name, strategy, giver>> /\ edit[r] = "idle"
         /\ edit'[r] = t /\ wants'[r] = what /\ Committed' = Committed
         /\ \A x \in EditRequests \ {r} :
              edit'[x] = edit[x] /\ wants'[x] = wants[x] /\ before'[x] = before[x]
         /\ BeforeInv'
         /\ \A x, y \in EditRequests :
              edit[x] \in Ended /\ edit[y] \in Ended /\ Together(x, y)
                => Together(x, y)'
BY DEF Looks, EditInv, EditTypeOK, BeforeInv, Ended, Together, Committed

\* The facts about rows, and about the other requests, stay while one reads.
LEMMA LooksRows ==
  ASSUME EditInv, NEW r \in EditRequests, NEW t, NEW what, Looks(r, t, what),
         t # "done"
  PROVE  /\ GiverInv'
         /\ t # "conflict" \/ (\E x, y \in EditRequests :
                                 SlugClash(x, y) /\ Together(x, y))
              => ClashesComeFromOverlap'
         /\ LaterFieldsStay'
         /\ (t = "writing" /\ ~what.found =>
               \A f \in Fields : strategy[what.project][f] = Nobody)
              => WriterInv'
<1> USE LooksKeeps, SlugFacts
<1>1. \A x \in EditRequests : edit[x] = "done" => x # r
  OBVIOUS
<1>2. GiverInv'
  BY <1>1 DEF GiverInv, EditInv, EditTypeOK, Committed
<1>3. \A x, y \in EditRequests :
        /\ SlugClash(x, y) /\ Together(x, y)
             => SlugClash(x, y)' /\ Together(x, y)'
        /\ StrategyClash(x, y) /\ Together(x, y)
             => StrategyClash(x, y)' /\ Together(x, y)'
  BY DEF SlugClash, StrategyClash, Ended
<1>4. ASSUME t # "conflict" \/ (\E x, y \in EditRequests :
                                  SlugClash(x, y) /\ Together(x, y))
      PROVE  ClashesComeFromOverlap'
  <2>1. \A p, q \in Committed :
          p # q /\ slug[p] = slug[q] =>
            /\ giver[p] # Nobody /\ giver[q] # Nobody
            /\ Together(giver[p], giver[q])'
    <3>1. ASSUME NEW p \in Committed, NEW q \in Committed, p # q, slug[p] = slug[q]
          PROVE  /\ giver[p] # Nobody /\ giver[q] # Nobody
                 /\ Together(giver[p], giver[q])'
      <4>1. giver[p] # Nobody /\ giver[q] # Nobody /\ Together(giver[p], giver[q])
        BY <3>1 DEF EditInv, ClashesComeFromOverlap
      <4>2. /\ giver[p] \in EditRequests /\ giver[q] \in EditRequests
            /\ edit[giver[p]] \in Ended /\ edit[giver[q]] \in Ended
            /\ giver' = giver
        BY <4>1 DEF EditInv, EditTypeOK, GiverInv, Ended, Committed
      <4>. QED
        BY <4>1, <4>2
    <3>. QED
      BY <3>1
  <2>2. \A x \in EditRequests : edit'[x] = "conflict" =>
          \/ \E a, b \in EditRequests : SlugClash(a, b)' /\ Together(a, b)'
          \/ \E a \in EditRequests : StrategyClash(a, x)' /\ Together(a, x)'
    BY <1>3, <1>4 DEF EditInv, ClashesComeFromOverlap
  <2>. QED
    BY <2>1, <2>2 DEF ClashesComeFromOverlap
<1>5. LaterFieldsStay'
  BY <1>1 DEF EditInv, LaterFieldsStay
<1>6. ASSUME t = "writing" /\ ~what.found =>
               \A f \in Fields : strategy[what.project][f] = Nobody
      PROVE  WriterInv'
  <2>1. ASSUME NEW p \in Existing, NEW f \in Fields, strategy[p][f] # Nobody
        PROVE  /\ edit'[strategy[p][f]] = "done"
               /\ wants'[strategy[p][f]].project = p
    <3>1. strategy[p][f] \in EditRequests /\ edit[strategy[p][f]] = "done"
          /\ wants[strategy[p][f]].project = p
      BY <2>1 DEF EditInv, EditTypeOK, WriterInv
    <3>. QED
      BY <1>1, <3>1
  <2>2. ASSUME NEW x \in EditRequests, edit'[x] = "writing", ~wants'[x].found,
               NEW f \in Fields
        PROVE  strategy[wants'[x].project][f] \notin before'[x]
    <3>1. CASE x = r
      <4>1. before'[r] \subseteq EditRequests
        BY DEF EditInv, EditTypeOK, Looks
      <4>. QED
        BY <1>6, <2>2, <3>1, <4>1
    <3>2. CASE x # r
      BY <2>2, <3>2 DEF EditInv, WriterInv
    <3>. QED
      BY <3>1, <3>2
  <2>. QED
    BY <2>1, <2>2 DEF WriterInv
<1>. QED
  BY <1>2, <1>4, <1>5, <1>6

\* Each way to begin keeps the invariant.
LEMMA StepBegin ==
  ASSUME EditInv, NEW r \in EditRequests,
         \/ Trips(r) \/ BeginsCreating(r) \/ BeginsRenaming(r) \/ BeginsWriting(r)
  PROVE  EditInv'
<1> USE SlugFacts
<1> DEFINE Plans == [project : Projects \cup {NoProject}, name : 0..MaxCopies,
                     slug : Slugs \cup {NoSlug}, had : Slugs \cup {NoSlug},
                     fields : SUBSET Fields, found : BOOLEAN]
<1>0. Nothing \in Plans
  <2>1. MaxCopies \in Nat
    BY EditsAssumption
  <2>. QED
    BY <2>1 DEF Nothing
<1>1. ASSUME NEW t \in {"conflict", "creating", "renaming", "writing"},
             NEW what \in Plans, Looks(r, t, what)
      PROVE  EditTypeOK'
  BY <1>1 DEF EditInv, EditTypeOK, Looks, Ended
<1>2. CASE Trips(r)
  <2>1. Looks(r, "conflict", Nothing)
        /\ \E x, y \in EditRequests : SlugClash(x, y) /\ Together(x, y)
    BY <1>2 DEF Trips
  <2>2. /\ EditTypeOK' /\ GiverInv' /\ ClashesComeFromOverlap' /\ LaterFieldsStay'
        /\ WriterInv'
    BY <1>0, <1>1, <2>1, LooksRows
  <2>3. BeforeInv' /\ WantsInv' /\ SlugInv'
    BY <2>1, LooksKeeps DEF EditInv, WantsInv, SlugInv
  <2>. QED
    BY <2>2, <2>3 DEF EditInv
<1>3. CASE BeginsCreating(r)
  <2>1. PICK s \in Slugs, n \in 0..MaxCopies :
          /\ Looks(r, "creating", [Nothing EXCEPT !.slug = s, !.name = n])
          /\ Bearers(s) \subseteq {NoProject}
    BY <1>3 DEF BeginsCreating
  <2> DEFINE what == [Nothing EXCEPT !.slug = s, !.name = n]
  <2>2. /\ what \in Plans /\ what.slug = s /\ what.project = NoProject
        /\ what.fields = {}
    BY <1>0 DEF Nothing
  <2>3. Looks(r, "creating", what)
    BY <2>1
  <2> HIDE DEF what
  <2>4. /\ EditTypeOK' /\ GiverInv' /\ ClashesComeFromOverlap' /\ LaterFieldsStay'
        /\ WriterInv'
    BY <1>1, <2>2, <2>3, LooksRows
  <2>5. BeforeInv' /\ WantsInv'
    BY <2>2, <2>3, LooksKeeps DEF EditInv, WantsInv
  <2>6. SlugInv'
    BY <2>1, <2>2, <2>3, LooksKeeps DEF EditInv, SlugInv, Bearers
  <2>. QED
    BY <2>4, <2>5, <2>6 DEF EditInv
<1>4. CASE BeginsRenaming(r)
  <2>1. PICK s \in Slugs, n \in 0..MaxCopies, p \in Committed :
          /\ Looks(r, "renaming", [Nothing EXCEPT !.project = p, !.had = slug[p],
                                                  !.slug = s, !.name = n])
          /\ Bearers(s) \subseteq {p}
    BY <1>4 DEF BeginsRenaming
  <2> DEFINE what == [Nothing EXCEPT !.project = p, !.had = slug[p],
                                     !.slug = s, !.name = n]
  <2>2. /\ what \in Plans /\ what.slug = s /\ what.project = p
        /\ what.fields = {}
    BY <1>0 DEF Nothing, EditInv, EditTypeOK, Committed
  <2>3. Looks(r, "renaming", what)
    BY <2>1
  <2> HIDE DEF what
  <2>4. /\ EditTypeOK' /\ GiverInv' /\ ClashesComeFromOverlap' /\ LaterFieldsStay'
        /\ WriterInv'
    BY <1>1, <2>2, <2>3, LooksRows
  <2>5. BeforeInv' /\ WantsInv'
    BY <2>2, <2>3, LooksKeeps DEF EditInv, WantsInv
  <2>6. SlugInv'
    BY <2>1, <2>2, <2>3, LooksKeeps DEF EditInv, SlugInv, Bearers
  <2>. QED
    BY <2>4, <2>5, <2>6 DEF EditInv
<1>5. CASE BeginsWriting(r)
  <2>1. PICK p \in Existing, fields \in SUBSET Fields :
          Looks(r, "writing", [Nothing EXCEPT !.project = p, !.fields = fields,
                                 !.found = strategy[p] # NoStrategy])
    BY <1>5 DEF BeginsWriting
  <2> DEFINE what == [Nothing EXCEPT !.project = p, !.fields = fields,
                        !.found = strategy[p] # NoStrategy]
  <2>2. /\ what \in Plans /\ what.project = p
        /\ what.found = (strategy[p] # NoStrategy)
    BY <1>0 DEF Nothing
  <2>3. Looks(r, "writing", what)
    BY <2>1
  <2> HIDE DEF what
  <2>4. EditTypeOK' /\ GiverInv' /\ ClashesComeFromOverlap' /\ LaterFieldsStay'
    BY <1>1, <2>2, <2>3, LooksRows
  <2>5. BeforeInv' /\ WantsInv' /\ SlugInv'
    BY <2>2, <2>3, LooksKeeps DEF EditInv, WantsInv, SlugInv
  <2>6. ~what.found => \A f \in Fields : strategy[p][f] = Nobody
    BY <2>2 DEF NoStrategy
  <2>7. WriterInv'
    BY <2>2, <2>3, <2>6, LooksRows
  <2>. QED
    BY <2>4, <2>5, <2>7 DEF EditInv
<1>. QED
  BY <1>2, <1>3, <1>4, <1>5

\* The other requests, and what they have seen, stay while one ends.
LEMMA LeavesKeeps ==
  ASSUME EditInv, NEW r \in EditRequests, NEW f, NEW t, Leaves(r, f, t),
         f \notin Ended
  PROVE  /\ edit[r] = f /\ edit'[r] = t /\ wants' = wants /\ before' = before
         /\ \A x \in EditRequests \ {r} : edit'[x] = edit[x]
         /\ \A x \in EditRequests : r \notin before[x]
         /\ BeforeInv'
         /\ \A x \in EditRequests :
              edit[x] = "done" /\ x \notin before[r]
                => Together(r, x) /\ Together(x, r)
BY DEF Leaves, EditInv, EditTypeOK, BeforeInv, Ended, Together

\* A slug is written: by a creation to its own project, by a renaming to its
\* project.  Whoever bears it besides got it since.
LEMMA SlugCommitted ==
  ASSUME EditInv, NEW r \in EditRequests, NEW p \in Projects,
         NEW f \in {"creating", "renaming"}, Leaves(r, f, "done"),
         wants[r].project \in {p, NoProject},
         slug' = [slug EXCEPT ![p] = wants[r].slug],
         giver' = [giver EXCEPT ![p] = r], strategy' = strategy,
         name' \in [Projects -> 0..MaxCopies]
  PROVE  EditInv'
<1> USE SlugFacts, LeavesKeeps DEF Ended
<1>0. /\ f \notin Ended /\ wants[r].slug \in Slugs /\ wants[r].fields = {}
      /\ wants[r].slug # NoSlug
  BY DEF EditInv, WantsInv, Leaves
<1>1. Committed' = Committed \cup {p}
  BY <1>0 DEF EditInv, EditTypeOK, Committed
<1>2. EditTypeOK'
  BY <1>0 DEF EditInv, EditTypeOK, Leaves
<1>3. /\ slug'[p] = wants[r].slug /\ giver'[p] = r
      /\ \A q \in Projects \ {p} : slug'[q] = slug[q] /\ giver'[q] = giver[q]
  BY DEF EditInv, EditTypeOK
<1>4. \A q \in Committed \ {p} :
        giver[q] # Nobody => giver[q] \in EditRequests /\ edit[giver[q]] = "done"
  BY DEF EditInv, EditTypeOK, GiverInv, Committed
<1>5. GiverInv'
  BY <1>0, <1>1, <1>3, <1>4 DEF EditInv, GiverInv, Committed
<1>6. WantsInv'
  BY <1>0, <1>1 DEF EditInv, WantsInv
<1>7. SlugInv'
  BY <1>0, <1>1, <1>3 DEF EditInv, SlugInv, Committed
<1>8. WriterInv'
  <2>1. \A q \in Existing, g \in Fields :
          strategy[q][g] # Nobody => strategy[q][g] \in EditRequests
    BY DEF EditInv, EditTypeOK
  <2>. QED
    BY <1>0, <2>1 DEF EditInv, WriterInv
<1>9. ClashesComeFromOverlap'
  <2>1. ASSUME NEW q \in Committed \ {p}, slug[q] = wants[r].slug
        PROVE  /\ giver[q] # Nobody
               /\ Together(r, giver[q]) /\ Together(giver[q], r)
    <3>1. giver[q] # Nobody /\ giver[q] \notin before[r]
      BY <1>0, <2>1, LeavesKeeps DEF EditInv, SlugInv, Committed
    <3>. QED
      BY <1>0, <1>4, <2>1, <3>1
  <2>2. ASSUME NEW q \in Committed', NEW s \in Committed', q # s, slug'[q] = slug'[s]
        PROVE  /\ giver'[q] # Nobody /\ giver'[s] # Nobody
               /\ Together(giver'[q], giver'[s])
    <3>1. CASE q = p
      BY <1>1, <1>3, <2>1, <2>2, <3>1 DEF Committed
    <3>2. CASE s = p
      BY <1>1, <1>3, <2>1, <2>2, <3>2 DEF Committed
    <3>3. CASE q # p /\ s # p
      BY <1>1, <1>3, <2>2, <3>3 DEF Committed, EditInv, ClashesComeFromOverlap
    <3>. QED
      BY <3>1, <3>2, <3>3
  <2>3. \A x \in EditRequests : edit'[x] = "conflict" =>
          \/ \E a, b \in EditRequests : SlugClash(a, b)' /\ Together(a, b)
          \/ \E a \in EditRequests : StrategyClash(a, x)' /\ Together(a, x)
    BY <1>0 DEF EditInv, ClashesComeFromOverlap, SlugClash, StrategyClash
  <2>4. before' = before
    BY <1>0
  <2>. QED
    BY <2>2, <2>3, <2>4 DEF ClashesComeFromOverlap, Together
<1>10. LaterFieldsStay'
  BY <1>0 DEF EditInv, LaterFieldsStay
<1>. QED
  BY <1>0, <1>2, <1>5, <1>6, <1>7, <1>8, <1>9, <1>10 DEF EditInv

\* A request that ends without a slug leaves the clashes as they are; one that
\* is refused by the index of strategies has met another.
LEMMA LeftClashes ==
  ASSUME EditInv, NEW r \in EditRequests, NEW f, f \notin Ended,
         NEW t, Leaves(r, f, t), UNCHANGED <<slug, giver>>,
         t = "conflict" => \E x \in EditRequests :
           /\ edit[x] = "done" /\ wants[x].project = wants[r].project
           /\ x \notin before[r]
  PROVE  ClashesComeFromOverlap'
<1> USE LeavesKeeps DEF Ended
<1>1. Committed' = Committed /\ before' = before
  BY DEF Committed
<1>2. \A p, q \in Committed :
        p # q /\ slug[p] = slug[q] =>
          giver[p] # Nobody /\ giver[q] # Nobody /\ Together(giver[p], giver[q])
  BY DEF EditInv, ClashesComeFromOverlap
<1>3. ASSUME NEW x \in EditRequests, edit'[x] = "conflict"
      PROVE  \/ \E a, b \in EditRequests : SlugClash(a, b)' /\ Together(a, b)
             \/ \E a \in EditRequests : StrategyClash(a, x)' /\ Together(a, x)
  <2>1. CASE x = r
    BY <1>3, <2>1 DEF StrategyClash
  <2>2. CASE x # r
    BY <1>3, <2>2 DEF EditInv, ClashesComeFromOverlap, SlugClash, StrategyClash
  <2>. QED
    BY <2>1, <2>2
<1>. QED
  BY <1>1, <1>2, <1>3 DEF ClashesComeFromOverlap, Together

\* A request that writes nothing leaves the invariant.
LEMMA LeftRows ==
  ASSUME EditInv, NEW r \in EditRequests, NEW f \in {"creating", "renaming", "writing"},
         NEW t \in {"done", "refused", "conflict"}, Leaves(r, f, t),
         UNCHANGED <<slug, name, strategy, giver>>,
         t = "done" => wants[r].fields = {}
  PROVE  /\ EditTypeOK' /\ BeforeInv' /\ GiverInv' /\ WantsInv' /\ SlugInv'
         /\ WriterInv' /\ LaterFieldsStay'
<1> USE SlugFacts, LeavesKeeps DEF Ended
<1>0. f \notin Ended /\ Committed' = Committed
  BY DEF Committed
<1>1. EditTypeOK'
  BY <1>0 DEF EditInv, EditTypeOK, Leaves
<1>2. \A q \in Committed :
        giver[q] # Nobody => giver[q] \in EditRequests /\ edit[giver[q]] = "done"
  BY DEF EditInv, EditTypeOK, GiverInv, Committed
<1>3. GiverInv' /\ WantsInv' /\ SlugInv'
  BY <1>0, <1>2 DEF EditInv, GiverInv, WantsInv, SlugInv
<1>4. \A q \in Existing, g \in Fields :
        strategy[q][g] # Nobody => strategy[q][g] \in EditRequests
  BY DEF EditInv, EditTypeOK
<1>5. WriterInv'
  BY <1>0, <1>4 DEF EditInv, WriterInv
<1>6. LaterFieldsStay'
  BY <1>0 DEF EditInv, LaterFieldsStay
<1>. QED
  BY <1>0, <1>1, <1>3, <1>5, <1>6

\* A request that is rolled back, or has nothing to write.
LEMMA EditLeft ==
  ASSUME EditInv, NEW r \in EditRequests, NEW f \in {"creating", "renaming", "writing"},
         NEW t \in {"done", "refused"}, Leaves(r, f, t),
         UNCHANGED <<slug, name, strategy, giver>>,
         t = "done" => wants[r].fields = {}
  PROVE  EditInv'
<1>1. f \notin Ended
  BY DEF Ended
<1>. QED
  BY <1>1, LeftClashes, LeftRows DEF EditInv

\* A request that the index of strategies refuses.
LEMMA EditRefused ==
  ASSUME EditInv, NEW r \in EditRequests, Leaves(r, "writing", "conflict"),
         UNCHANGED <<slug, name, strategy, giver>>,
         \E x \in EditRequests :
           /\ edit[x] = "done" /\ wants[x].project = wants[r].project
           /\ x \notin before[r]
  PROVE  EditInv'
<1>1. "writing" \notin Ended
  BY DEF Ended
<1>. QED
  BY <1>1, LeftClashes, LeftRows DEF EditInv

\* The creation and the renaming commit a slug, unless it is the project's own.
LEMMA StepSlug ==
  ASSUME EditInv, NEW r \in EditRequests, CommitCreate(r) \/ CommitRename(r)
  PROVE  EditInv'
<1> USE SlugFacts
<1>1. CASE CommitCreate(r)
  <2>1. Leaves(r, "creating", "done") /\ wants[r].project = NoProject
    BY <1>1 DEF CommitCreate, Leaves, EditInv, WantsInv
  <2>2. name' \in [Projects -> 0..MaxCopies]
    BY <1>1 DEF CommitCreate, EditInv, EditTypeOK
  <2>. QED
    BY <1>1, <2>1, <2>2, SlugCommitted DEF CommitCreate
<1>2. CASE CommitRename(r) /\ wants[r].slug # wants[r].had
  <2>1. Leaves(r, "renaming", "done") /\ wants[r].project \in Projects
    BY <1>2 DEF CommitRename, Leaves, EditInv, WantsInv, Committed
  <2>2. /\ slug' = [slug EXCEPT ![wants[r].project] = wants[r].slug]
        /\ giver' = [giver EXCEPT ![wants[r].project] = r]
        /\ strategy' = strategy
    BY <1>2 DEF CommitRename
  <2>3. name' \in [Projects -> 0..MaxCopies]
    BY <1>2 DEF CommitRename, EditInv, EditTypeOK
  <2>. QED
    BY <2>1, <2>2, <2>3, SlugCommitted
<1>3. CASE CommitRename(r) /\ wants[r].slug = wants[r].had
  <2>1. /\ Leaves(r, "renaming", "done")
        /\ UNCHANGED <<slug, giver, name, strategy>>
    BY <1>3 DEF CommitRename
  <2>2. edit[r] = "renaming" /\ wants[r].fields = {}
    BY <2>1 DEF Leaves, EditInv, WantsInv
  <2>. QED
    BY <2>1, <2>2, EditLeft
<1>. QED
  BY <1>1, <1>2, <1>3

\* The strategy: a row that was found is updated, and an INSERT succeeds only
\* if there is none.
LEMMA StepStrategy ==
  ASSUME EditInv, NEW r \in EditRequests, CommitStrategy(r)
  PROVE  EditInv'
<1> USE SlugFacts, LeavesKeeps DEF Ended
<1> DEFINE ok == wants[r].found \/ strategy[wants[r].project] = NoStrategy
<1> PICK p : p = wants[r].project
  OBVIOUS
<1>0. /\ Leaves(r, "writing", IF ok THEN "done" ELSE "conflict")
      /\ UNCHANGED <<slug, name, giver>> /\ p \in Existing
      /\ edit[r] = "writing"
  BY DEF CommitStrategy, EditInv, WantsInv, Leaves
<1>1. CASE ~ok
  <2>1. Leaves(r, "writing", "conflict") /\ strategy' = strategy
    BY <1>0, <1>1 DEF CommitStrategy
  <2>2. PICK g \in Fields : strategy[p][g] # Nobody
    BY <1>0, <1>1 DEF EditInv, EditTypeOK, NoStrategy
  <2>3. /\ strategy[p][g] \in EditRequests /\ edit[strategy[p][g]] = "done"
        /\ wants[strategy[p][g]].project = p
        /\ strategy[p][g] \notin before[r]
    BY <1>0, <1>1, <2>2 DEF EditInv, EditTypeOK, WriterInv
  <2>4. \E x \in EditRequests : /\ edit[x] = "done" /\ wants[x].project = p
                                /\ x \notin before[r]
    BY <2>3
  <2>. QED
    BY <1>0, <2>1, <2>4, EditRefused
<1>2. CASE ok
  <2>1. /\ Leaves(r, "writing", "done")
        /\ strategy' = [strategy EXCEPT ![p] =
             [g \in Fields |-> IF g \in wants[r].fields THEN r
                               ELSE strategy[p][g]]]
    BY <1>0, <1>2 DEF CommitStrategy
  <2>2. /\ \A g \in Fields : strategy'[p][g] = IF g \in wants[r].fields THEN r
                                               ELSE strategy[p][g]
        /\ \A q \in Existing \ {p} : strategy'[q] = strategy[q]
    BY <1>0, <2>1 DEF EditInv, EditTypeOK
  <2>3. EditTypeOK'
    BY <1>0, <2>1 DEF EditInv, EditTypeOK, Leaves
  <2>4. Committed' = Committed
    BY <1>0 DEF Committed
  <2>5. \A q \in Committed :
          giver[q] # Nobody => giver[q] \in EditRequests /\ edit[giver[q]] = "done"
    BY DEF EditInv, EditTypeOK, GiverInv, Committed
  <2>6. GiverInv' /\ WantsInv' /\ SlugInv'
    BY <1>0, <2>1, <2>4, <2>5 DEF EditInv, GiverInv, WantsInv, SlugInv
  <2>7. \A q \in Existing, g \in Fields :
          /\ strategy[q][g] # Nobody => strategy[q][g] \in EditRequests
          /\ strategy'[q][g] \in {strategy[q][g], r}
          /\ strategy'[q][g] = r /\ strategy[q][g] # r => q = p
    BY <2>2 DEF EditInv, EditTypeOK
  <2>8. WriterInv'
    BY <1>0, <2>1, <2>7 DEF EditInv, WriterInv
  <2>9. LaterFieldsStay'
    <3>1. ASSUME NEW q \in Existing, NEW g \in Fields, NEW x \in EditRequests,
                 edit'[x] = "done", wants'[x].project = q, g \in wants'[x].fields
          PROVE  strategy'[q][g] # Nobody /\ strategy'[q][g] \notin before'[x]
      <4>1. CASE x = r
        BY <1>0, <2>1, <2>2, <3>1, <4>1
      <4>2. CASE x # r
        <5>1. strategy[q][g] # Nobody /\ strategy[q][g] \notin before[x]
          BY <1>0, <2>1, <3>1, <4>2 DEF EditInv, LaterFieldsStay
        <5>. QED
          BY <1>0, <2>1, <2>7, <5>1
      <4>. QED
        BY <4>1, <4>2
    <3>. QED
      BY <3>1 DEF LaterFieldsStay
  <2>10. ClashesComeFromOverlap'
    BY <1>0, <2>1, <2>4, LeftClashes
  <2>. QED
    BY <1>0, <2>1, <2>3, <2>6, <2>8, <2>9, <2>10 DEF EditInv
<1>. QED
  BY <1>1, <1>2

\* Every step keeps the invariant.
LEMMA StepEdit == EditInv /\ [EditNext]_editVars => EditInv'
<1> SUFFICES ASSUME EditInv, [EditNext]_editVars PROVE EditInv'
  OBVIOUS
<1>1. ASSUME NEW r \in EditRequests,
             \/ \E n \in 0..MaxCopies : Create(r, n)
             \/ \E p \in Projects : Duplicate(r, p)
             \/ \E p \in Projects, n \in 0..MaxCopies : PatchSlug(r, p, n)
             \/ \E p \in Existing : PutStrategy(r, p) \/ GenerateStrategy(r, p)
      PROVE  EditInv'
  BY <1>1, Beginning, StepBegin
<1>2. ASSUME NEW r \in EditRequests,
             CommitCreate(r) \/ CommitRename(r) \/ CommitStrategy(r)
      PROVE  EditInv'
  BY <1>2, StepSlug, StepStrategy
<1>3. ASSUME NEW r \in EditRequests, EditAborted(r) PROVE EditInv'
  <2>1. PICK f \in {"creating", "renaming", "writing"} :
          Leaves(r, f, "refused") /\ UNCHANGED <<slug, name, strategy, giver>>
    BY <1>3 DEF EditAborted
  <2>. QED
    BY <2>1, EditLeft
<1>4. CASE UNCHANGED editVars
  BY <1>4 DEF editVars, EditInv, EditTypeOK, BeforeInv, GiverInv, WantsInv,
     SlugInv, WriterInv, ClashesComeFromOverlap, LaterFieldsStay, Committed,
     SlugClash, StrategyClash, Together
<1>. QED
  BY <1>1, <1>2, <1>3, <1>4 DEF EditNext

\* The invariant of names and strategies holds in every reachable state.
THEOREM EditInvariance == Spec => []EditInv
<1>1. Init => EditInv
  BY InitEdit DEF Init
<1>2. EditInv /\ [Next]_vars => EditInv'
  BY StepOfParts, StepEdit
<1>. QED
  BY <1>1, <1>2, PTL DEF Spec

\* Two projects bear one slug, and a request trips over them or over the index
\* of strategies, only after two that overlapped.
THEOREM ClashesOverlap == Spec => []ClashesComeFromOverlap
<1>1. EditInv => ClashesComeFromOverlap
  BY DEF EditInv
<1>. QED
  BY <1>1, EditInvariance, PTL

\* No request restores a field of a strategy that another wrote since it read.
THEOREM FieldsStay == Spec => []LaterFieldsStay
<1>1. EditInv => LaterFieldsStay
  BY DEF EditInv
<1>. QED
  BY <1>1, EditInvariance, PTL

=============================================================================
