------------------------------ MODULE Accounts ------------------------------
(***************************************************************************)
(* Registration and roles: register_user (api/app/services/auth_service.py)*)
(* and change_member_role (api/app/api/v1/orgs.py), each request one       *)
(* transaction that reads first and writes at its end.                     *)
(*                                                                         *)
(* An organisation is known by its slug.  Everybody who registers has the  *)
(* same name, so all new slugs come from one base: n stands for the base   *)
(* with the suffix n, 0 for the base alone.                                *)
(***************************************************************************)
EXTENDS Naturals, FiniteSets

CONSTANTS
  AccountRequests,
  Founders,     \* users of organisation 0 at the start, the first its owner
  FirstRole,    \* function from Founders
  Emails,       \* what new users register with, and FirstEmail
  FirstEmail,   \* function from Founders
  Superusers,   \* a subset of Founders
  NoRole, NoUser

Users == Founders \cup AccountRequests
Roles == {"owner", "admin", "analyst", "viewer"}
Rank  == [r \in Roles |-> CASE r = "owner" -> 30 [] r = "admin" -> 20
                            [] r = "analyst" -> 10 [] r = "viewer" -> 0]

ASSUME FoundersAssumption ==
  /\ IsFiniteSet(AccountRequests)
  /\ Founders \cap AccountRequests = {} /\ NoUser \notin Users
  /\ FirstRole \in [Founders -> Roles] /\ Superusers \subseteq Founders
  /\ \E u \in Founders : FirstRole[u] = "owner"
  /\ FirstEmail \in [Founders -> Emails] /\ NoRole \notin Roles

VARIABLES
  user,   \* committed rows; a new user is named by the request
  orgs,   \* slugs of the committed organisations
  acc,    \* where each request is
  plan,   \* what it is about to write
  ended   \* history: the requests that were over when this one read

accountVars == <<user, orgs, acc, plan, ended>>

NoRow  == [email |-> "none", org |-> 0, role |-> NoRole]
NoPlan == [row |-> NoRow, target |-> NoUser, was |-> NoRole]

AccountRows ==
  [email : Emails \cup {"none"}, org : 0..Cardinality(AccountRequests),
   role : Roles \cup {NoRole}]
Present == {u \in Users : user[u] # NoRow}
Closed  == {"done", "refused", "conflict"}

AccountTypeOK ==
  /\ user \in [Users -> AccountRows]
  /\ orgs \in SUBSET (0..Cardinality(AccountRequests))
  /\ acc \in [AccountRequests ->
                {"idle", "registering", "changing"} \cup Closed]
  /\ plan \in [AccountRequests ->
                 [row : AccountRows, target : Users \cup {NoUser},
                  was : Roles \cup {NoRole}]]
  /\ ended \in [AccountRequests -> SUBSET AccountRequests]

AccountInit ==
  /\ user = [u \in Users |->
               IF u \in Founders
               THEN [email |-> FirstEmail[u], org |-> 0,
                     role |-> FirstRole[u]]
               ELSE NoRow]
  /\ orgs = {0}
  /\ acc = [r \in AccountRequests |-> "idle"]
  /\ plan = [r \in AccountRequests |-> NoPlan]
  /\ ended = [r \in AccountRequests |-> {}]

-----------------------------------------------------------------------------

Reads(r, to, what) ==
  /\ acc[r] = "idle" /\ acc' = [acc EXCEPT ![r] = to]
  /\ plan' = [plan EXCEPT ![r] = what]
  /\ ended' = [ended EXCEPT ![r] = {x \in AccountRequests : acc[x] \in Closed}]
  /\ UNCHANGED <<user, orgs>>

Ends(r, from, to) ==
  /\ acc[r] = from /\ acc' = [acc EXCEPT ![r] = to]
  /\ UNCHANGED <<plan, ended>>

Overlap(r, x) == r # x /\ r \notin ended[x] /\ x \notin ended[r]

EmailTaken(e) == \E u \in Present : user[u].email = e

-----------------------------------------------------------------------------
(* register_user                                                           *)

\* assign_role_on_register
RoleOnRegister(founding) == IF founding THEN "owner" ELSE "viewer"

\* Mutant: the base is taken without looking.
BaseSlug == 0

\* _ensure_unique_slug counts up from the base.
FreeSlug == CHOOSE n \in 0..Cardinality(orgs) :
              n \notin orgs /\ \A k \in 0..(n - 1) : k \in orgs

\* With a slug the user joins that organisation, an unknown one is a 400;
\* without, a new one.  A taken e-mail is a 409.
Register(r, e, joins, slug) ==
  LET org == IF joins THEN slug ELSE FreeSlug
      new == [email |-> e, org |-> org, role |-> RoleOnRegister(~joins)]
  IN  IF EmailTaken(e) \/ (joins /\ slug \notin orgs)
      THEN Reads(r, "refused", NoPlan)
      ELSE Reads(r, "registering", [NoPlan EXCEPT !.row = new])

Founding(r) == plan[r].row.role = "owner"

\* The unique indexes of users.email and organizations.slug.
Registers(r) ==
  /\ ~EmailTaken(plan[r].row.email)
  /\ Founding(r) => plan[r].row.org \notin orgs

\* Organisation and user are committed together, or the INSERT that meets
\* an index raises, a 500.
CommitRegister(r) ==
  /\ Ends(r, "registering", IF Registers(r) THEN "done" ELSE "conflict")
  /\ user' = IF Registers(r)
             THEN [user EXCEPT ![r] = plan[r].row] ELSE user
  /\ orgs' = IF Registers(r) THEN orgs \cup {plan[r].row.org} ELSE orgs

-----------------------------------------------------------------------------
(* change_member_role                                                      *)

RoleRank(u) == Rank[user[u].role]

\* has_role_at_least
AtLeast(u, role) == u \in Superusers \/ RoleRank(u) >= Rank[role]

Owners(org) == {u \in Present : user[u].org = org /\ user[u].role = "owner"}

\* Mutant: a user who may be demoted is anybody but oneself.
OwnerMayGoUnlessSelf(actor, target, role) ==
  user[target].role = "owner" /\ role # "owner" => actor # target

\* Last-owner protection
OwnerMayGo(actor, target, role) ==
  user[target].role = "owner" /\ role # "owner"
    => Cardinality(Owners(user[target].org)) > 1

\* An admin or more, of the organisation, who grants no more than his own
\* role; a superuser anywhere.
MayChange(actor, target, role, slug) ==
  /\ AtLeast(actor, "admin")
  /\ slug \in orgs /\ (actor \in Superusers \/ user[actor].org = slug)
  /\ user[target].org = slug
  /\ AtLeast(actor, role)
  /\ OwnerMayGo(actor, target, role)

ChangeRole(r, actor, target, role, slug) ==
  IF MayChange(actor, target, role, slug)
  THEN Reads(r, "changing", [row |-> [user[target] EXCEPT !.role = role],
                             target |-> target, was |-> user[target].role])
  ELSE Reads(r, "refused", NoPlan)

\* The UPDATE of one column, which is left out when the role is the same.
CommitRole(r) ==
  /\ Ends(r, "changing", "done")
  /\ user' = IF plan[r].row.role = plan[r].was THEN user
             ELSE [user EXCEPT ![plan[r].target].role = plan[r].row.role]
  /\ UNCHANGED orgs

\* The transaction is rolled back.
AccountAborted(r) ==
  /\ \E from \in {"registering", "changing"} : Ends(r, from, "refused")
  /\ UNCHANGED <<user, orgs>>

AccountNext == \E r \in AccountRequests :
  \/ \E e \in Emails, joins \in BOOLEAN, slug \in 0..1 :
       Register(r, e, joins, slug)
  \/ \E actor, target \in Present, role \in Roles :
       \E slug \in {user[actor].org, user[target].org} :
         ChangeRole(r, actor, target, role, slug)
  \/ CommitRegister(r) \/ CommitRole(r) \/ AccountAborted(r)

AccountSpec == AccountInit /\ [][AccountNext]_accountVars

-----------------------------------------------------------------------------
(* Properties                                                              *)

Lowered(r) ==
  /\ acc[r] = "done" /\ plan[r].target # NoUser
  /\ plan[r].row.role \notin {plan[r].was, "owner"}

\* An organisation is without an owner only after two requests that overlapped
\* each gave one of its users another role than owner: the owners are counted
\* before the change is written, and nothing locks them (orgs.py:78-93).
\* Either both took it from an owner, or one wrote over a promotion that it
\* had not seen.
OwnerlessOnlyFromOverlap ==
  \A org \in orgs : Owners(org) = {} =>
    \E r, x \in AccountRequests :
      /\ Lowered(r) /\ Lowered(x) /\ Overlap(r, x)
      /\ plan[r].row.org = org /\ plan[x].row.org = org

\* A registration ends in a 500 only if another was under way at the same
\* time and took its e-mail or its slug: what the checks let through, the
\* indexes refuse for no other reason (auth_service.py:41-47, 181-187).
ConflictOnlyFromOverlap ==
  \A r \in AccountRequests : acc[r] = "conflict" =>
    \E x \in AccountRequests :
      /\ Overlap(r, x) /\ acc[x] = "done" /\ plan[x].target = NoUser
      /\ \/ plan[x].row.email = plan[r].row.email
         \/ plan[x].row.org = plan[r].row.org

=============================================================================
