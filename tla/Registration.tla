---------------------------- MODULE Registration ----------------------------
(***************************************************************************)
(* Organizations and users come to be in requests that look first and      *)
(* commit later, one row after the other: register_tenant, register_user   *)
(* (app/routes/auth.py), provision_user (governance.py), and a guest's     *)
(* first request, which makes the default organization (dependencies.py).  *)
(***************************************************************************)
EXTENDS FiniteSets

CONSTANTS
    Client,     \* the requests, each of which may stop at any step
    Slug, Email,
    Default,    \* the slug of the guests' organization
    None

\* Assumed of the constants; an instance states it for the values it gives them.
RegistrationAssumption == Default \in Slug /\ None \notin Slug \cup Email \cup Client

VARIABLES
    orgs,       \* rows of organizations: their slug and the request they come from
    departments,    \* requests whose department is stored
    users,      \* rows of users: email, organization (its request), request
    client      \* the requests

regVars == <<orgs, departments, users, client>>

Kind == {"tenant", "user", "guest"}
Fresh == [kind |-> "none", pc |-> "idle", slug |-> None, email |-> None, org |-> None]

RegInit ==
    /\ orgs = {}
    /\ departments = {}
    /\ users = {}
    /\ client = [c \in Client |-> Fresh]

-----------------------------------------------------------------------------
(* Helpers.                                                                *)

Goto(c, pc) == client' = [client EXCEPT ![c].pc = pc]

OrgOf(slug) == {o \in orgs : o.slug = slug}
UserOf(email) == {u \in users : u.email = email}

-----------------------------------------------------------------------------
(* Mutants.                                                                *)

\* organizations.slug without its unique index.
CreateOrg_NotUnique(c) ==
    /\ client[c].pc = "org"
    /\ orgs' = orgs \cup {[slug |-> client[c].slug, by |-> c]}
    /\ client' = [client EXCEPT ![c].org = c,
                                ![c].pc = IF client[c].kind = "guest" THEN "ok" ELSE "department"]
    /\ UNCHANGED <<departments, users>>

-----------------------------------------------------------------------------
(* The look-ups.                                                           *)

\* get_org_by_slug: a tenant's slug must be free; a guest takes what is there.
LookForSlug(c) ==
    /\ client[c].pc = "idle"
    /\ \E kind \in {"tenant", "guest"}, email \in Email :
          \E slug \in (IF kind = "guest" THEN {Default} ELSE Slug) :
             LET found == OrgOf(slug)
                 pc == IF kind = "tenant"
                       THEN IF found = {} THEN "email" ELSE "refused"
                       ELSE IF found = {} THEN "org" ELSE "ok"
                 org == IF pc = "ok" THEN (CHOOSE o \in found : TRUE).by ELSE None
             IN client' = [client EXCEPT ![c] =
                    [kind |-> kind, pc |-> pc, slug |-> slug, org |-> org,
                     email |-> IF kind = "guest" THEN None ELSE email]]
    /\ UNCHANGED <<orgs, departments, users>>

\* get_org_by_id, or the organization of the administrator who provisions.
LookForOrg(c) ==
    /\ client[c].pc = "idle"
    /\ \E o \in orgs, email \in Email :
          client' = [client EXCEPT ![c] = [kind |-> "user", pc |-> "email", slug |-> None,
                                           org |-> o.by, email |-> email]]
    /\ UNCHANGED <<orgs, departments, users>>

\* get_by_email.
LookForEmail(c) ==
    /\ client[c].pc = "email"
    /\ Goto(c, IF UserOf(client[c].email) # {} THEN "refused"
               ELSE IF client[c].kind = "tenant" THEN "org" ELSE "account")
    /\ UNCHANGED <<orgs, departments, users>>

-----------------------------------------------------------------------------
(* The commits: a slug or an email taken meanwhile raises IntegrityError.  *)

CreateOrg(c) ==
    /\ client[c].pc = "org"
    /\ OrgOf(client[c].slug) = {}
    /\ orgs' = orgs \cup {[slug |-> client[c].slug, by |-> c]}
    /\ client' = [client EXCEPT ![c].org = c,
                                ![c].pc = IF client[c].kind = "guest" THEN "ok" ELSE "department"]
    /\ UNCHANGED <<departments, users>>

CreateDepartment(c) ==
    /\ client[c].pc = "department"
    /\ departments' = departments \cup {c}
    /\ Goto(c, "account")
    /\ UNCHANGED <<orgs, users>>

CreateUser(c) ==
    /\ client[c].pc = "account"
    /\ UserOf(client[c].email) = {}
    /\ users' = users \cup {[email |-> client[c].email, org |-> client[c].org, by |-> c]}
    /\ Goto(c, "ok")
    /\ UNCHANGED <<orgs, departments>>

\* A commit raises, or the process stops: what was committed before stays.
CommitFails(c) ==
    /\ client[c].pc \in {"org", "department", "account"}
    /\ Goto(c, "error")
    /\ UNCHANGED <<orgs, departments, users>>

RegNext ==
    \E c \in Client :
        \/ LookForSlug(c) \/ LookForOrg(c) \/ LookForEmail(c)
        \/ CreateOrg(c) \/ CreateDepartment(c) \/ CreateUser(c) \/ CommitFails(c)

RegSpec == RegInit /\ [][RegNext]_regVars

-----------------------------------------------------------------------------
(* Properties.                                                             *)

\* Whoever is told that the registration succeeded has the organization, its
\* department and the account to themselves, whichever requests looked at the
\* same slug or email at the same time; and the guests share one organization
\* (register_tenant, register_user, resolve_effective_user).
RegisteredIsWhole ==
    \A c \in Client : client[c].pc = "ok" =>
        /\ client[c].kind # "guest" =>
              UserOf(client[c].email) =
                  {[email |-> client[c].email, org |-> client[c].org, by |-> c]}
        /\ client[c].kind # "user" =>
              OrgOf(client[c].slug) = {[slug |-> client[c].slug, by |-> client[c].org]}
        /\ client[c].kind = "tenant" => client[c].org = c /\ c \in departments
        /\ \E o \in orgs : o.by = client[c].org
=============================================================================
