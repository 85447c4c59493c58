--------------------------- MODULE Requests_proofs ---------------------------
(***************************************************************************)
(* Proofs about requests that race on rows and caches: registrations (R), *)
(* updates of a job (J), the catalog of a tenant (K).  They hold for any   *)
(* requests and rows and any values of the bounds of MCRequests.           *)
(***************************************************************************)
EXTENDS MCRequests, Integers, FiniteSets, TLAPS

-----------------------------------------------------------------------------
(* One part runs, by its own steps.                                         *)

\* A step is one of the part that runs, or changes nothing of it.
LEMMA Parts ==
    ASSUME [Next]_vars
    PROVE  /\ part' = part
           /\ part = "graph" => [G!RagNext]_(G!ragVars)
           /\ part = "blackboard" => [B!BoardNext]_(B!boardVars)
           /\ part = "catalog" => [K!CatalogNext]_(K!catalogVars)
           /\ part = "registration" => [R!RegNext]_(R!regVars)
           /\ part = "job" => [J!JobNext]_(J!jobVars)
<1>1. part' = part
  BY DEF Next, vars, InTurn, InGraph, InBlackboard, InCatalog, InRegistration, InJob
<1>2. CASE part = "graph"
  BY <1>1, <1>2 DEF Next, vars, gVars, G!RagNext, G!ragVars,
                    InTurn, InGraph, InBlackboard, InCatalog, InRegistration, InJob
<1>3. CASE part = "blackboard"
  BY <1>1, <1>3 DEF Next, vars, bVars, B!BoardNext, B!boardVars,
                    InTurn, InGraph, InBlackboard, InCatalog, InRegistration, InJob
<1>4. CASE part = "catalog"
  BY <1>1, <1>4 DEF Next, vars, kVars, K!CatalogNext, K!catalogVars,
                    InTurn, InGraph, InBlackboard, InCatalog, InRegistration, InJob
<1>5. CASE part = "registration"
  BY <1>1, <1>5 DEF Next, vars, rVars, R!RegNext, R!regVars,
                    InTurn, InGraph, InBlackboard, InCatalog, InRegistration, InJob
<1>6. CASE part = "job"
  BY <1>1, <1>6 DEF Next, vars, jVars, J!JobNext, J!jobVars,
                    InTurn, InGraph, InBlackboard, InCatalog, InRegistration, InJob
<1> QED  BY <1>1, <1>2, <1>3, <1>4, <1>5, <1>6

-----------------------------------------------------------------------------
(* Registrations.  Rows are only added, and the unique indexes admit one    *)
(* per slug and per email: what a request has committed is its own for good.*)

RegTypeOK ==
    /\ orgs \subseteq [slug : Slug, by : Client]
    /\ departments \subseteq Client
    /\ users \subseteq [email : Email, org : Client, by : Client]
    /\ client \in [Client -> [kind : R!Kind \cup {"none"},
                              pc : {"idle", "email", "org", "department", "account",
                                    "ok", "refused", "error"},
                              slug : Slug \cup {None}, email : Email \cup {None},
                              org : Client \cup {None}]]

UniqueIndexes ==
    /\ \A o, p \in orgs : o.slug = p.slug => o = p
    /\ \A u, v \in users : u.email = v.email => u = v

\* What the request carries at each step.
Carries(c) ==
    /\ client[c].pc \in {"department", "org"} => client[c].kind # "user"
    /\ client[c].pc \in {"email", "department", "account"} =>
          client[c].kind \in {"tenant", "user"}
    /\ client[c].pc \in {"email", "org", "department", "account", "ok"} =>
          /\ client[c].kind \in R!Kind
          /\ client[c].kind # "user" => client[c].slug \in Slug
          /\ client[c].kind # "guest" => client[c].email \in Email

\* A tenant's request that has committed its organization, a guest's that ends.
OwnsOrg == {<<"tenant", "department">>, <<"tenant", "account">>, <<"tenant", "ok">>,
            <<"guest", "ok">>}

\* What the request has committed, or found committed.
Committed(c) ==
    /\ client[c].kind = "user" /\ client[c].pc \in {"email", "account", "ok"} =>
          \E o \in orgs : o.by = client[c].org
    /\ client[c].kind = "tenant" /\ client[c].pc \in {"department", "account", "ok"} =>
          client[c].org = c
    /\ client[c].kind = "tenant" /\ client[c].pc \in {"account", "ok"} => c \in departments
    /\ <<client[c].kind, client[c].pc>> \in OwnsOrg =>
          [slug |-> client[c].slug, by |-> client[c].org] \in orgs
    /\ client[c].kind # "guest" /\ client[c].pc = "ok" =>
          [email |-> client[c].email, org |-> client[c].org, by |-> c] \in users

RegInv ==
    /\ RegTypeOK
    /\ UniqueIndexes
    /\ \A c \in Client : Carries(c) /\ Committed(c)

\* What LookForSlug does of its choices.
LookedUp(c, kind, email, slug) ==
    LET found == R!OrgOf(slug)
        at == IF kind = "tenant"
              THEN IF found = {} THEN "email" ELSE "refused"
              ELSE IF found = {} THEN "org" ELSE "ok"
        org == IF at = "ok" THEN (CHOOSE o \in found : TRUE).by ELSE None
    IN client' = [client EXCEPT ![c] =
           [kind |-> kind, pc |-> at, slug |-> slug, org |-> org,
            email |-> IF kind = "guest" THEN None ELSE email]]

\* What comes of it.
Finds(c, kind, email, slug, at, org) ==
    /\ at = "email" => kind = "tenant"
    /\ at = "org" => kind = "guest"
    /\ at = "ok" => kind = "guest" /\ [slug |-> slug, by |-> org] \in orgs
    /\ client' = [client EXCEPT ![c] =
          [kind |-> kind, pc |-> at, slug |-> slug, org |-> org,
           email |-> IF kind = "guest" THEN None ELSE email]]

\* A look for a slug finds nothing and goes on, is refused, or gives a guest
\* the organization that is there.
LEMMA LookForSlugFinds ==
    ASSUME R!RegistrationAssumption, RegTypeOK, NEW c \in Client, R!LookForSlug(c)
    PROVE  \E kind \in {"tenant", "guest"}, email \in Email, slug \in Slug,
              at \in {"email", "org", "refused", "ok"}, org \in Client \cup {None} :
             Finds(c, kind, email, slug, at, org)
<1>1. PICK kind \in {"tenant", "guest"}, email \in Email, slug \in Slug :
         LookedUp(c, kind, email, slug)
  <2>1. PICK kind \in {"tenant", "guest"}, email \in Email :
          \E slug \in (IF kind = "guest" THEN {Default} ELSE Slug) :
             LookedUp(c, kind, email, slug)
    BY DEF R!LookForSlug, LookedUp
  <2> QED  BY <2>1 DEF R!RegistrationAssumption
<1>2. CASE R!OrgOf(slug) = {}
  <2>1. Finds(c, kind, email, slug, IF kind = "tenant" THEN "email" ELSE "org", None)
    BY <1>1, <1>2 DEF LookedUp, Finds
  <2> QED  BY <2>1
<1>4. CASE R!OrgOf(slug) # {} /\ kind = "tenant"
  <2>1. Finds(c, kind, email, slug, "refused", None)
    BY <1>1, <1>4 DEF LookedUp, Finds
  <2> QED  BY <2>1
<1>3. CASE R!OrgOf(slug) # {} /\ kind = "guest"
  <2> DEFINE o == CHOOSE o \in R!OrgOf(slug) : TRUE
  <2>1. o \in orgs /\ o.slug = slug
    BY <1>3 DEF R!OrgOf
  <2>2. [slug |-> slug, by |-> o.by] \in orgs /\ o.by \in Client
    <3>1. o = [slug |-> slug, by |-> o.by] /\ o.by \in Client
      BY <2>1 DEF RegTypeOK
    <3> QED  BY <2>1, <3>1
  <2>3. Finds(c, kind, email, slug, "ok", o.by)
    BY <1>1, <1>3, <2>2 DEF LookedUp, Finds
  <2> QED  BY <2>2, <2>3
<1> QED  BY <1>2, <1>3, <1>4

\* Every step keeps the invariant.
LEMMA RegInvStep ==
    ASSUME R!RegistrationAssumption, RegInv, [R!RegNext]_(R!regVars)
    PROVE  RegInv'
<1> USE DEF RegInv, RegTypeOK, UniqueIndexes, Carries, Committed, OwnsOrg, R!Kind
<1>1. ASSUME NEW c \in Client, R!LookForSlug(c)
      PROVE  RegInv'
  <2>1. PICK kind \in {"tenant", "guest"}, email \in Email, slug \in Slug,
             at \in {"email", "org", "refused", "ok"}, org \in Client \cup {None} :
             Finds(c, kind, email, slug, at, org)
    BY <1>1, LookForSlugFinds
  <2>2. UNCHANGED <<orgs, departments, users>>
    BY <1>1 DEF R!LookForSlug
  <2>3. RegTypeOK' /\ UniqueIndexes'
    BY <2>1, <2>2 DEF Finds
  <2>4. ASSUME NEW x \in Client PROVE Carries(x)' /\ Committed(x)'
    <3>1. CASE x = c
      BY <2>1, <2>2, <3>1 DEF Finds
    <3>2. CASE x # c
      BY <2>1, <2>2, <3>2 DEF Finds
    <3> QED  BY <3>1, <3>2
  <2> HIDE DEF RegTypeOK, UniqueIndexes, Carries, Committed
  <2> QED  BY <2>3, <2>4
<1>2. ASSUME NEW c \in Client, R!LookForOrg(c)
      PROVE  RegInv'
  BY <1>2 DEF R!LookForOrg, R!RegistrationAssumption
<1>3. ASSUME NEW c \in Client, R!LookForEmail(c)
      PROVE  RegInv'
  BY <1>3 DEF R!LookForEmail, R!Goto
<1>4. ASSUME NEW c \in Client, R!CreateOrg(c)
      PROVE  RegInv'
  BY <1>4 DEF R!CreateOrg, R!OrgOf
<1>5. ASSUME NEW c \in Client, R!CreateDepartment(c)
      PROVE  RegInv'
  BY <1>5 DEF R!CreateDepartment, R!Goto
<1>6. ASSUME NEW c \in Client, R!CreateUser(c)
      PROVE  RegInv'
  <2>1. client[c].email \in Email /\ client[c].org \in Client
    BY <1>6 DEF R!CreateUser
  <2>2. /\ UniqueIndexes'
        /\ [email |-> client[c].email, org |-> client[c].org, by |-> c] \in users'
        /\ users \subseteq users' /\ users' \subseteq [email : Email, org : Client, by : Client]
    BY <1>6, <2>1 DEF R!CreateUser, R!UserOf
  <2>3. /\ client' = [client EXCEPT ![c].pc = "ok"] /\ client[c].pc = "account"
        /\ UNCHANGED <<orgs, departments>>
    BY <1>6 DEF R!CreateUser, R!Goto
  <2>4. RegTypeOK'
    BY <2>2, <2>3
  <2>5. ASSUME NEW x \in Client PROVE Carries(x)' /\ Committed(x)'
    <3>1. CASE x = c
      BY <2>2, <2>3, <3>1
    <3>2. CASE x # c
      BY <2>2, <2>3, <3>2
    <3> QED  BY <3>1, <3>2
  <2> HIDE DEF RegTypeOK, UniqueIndexes, Carries, Committed
  <2> QED  BY <2>2, <2>4, <2>5
<1>7. ASSUME NEW c \in Client, R!CommitFails(c)
      PROVE  RegInv'
  BY <1>7 DEF R!CommitFails, R!Goto
<1>8. CASE UNCHANGED R!regVars
  BY <1>8 DEF R!regVars
<1> QED  BY <1>1, <1>2, <1>3, <1>4, <1>5, <1>6, <1>7, <1>8 DEF R!RegNext

\* The rows that a finished request has are the only ones of their slug and
\* their email.
LEMMA RegInvWhole ==
    ASSUME RegInv
    PROVE  R!RegisteredIsWhole
<1> SUFFICES ASSUME NEW c \in Client, client[c].pc = "ok"
             PROVE  /\ client[c].kind # "guest" =>
                          R!UserOf(client[c].email) = {[email |-> client[c].email,
                              org |-> client[c].org, by |-> c]}
                    /\ client[c].kind # "user" =>
                          R!OrgOf(client[c].slug) =
                              {[slug |-> client[c].slug, by |-> client[c].org]}
                    /\ client[c].kind = "tenant" => client[c].org = c /\ c \in departments
                    /\ \E o \in orgs : o.by = client[c].org
  BY DEF R!RegisteredIsWhole
<1>1. client[c].kind \in {"tenant", "user", "guest"} /\ Committed(c)
  BY DEF RegInv, Carries, R!Kind
<1>2. client[c].kind # "user" => [slug |-> client[c].slug, by |-> client[c].org] \in orgs
  BY <1>1 DEF Committed, OwnsOrg
<1>3. client[c].kind # "user" =>
        R!OrgOf(client[c].slug) = {[slug |-> client[c].slug, by |-> client[c].org]}
  BY <1>2 DEF R!OrgOf, RegInv, UniqueIndexes
<1>4. client[c].kind # "guest" =>
        R!UserOf(client[c].email) =
            {[email |-> client[c].email, org |-> client[c].org, by |-> c]}
  BY <1>1 DEF R!UserOf, RegInv, UniqueIndexes, Committed
<1> QED  BY <1>1, <1>2, <1>3, <1>4 DEF Committed

\* Whichever requests race for a slug or an email, one that succeeds has the
\* organization, the department and the account to itself (register_tenant,
\* register_user, provision_user, resolve_effective_user).
THEOREM RegisteredIsWholeAlways == Spec => []RegisteredIsWhole
<1> DEFINE Inv == part = "registration" => RegInv
<1>1. Init => Inv
  BY BoundsAssumption DEF Init, R!RegInit, R!Fresh, R!Kind, RegInv, RegTypeOK, UniqueIndexes, Carries, Committed,
     OwnsOrg
<1>2. Inv /\ [Next]_vars => Inv'
  BY Parts, RegInvStep, BoundsAssumption
<1>3. Inv => RegisteredIsWhole
  BY RegInvWhole DEF RegisteredIsWhole
<1> QED  BY <1>1, <1>2, <1>3, PTL DEF Spec

-----------------------------------------------------------------------------
(* Updates of a job.  While the last change of the label is the only one at  *)
(* work, the documents it has left behind agree with the job.                *)

JobTypeOK ==
    /\ job \in Label
    /\ row \in [Doc -> Label] /\ points \in [Doc -> Label] /\ chunks \in [Doc -> Label]
    /\ update \in [Admin -> [pc : {"idle", "commit", "list", "row", "points", "chunks"},
                             label : Label, old : Label, left : SUBSET Doc, at : SUBSET Doc]]
    /\ sound \in BOOLEAN

Agrees(d) == row[d] = job /\ points[d] = job /\ chunks[d] = job

\* The stores that the update has reached with the document at hand.
AtHand(a) ==
    /\ update[a].pc = "row" => update[a].left # {}
    /\ update[a].pc \in {"points", "chunks"} =>
          \E d \in update[a].left : update[a].at = {d}
    /\ update[a].pc \in {"points", "chunks"} => \A d \in update[a].at : row[d] = job
    /\ update[a].pc = "chunks" => \A d \in update[a].at : points[d] = job

\* What is true of the one relabelling that runs.
Alone(a) ==
    /\ update[a].label = job
    /\ AtHand(a)
    /\ update[a].pc # "list" => \A d \in Doc \ update[a].left : Agrees(d)

Healthy ==
    /\ \A a, b \in J!Relabelling : a = b
    /\ \A a \in J!Relabelling : Alone(a)
    /\ J!Relabelling = {} => \A d \in Doc : Agrees(d)

JobInv == JobTypeOK /\ (sound => Healthy)

\* Every step of a change of a job keeps the types.
LEMMA JobTyping ==
    ASSUME J!JobUpdateAssumption, JobTypeOK, [J!JobNext]_(J!jobVars)
    PROVE  JobTypeOK'
<1> USE DEF JobTypeOK, J!Idle, J!JobUpdateAssumption
<1>1. ASSUME NEW a \in Admin, NEW label \in Label, J!Begin(a, label) PROVE JobTypeOK'
  BY <1>1 DEF J!Begin, J!labels
<1>2. ASSUME NEW a \in Admin, J!Commit(a) PROVE JobTypeOK'
  <2>1. CASE J!Changed(a)
    BY <1>2, <2>1 DEF J!Commit, J!Goto, J!labels
  <2>2. CASE ~J!Changed(a)
    BY <1>2, <2>2 DEF J!Commit, J!labels
  <2> QED  BY <2>1, <2>2
<1>3. ASSUME NEW a \in Admin, J!List(a) PROVE JobTypeOK'
  BY <1>3 DEF J!List, J!labels, J!ToRelabel
<1>4. ASSUME NEW a \in Admin, J!Breaks(a) PROVE JobTypeOK'
  BY <1>4 DEF J!Breaks, J!labels
<1>5. ASSUME NEW a \in Admin, NEW d \in Doc, J!RelabelRow(a, d) PROVE JobTypeOK'
  BY <1>5 DEF J!RelabelRow
<1>6. ASSUME NEW a \in Admin, NEW d \in Doc, J!RelabelPoints(a, d) PROVE JobTypeOK'
  BY <1>6 DEF J!RelabelPoints, J!Goto
<1>7. ASSUME NEW a \in Admin, NEW d \in Doc, J!RelabelChunks(a, d) PROVE JobTypeOK'
  <2>1. CASE update[a].left \ {d} = {}
    BY <1>7, <2>1 DEF J!RelabelChunks, J!DocumentDone
  <2>2. CASE update[a].left \ {d} # {}
    BY <1>7, <2>2 DEF J!RelabelChunks, J!DocumentDone
  <2> QED  BY <2>1, <2>2
<1>8. CASE UNCHANGED J!jobVars
  BY <1>8 DEF J!jobVars
<1> QED  BY <1>1, <1>2, <1>3, <1>4, <1>5, <1>6, <1>7, <1>8 DEF J!JobNext

\* Every step keeps the invariant.
LEMMA JobInvStep ==
    ASSUME J!JobUpdateAssumption, JobInv, [J!JobNext]_(J!jobVars)
    PROVE  JobInv'
<1> SUFFICES ASSUME sound'
             PROVE  Healthy'
  BY JobTyping DEF JobInv
<1> JobTypeOK /\ JobTypeOK'
  BY JobTyping DEF JobInv
<1> USE DEF JobInv, Healthy, J!Relabelling, Alone, AtHand, Agrees, JobTypeOK, J!Idle
<1>1. ASSUME NEW a \in Admin, NEW label \in Label, J!Begin(a, label)
      PROVE  Healthy'
  BY <1>1 DEF J!Begin, J!labels
<1>2. ASSUME NEW a \in Admin, J!Commit(a)
      PROVE  Healthy'
  <2>1. CASE J!Changed(a)
    <3>1. J!Relabelling = {}
      BY <1>2, <2>1 DEF J!Commit
    <3>2. /\ update' = [update EXCEPT ![a].pc = "list"] /\ job' = update[a].label
          /\ update[a].pc = "commit"
      BY <1>2, <2>1 DEF J!Commit, J!Goto
    <3>3. update'[a].pc = "list" /\ update'[a].label = job'
      BY <3>2
    <3>4. \A b \in Admin \ {a} : update'[b].pc \in {"idle", "commit"}
      BY <3>1, <3>2
    <3> QED  BY <3>3, <3>4
  <2>2. CASE ~J!Changed(a)
    <3>1. /\ update' = [update EXCEPT ![a] = J!Idle] /\ update[a].pc = "commit" /\ sound
          /\ UNCHANGED <<job, row, points, chunks>>
      BY <1>2, <2>2 DEF J!Commit, J!labels
    <3> QED  BY <3>1
  <2> QED  BY <2>1, <2>2
<1>3. ASSUME NEW a \in Admin, J!List(a)
      PROVE  Healthy'
  BY <1>3 DEF J!List, J!labels, J!ToRelabel
<1>4. ASSUME NEW a \in Admin, J!Breaks(a)
      PROVE  Healthy'
  <2>1. /\ sound /\ a \notin J!Relabelling
        /\ update' = [update EXCEPT ![a] = J!Idle]
        /\ UNCHANGED <<job, row, points, chunks>>
    <3> HIDE DEF J!Relabelling
    <3> QED  BY <1>4 DEF J!Breaks, J!labels
  <2> QED  BY <2>1
<1>5. ASSUME NEW a \in Admin, NEW e \in Doc, J!RelabelRow(a, e)
      PROVE  Healthy'
  BY <1>5 DEF J!RelabelRow
<1>6. ASSUME NEW a \in Admin, NEW e \in Doc, J!RelabelPoints(a, e)
      PROVE  Healthy'
  <2>1. /\ sound /\ points' = [points EXCEPT ![e] = update[a].label]
        /\ update' = [update EXCEPT ![a].pc = "chunks"]
        /\ update[a].pc = "points" /\ update[a].at = {e}
        /\ UNCHANGED <<job, row, chunks>>
    BY <1>6 DEF J!RelabelPoints, J!Goto
  <2>2. update[a].label = job /\ \A b \in J!Relabelling : b = a
    BY <2>1
  <2> QED  BY <2>1, <2>2
<1>7. ASSUME NEW a \in Admin, NEW e \in Doc, J!RelabelChunks(a, e)
      PROVE  Healthy'
  <2>1. /\ sound /\ chunks' = [chunks EXCEPT ![e] = update[a].label]
        /\ update[a].pc = "chunks" /\ update[a].at = {e}
        /\ UNCHANGED <<job, row, points>>
    BY <1>7 DEF J!RelabelChunks
  <2>2. /\ update[a].label = job
        /\ \A b \in Admin \ {a} : update[b].pc \in {"idle", "commit"}
    BY <2>1
  <2>3. \A d \in (Doc \ update[a].left) \cup {e} : Agrees(d)'
    BY <2>1, <2>2
  <2>4. CASE update[a].left \ {e} = {}
    <3>1. update' = [update EXCEPT ![a] = J!Idle]
      BY <1>7, <2>4 DEF J!RelabelChunks, J!DocumentDone
    <3> QED  BY <2>2, <2>3, <2>4, <3>1
  <2>5. CASE update[a].left \ {e} # {}
    <3>1. update' = [update EXCEPT ![a] =
              [update[a] EXCEPT !.pc = "row", !.left = update[a].left \ {e}, !.at = {}]]
      BY <1>7, <2>5 DEF J!RelabelChunks, J!DocumentDone
    <3>2. /\ update'[a].pc = "row" /\ update'[a].label = job'
          /\ update'[a].left = update[a].left \ {e} /\ update'[a].left # {}
      BY <2>1, <2>2, <2>5, <3>1
    <3>3. \A b \in Admin \ {a} : update'[b] = update[b]
      BY <3>1
    <3> QED  BY <2>1, <2>2, <2>3, <3>2, <3>3
  <2> QED  BY <2>4, <2>5
<1>8. CASE UNCHANGED J!jobVars
  BY <1>8 DEF J!jobVars
<1> QED  BY <1>1, <1>2, <1>3, <1>4, <1>5, <1>6, <1>7, <1>8 DEF J!JobNext

\* However many updates of a job run, fail half-way and race, one that changes
\* the label, runs alone and meets no error leaves all stores of all documents
\* with the label of the job (update_job).
THEOREM ChangeHealsAlways == Spec => []ChangeHeals
<1> DEFINE Inv == part = "job" => JobInv
<1>1. Init => Inv
  BY BoundsAssumption DEF Init, J!JobInit, J!Idle, J!JobUpdateAssumption, JobInv, JobTypeOK,
     Healthy, J!Relabelling, Agrees
<1>2. Inv /\ [Next]_vars => Inv'
  BY Parts, JobInvStep, BoundsAssumption
<1>3. Inv => ChangeHeals
  BY DEF JobInv, Healthy, J!ChangeHeals, Agrees, ChangeHeals
<1> QED  BY <1>1, <1>2, <1>3, PTL DEF Spec

-----------------------------------------------------------------------------
(* The catalog.  An entry of Redis outlives the reading it holds by one life *)
(* and one request, an entry of a process by two lives and one request.      *)

CatalogTypeOK ==
    /\ now \in Nat
    /\ l1 \in [Proc -> [read : Nat, expires : Nat]]
    /\ l2 \in [read : Nat, expires : Nat]
    /\ fill \in [Fill -> [pc : {"idle", "l2", "store", "reply"}, proc : Proc \cup {"none"},
                          begun : Nat, read : Nat]]

L1IsBounded == \A p \in Proc : l1[p].expires <= l1[p].read + 2 * Ttl + MaxFill
L2IsBounded == l2.expires <= l2.read + Ttl + MaxFill

\* No request runs longer than MaxFill, and what it stores it read meanwhile.
FillIsBounded(t) ==
    /\ fill[t].pc # "idle" =>
          /\ fill[t].proc \in Proc
          /\ fill[t].begun <= now /\ now <= fill[t].begun + MaxFill
    /\ fill[t].pc = "store" => fill[t].begun <= fill[t].read /\ fill[t].read <= now
    /\ fill[t].pc = "reply" => fill[t].begun <= fill[t].read + 2 * Ttl + MaxFill

CatalogInv ==
    /\ CatalogTypeOK
    /\ L1IsBounded
    /\ L2IsBounded
    /\ \A t \in Fill : FillIsBounded(t)

\* Every step of a request on the catalog keeps the ages in bounds.
LEMMA CatalogInvStep ==
    ASSUME K!CatalogAssumption, CatalogInv, [K!CatalogNext]_(K!catalogVars)
    PROVE  CatalogInv'
<1> USE DEF CatalogInv, CatalogTypeOK, L1IsBounded, L2IsBounded, FillIsBounded,
            K!CatalogAssumption, K!Idle, K!Nothing
<1>1. ASSUME NEW t \in Fill, NEW p \in Proc, K!ReadL1(t, p) PROVE CatalogInv'
  BY <1>1 DEF K!ReadL1, K!Valid
<1>2. ASSUME NEW t \in Fill, K!ReadL2(t) PROVE CatalogInv'
  <2>1. /\ fill[t].pc = "l2" /\ now < l2.expires
        /\ l1' = [l1 EXCEPT ![fill[t].proc] =
                     [read |-> l2.read, expires |-> fill[t].begun + Ttl]]
        /\ fill' = [fill EXCEPT ![t].pc = "reply", ![t].read = l2.read]
        /\ UNCHANGED <<now, l2>>
    BY <1>2 DEF K!ReadL2, K!Valid, K!Hydrate
  <2>2. /\ fill[t].proc \in Proc /\ fill[t].begun <= now
        /\ fill[t].begun + Ttl <= l2.read + 2 * Ttl + MaxFill
        /\ fill[t].begun <= l2.read + 2 * Ttl + MaxFill
    BY <2>1
  <2>3. CatalogTypeOK' /\ L2IsBounded'
    <3>1. [read |-> l2.read, expires |-> fill[t].begun + Ttl] \in [read : Nat, expires : Nat]
      OBVIOUS
    <3>2. l1' \in [Proc -> [read : Nat, expires : Nat]]
      BY <2>1, <2>2, <3>1
    <3>3. fill' \in [Fill -> [pc : {"idle", "l2", "store", "reply"},
                              proc : Proc \cup {"none"}, begun : Nat, read : Nat]]
      BY <2>1
    <3>4. now' \in Nat /\ l2' \in [read : Nat, expires : Nat] /\ L2IsBounded'
      BY <2>1
    <3> QED  BY <3>2, <3>3, <3>4
  <2>5. L1IsBounded'
    <3>1. fill[t].begun \in Nat /\ l2.read \in Nat /\ Ttl \in Nat /\ MaxFill \in Nat
      OBVIOUS
    <3>2. \A p \in Proc : l1'[p] = IF p = fill[t].proc
              THEN [read |-> l2.read, expires |-> fill[t].begun + Ttl] ELSE l1[p]
      BY <2>1
    <3> QED  BY <2>2, <3>1, <3>2
  <2>4. \A u \in Fill : FillIsBounded(u)'
    BY <2>1, <2>2
  <2> QED  BY <2>3, <2>4, <2>5
<1>3. ASSUME NEW t \in Fill, K!Fetch(t) PROVE CatalogInv'
  <2>1. /\ fill[t].pc = "l2" /\ fill' = [fill EXCEPT ![t].pc = "store", ![t].read = now]
        /\ UNCHANGED <<now, l1, l2>>
    BY <1>3 DEF K!Fetch
  <2>2. CatalogTypeOK' /\ L1IsBounded' /\ L2IsBounded'
    BY <2>1
  <2>3. \A u \in Fill : FillIsBounded(u)'
    BY <2>1
  <2> QED  BY <2>2, <2>3
<1>4. ASSUME NEW t \in Fill, K!Store(t) PROVE CatalogInv'
  BY <1>4 DEF K!Store, K!Hydrate
<1>5. ASSUME NEW t \in Fill, K!Reply(t) PROVE CatalogInv'
  BY <1>5 DEF K!Reply
<1>6. ASSUME NEW p \in Proc, K!Evict(p) PROVE CatalogInv'
  BY <1>6 DEF K!Evict
<1>7. CASE K!Tick
  BY <1>7 DEF K!Tick
<1>8. CASE UNCHANGED K!catalogVars
  BY <1>8 DEF K!catalogVars
<1> QED  BY <1>1, <1>2, <1>3, <1>4, <1>5, <1>6, <1>7, <1>8 DEF K!CatalogNext

\* However many processes, requests and evictions there are, the catalog of a
\* reply was read no longer ago than two lives of an entry and two requests
\* (get_tenant_catalog, evict).
THEOREM CatalogIsRecentAlways == Spec => []CatalogIsRecent
<1> DEFINE Inv == part = "catalog" => CatalogInv
<1>1. Init => Inv
  BY BoundsAssumption DEF Init, K!CatalogInit, K!Nothing, K!Idle, K!CatalogAssumption, CatalogInv,
     CatalogTypeOK, L1IsBounded, L2IsBounded, FillIsBounded
<1>2. Inv /\ [Next]_vars => Inv'
  BY Parts, CatalogInvStep, BoundsAssumption
<1>3. Inv => CatalogIsRecent
  BY BoundsAssumption DEF CatalogInv, CatalogTypeOK, FillIsBounded, K!CatalogIsRecent, K!CatalogAssumption,
     CatalogIsRecent
<1> QED  BY <1>1, <1>2, <1>3, PTL DEF Spec
=============================================================================
