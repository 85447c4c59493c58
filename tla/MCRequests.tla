------------------------------ MODULE MCRequests ------------------------------
(***************************************************************************)
(* What the server does in requests, part by part: a chat turn, the turns  *)
(* of the graph, what turns bind into statements, the catalog cache,       *)
(* registrations, updates of a job.  The parts share no variable, so that  *)
(* their interleavings show nothing that the parts do not.  part, chosen   *)
(* at the start, says which one runs; the others stay as they began.       *)
(***************************************************************************)
EXTENDS Turn

CONSTANTS
    Turns, Window, Kept, Attempts,              \* of the graph
    Person, None, Questions,                    \* of the working memory
    Proc, Fill, Ttl, MaxFill, MaxTime,          \* of the catalog
    Client, Slug, Default, Email,               \* of registrations
    Admin, Doc, Label, First, Updates           \* of updates of a job

VARIABLES part,
    carry, blackboard, state, node, turn, exchanged, lost,
    memory, saved, stage, query, bound, met, questions,
    now, l1, l2, fill,
    orgs, departments, users, client,
    job, row, points, chunks, update, updates, sound

G == INSTANCE RagGraph
B == INSTANCE Blackboard
K == INSTANCE CatalogCache WITH Turn <- Fill
R == INSTANCE Registration
J == INSTANCE JobUpdate

ASSUME BoundsAssumption ==
    /\ G!RagGraphAssumption /\ B!BlackboardAssumption /\ K!CatalogAssumption
    /\ R!RegistrationAssumption /\ J!JobUpdateAssumption

gVars == <<carry, blackboard, state, node, turn, exchanged, lost>>
bVars == <<memory, saved, stage, query, bound, met, questions>>
kVars == <<now, l1, l2, fill>>
rVars == <<orgs, departments, users, client>>
jVars == <<job, row, points, chunks, update, updates, sound>>
vars == <<part, turnVars, gVars, bVars, kVars, rVars, jVars>>

\* Where a part that does not run could begin in several ways, it does in one.
Init ==
    /\ part \in {"turn", "graph", "blackboard", "catalog", "registration", "job"}
    /\ TurnInit /\ G!RagInit /\ B!BoardInit /\ K!CatalogInit /\ R!RegInit /\ J!JobInit
    /\ part # "turn" =>
          request = [mode |-> "auto", scope |-> "none", stream |-> TRUE, admin |-> FALSE]
    /\ part # "graph" => carry = "all"

InTurn == part = "turn" /\ UNCHANGED <<part, gVars, bVars, kVars, rVars, jVars>>
InGraph == part = "graph" /\ UNCHANGED <<part, turnVars, bVars, kVars, rVars, jVars>>
InBlackboard == part = "blackboard" /\ UNCHANGED <<part, turnVars, gVars, kVars, rVars, jVars>>
InCatalog == part = "catalog" /\ UNCHANGED <<part, turnVars, gVars, bVars, rVars, jVars>>
InRegistration == part = "registration" /\ UNCHANGED <<part, turnVars, gVars, bVars, kVars, jVars>>
InJob == part = "job" /\ UNCHANGED <<part, turnVars, gVars, bVars, kVars, rVars>>

Next ==
    \/ InTurn /\ ResolveContext
    \/ InTurn /\ ChooseStrategy
    \/ InTurn /\ Meta
    \/ InTurn /\ Converse
    \/ InTurn /\ AnswerFromSession
    \/ InTurn /\ AnswerFromKnowledge
    \/ InTurn /\ ResolveTarget
    \/ InTurn /\ NoDatabase
    \/ InTurn /\ GenerateSql
    \/ InTurn /\ RejectSql
    \/ InTurn /\ ExecuteSql
    \/ InTurn /\ RetrySql
    \/ InTurn /\ GiveUpSql
    \/ InTurn /\ ExplainRows
    \/ InTurn /\ SqlRaises
    \/ InTurn /\ Conclude
    \/ InTurn /\ StoreAnswer
    \/ InTurn /\ Respond
    \/ InTurn /\ TurnFails
    \/ InGraph /\ G!Ask
    \/ InGraph /\ G!ResolveContext
    \/ InGraph /\ G!SummarizeHistory
    \/ InGraph /\ G!CondenseQuery
    \/ InGraph /\ G!Plan
    \/ InGraph /\ G!RetrieveVectors
    \/ InGraph /\ G!ResolveIdentity
    \/ InGraph /\ G!Synthesize
    \/ InGraph /\ G!Validate
    \/ InGraph /\ G!Refuse
    \/ InGraph /\ G!Harvest
    \/ InGraph /\ G!CleanUp
    \/ InGraph /\ G!Raise
    \/ InBlackboard /\ B!Condense
    \/ InBlackboard /\ B!Bind
    \/ InBlackboard /\ B!HarvestStatement
    \/ InBlackboard /\ B!HarvestText
    \/ InBlackboard /\ B!HarvestMeta
    \/ InBlackboard /\ B!TurnFails
    \/ \E f \in Fill, p \in Proc : InCatalog /\ K!ReadL1(f, p)
    \/ \E f \in Fill : InCatalog /\ K!ReadL2(f)
    \/ \E f \in Fill : InCatalog /\ K!Fetch(f)
    \/ \E f \in Fill : InCatalog /\ K!Store(f)
    \/ \E f \in Fill : InCatalog /\ K!Reply(f)
    \/ \E p \in Proc : InCatalog /\ K!Evict(p)
    \/ InCatalog /\ K!Tick
    \/ \E c \in Client : InRegistration /\ R!LookForSlug(c)
    \/ \E c \in Client : InRegistration /\ R!LookForOrg(c)
    \/ \E c \in Client : InRegistration /\ R!LookForEmail(c)
    \/ \E c \in Client : InRegistration /\ R!CreateOrg(c)
    \/ \E c \in Client : InRegistration /\ R!CreateDepartment(c)
    \/ \E c \in Client : InRegistration /\ R!CreateUser(c)
    \/ \E c \in Client : InRegistration /\ R!CommitFails(c)
    \/ \E a \in Admin, label \in Label : InJob /\ J!Begin(a, label)
    \/ \E a \in Admin : InJob /\ J!Commit(a)
    \/ \E a \in Admin : InJob /\ J!List(a)
    \/ \E a \in Admin, d \in Doc : InJob /\ J!RelabelRow(a, d)
    \/ \E a \in Admin, d \in Doc : InJob /\ J!RelabelPoints(a, d)
    \/ \E a \in Admin, d \in Doc : InJob /\ J!RelabelChunks(a, d)
    \/ \E a \in Admin : InJob /\ J!Breaks(a)

Spec == Init /\ [][Next]_vars

-----------------------------------------------------------------------------
\* The promises of each part's module, for the part that runs; those of Turn
\* are its own.
VerifiedOrRefused == part = "graph" => G!VerifiedOrRefused
NothingForgotten == part = "graph" => G!NothingForgotten
NothingBoundFromBefore == part = "blackboard" => B!NothingBoundFromBefore
CatalogIsRecent == part = "catalog" => K!CatalogIsRecent
RegisteredIsWhole == part = "registration" => R!RegisteredIsWhole
ChangeHeals == part = "job" => J!ChangeHeals
=============================================================================
