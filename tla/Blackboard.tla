----------------------------- MODULE Blackboard -----------------------------
(***************************************************************************)
(* What the working memory of one session binds into SQL queries: turns    *)
(* that QueryCondenser, DynamicSQLStrategy and StateHarvester change the   *)
(* SessionWorkingMemory in (modules/rag_core/context).  Identifiers are    *)
(* named by the person they belong to; where the memory is stored is the   *)
(* matter of Conversation.                                                 *)
(***************************************************************************)
EXTENDS Naturals, Sequences, FiniteSets, SequencesExt

CONSTANTS
    Person,
    None,
    Questions       \* bound on the turns

\* Assumed of the constants; an instance states it for the values it gives them.
BlackboardAssumption == None \notin Person /\ Questions \in Nat

VARIABLES
    memory,     \* SessionWorkingMemory
    saved,      \* the memory and the persons met when the turn began
    stage,      \* of the turn: "idle", "plan", "statement" or "harvest"
    query,      \* the condensed query: the identifiers in it
    bound,      \* the persons bound into the statement of the turn
    met,        \* the persons stated or found since the last topic shift
    questions

boardVars == <<memory, saved, stage, query, bound, met, questions>>

Key == {"customer_id", "bvn"}
Maybe == Person \cup {None}
Shift == {"AGGREGATE", "SYSTEM_META"}

\* The anchor is an identifier: a key and whose it is.
NoMemory == [scope |-> "INDIVIDUAL", entities |-> [k \in Key |-> None],
             names |-> {}, anchor |-> <<>>, collection |-> {}]
NoQuery == [k \in Key |-> None]
NoTurn == <<NoMemory, {}>>

BoardInit ==
    /\ memory = NoMemory
    /\ saved = NoTurn
    /\ stage = "idle"
    /\ query = NoQuery
    /\ bound = {}
    /\ met = {}
    /\ questions = 0

-----------------------------------------------------------------------------
(* Helpers.                                                                *)

\* The turn ends where it was at this stage; what it knew goes with it.
EndsAt(from) ==
    /\ stage = from
    /\ stage' = "idle" /\ saved' = NoTurn /\ query' = NoQuery /\ bound' = {}
    /\ UNCHANGED questions

Persons(ids) == {ids[k] : k \in Key} \ {None}

\* A mutant: evict_for_topic_shift that forgets the collection.
Evicted_KeepsCollection(m, scope) ==
    [NoMemory EXCEPT !.scope = scope, !.collection = m.collection]

\* evict_for_topic_shift.
Evicted(m, scope) == [NoMemory EXCEPT !.scope = scope]

\* The identifiers a statement is given.
Bindings(m) ==
    IF m.scope \in Shift THEN {}
    ELSE Persons(m.entities) \cup (IF m.scope = "COLLECTION" THEN m.collection ELSE {})

\* The identifier column of rows that have these columns.
PrimaryKey(columns) ==
    IF "customer_id" \in columns THEN "customer_id"
    ELSE IF "bvn" \in columns THEN "bvn" ELSE "none"

\* Whose rows they are, by identifier or by name.
Distinct(rows, columns) == IF columns = {} THEN {} ELSE ToSet(rows)

ScopeOfRows(m, rows, columns) ==
    LET key == PrimaryKey(columns)
        known == m.anchor # <<>> \/ (key # "none" /\ m.entities[key] # None)
        one == key # "none" /\ Cardinality(ToSet(rows)) = 1
    IN IF Cardinality(Distinct(rows, columns)) <= 1 /\ (Len(rows) = 1 \/ one \/ known)
       THEN "INDIVIDUAL" ELSE "COLLECTION"

\* _harvest_structured_rows.
HarvestedRows(m, rows, columns) ==
    LET key == PrimaryKey(columns)
        scope == ScopeOfRows(m, rows, columns)
        named == [m EXCEPT !.scope = scope,
                           !.names = @ \cup (IF "name" \in columns THEN ToSet(rows) ELSE {})]
        anchored == {p \in ToSet(rows) : m.anchor = <<key, p>>}
    IN IF scope = "COLLECTION"
       THEN [named EXCEPT
                !.collection = IF key = "none" THEN @ ELSE ToSet(rows),
                !.entities = [k \in Key |-> IF k = key /\ anchored # {} THEN m.anchor[2] ELSE @[k]]]
       ELSE [named EXCEPT
                !.collection = {},
                !.entities = [k \in Key |-> IF k \in columns THEN Last(rows) ELSE @[k]],
                !.anchor = IF key = "none" THEN @ ELSE <<key, Last(rows)>>]

\* _extract_query_entities, for identifiers in the query and the answer: what
\* is known already stays.
Extracted(m, ids) ==
    LET new == {k \in Key : /\ ids[k] # None /\ m.entities[k] = None
                            /\ k = "customer_id" => m.scope # "COLLECTION"}
    IN IF m.scope \in Shift THEN m
       ELSE [m EXCEPT !.entities = [k \in Key |-> IF k \in new THEN ids[k] ELSE @[k]],
                      !.anchor = IF "customer_id" \in new
                                 THEN <<"customer_id", ids["customer_id"]>> ELSE @]

-----------------------------------------------------------------------------
(* The steps of a turn.                                                    *)

\* condense: every turn but the first has a history, so that a topic shift
\* is condensed; the rewritten query may name whom the model likes.
Condense ==
    /\ stage = "idle" /\ questions < Questions
    /\ questions' = questions + 1
    /\ stage' = "plan"
    /\ saved' = <<memory, met>>
    /\ query' \in [Key -> Maybe]
    /\ \/ UNCHANGED memory /\ met' = met \cup Persons(query')
       \/ /\ questions > 0
          /\ \E scope \in Shift : memory' = Evicted(memory, scope)
          /\ met' = Persons(query')
    /\ bound' = {}

\* The SQL strategy: where a database knows customers only by their number, it
\* is looked up for the BVN; then the memory is bound.
Bind ==
    /\ stage = "plan"
    /\ stage' = "statement"
    /\ LET bvn == IF memory.entities["bvn"] # None THEN memory.entities["bvn"] ELSE query["bvn"]
           bridged == [memory EXCEPT !.entities["customer_id"] = bvn,
                                     !.anchor = <<"customer_id", bvn>>]
       IN \/ UNCHANGED memory
          \/ memory.entities["customer_id"] = None /\ bvn # None /\ memory' = bridged
    /\ bound' = Bindings(memory')
    /\ UNCHANGED <<saved, query, met, questions>>

\* Its rows, if there are any, are harvested first, then the text.
HarvestStatement ==
    /\ EndsAt("statement")
    /\ \E rows \in BoundedSeq(Person, 2), columns \in SUBSET (Key \cup {"name"}), said \in Maybe :
          LET ids == [query EXCEPT !["customer_id"] = IF @ # None THEN @ ELSE said]
              first == IF rows = <<>> THEN memory ELSE HarvestedRows(memory, rows, columns)
          IN /\ memory' = Extracted(first, ids)
             /\ met' = met \cup Distinct(rows, columns) \cup Persons(ids)

\* A turn answered from documents or by the model alone.
HarvestText ==
    /\ EndsAt("plan")
    /\ \E said \in Maybe :
          LET ids == [query EXCEPT !["customer_id"] = IF @ # None THEN @ ELSE said]
          IN memory' = Extracted(memory, ids) /\ met' = met \cup Persons(ids)

\* A turn about the platform.
HarvestMeta ==
    /\ EndsAt("plan")
    /\ memory' = Evicted(memory, "SYSTEM_META")
    /\ met' = {}

\* The turn raises: the next one finds the memory in Redis as it was, or the
\* object in the process as it is.
TurnFails ==
    /\ EndsAt("plan") \/ EndsAt("statement")
    /\ \/ UNCHANGED <<memory, met>>
       \/ memory' = saved[1] /\ met' = saved[2]

BoardNext ==
    Condense \/ Bind \/ HarvestStatement \/ HarvestText \/ HarvestMeta \/ TurnFails

BoardSpec == BoardInit /\ [][BoardNext]_boardVars

-----------------------------------------------------------------------------
(* Properties.                                                             *)

\* A statement is never bound to a person whom nothing has stated or found
\* since the last topic shift: no identifier survives evict_for_topic_shift
\* in any field of the memory from which a later turn would bind it again
\* (query_condenser.condense, state_harvester.harvest, sql_strategy).
NothingBoundFromBefore == stage = "statement" => bound \subseteq met
=============================================================================
