--------------------------- MODULE GrantVocabulary ---------------------------
(* The words a grant is made of: src/relation.go and src/resource_type.go,   *)
(* and the checks of Store.Create that need nothing but the request itself.  *)
EXTENDS FiniteSets

CONSTANT IdShape    \* the shape of each id a caller may send: see Shapes

\* "*": the resource_id that names every resource of its type.
AllResources == "*"

\* relation -> the resource types it may pair with.
ResourceTypesOf ==
    [can_use                 |-> {"tool", "skill"},
     can_run_as              |-> {"agent"},
     can_dispatch_on         |-> {"instance", "machine"},
     can_view                |-> {"board"},
     can_edit                |-> {"board"},
     can_administer          |-> {"board"},
     can_run_operation       |-> {"operation_type"},
     can_observe_sessions_on |-> {"instance", "machine"},
     can_start_sessions_as   |-> {"principal"},
     can_call_through        |-> {"peer_connection"},
     works_with |-> {"agent", "instance", "machine", "skill", "tool"}]

Relations == DOMAIN ResourceTypesOf

\* The relations whose enforcing service reads a grant of "*".
AcceptsAllResources ==
    {"can_use", "can_run_as", "can_dispatch_on", "can_run_operation",
     "can_observe_sessions_on", "can_call_through"}

\* resource type -> the store that assigns its ids.
OwnerOf ==
    [agent           |-> "agent-store",
     instance        |-> "harness-store",
     machine         |-> "harness-store",
     skill           |-> "skill-store",
     tool            |-> "tool-store",
     board           |-> "kanban-store",
     operation_type  |-> "llm-bridge-server",
     principal       |-> "principal-store",
     peer_connection |-> "llm-bridge-server"]

ResourceTypes == DOMAIN OwnerOf

\* The types whose ids are integer primary keys.
NumericTypes == {"agent", "skill", "tool"}

-----------------------------------------------------------------------------
(* Shapes of ids.  Nothing is trimmed, so whitespace is a shape of its own.  *)

Shapes == {"empty",        \* ""
           "padded",       \* whitespace before or after
           "decimal",      \* a canonical decimal int64: no sign, no zeros
           "odd_decimal",  \* 012, -3, or past int64: a number all the same
           "principal_id", \* principal_ and at least six digits
           "principal_ish",\* the prefix principal_ and something else
           "name"}         \* anything else

ASSUME IdShapeAssumption ==
    /\ \A id \in DOMAIN IdShape : IdShape[id] \in Shapes
    /\ IdShape[""] = "empty" /\ IdShape[AllResources] = "name"

\* validateResourceID: the shape its owner hands out.
ResourceIDIsValid(type, id) ==
    /\ IdShape[id] \notin {"empty", "padded"}
    /\ type \in NumericTypes => IdShape[id] = "decimal"

\* validatePrincipalID looks at the prefix, and leaves the rest to the store.
PrincipalIDIsValid(id) == IdShape[id] \in {"principal_id", "principal_ish"}

\* The header of a caller is held to the whole pattern.
CallerIDIsValid(id) == IdShape[id] = "principal_id"

\* What Create can tell of a request before it asks anyone.
IsDescribed(wish) ==
    /\ wish.relation \in Relations
    /\ wish.resource_type \in ResourceTypes
    /\ wish.resource_type \in ResourceTypesOf[wish.relation]
    /\ IF wish.resource_id = AllResources
         THEN wish.relation \in AcceptsAllResources
         ELSE ResourceIDIsValid(wish.resource_type, wish.resource_id)
    /\ PrincipalIDIsValid(wish.principal_id)
=============================================================================
