---------------------------- MODULE OwnerAnswers ----------------------------
(* How an owner's HTTP answer is read: HTTPPrincipalDirectory.LookupPrincipal*)
(* and HTTPResourceChecker (src/principal_directory.go,                      *)
(* src/resource_checker.go).  An answer is a status and what its body is; a  *)
(* verdict is what the caller of the Go function can tell: the id is there   *)
(* ("found"), its owner says it is not ("missing"), or nobody knows          *)
(* ("unknown").                                                              *)
EXTENDS Integers

Verdicts == {"found", "missing", "unknown"}

\* No answer within the three seconds of ownerCheckTimeout, or no connection.
NoReply == [status |-> 0, body |-> "none"]

\* The route of each check; agents and operation types are looked for in lists.
ListedTypes == {"agent", "operation_type"}

\* What a body can be, as far as the code tells bodies apart.
Bodies == {"none",       \* not read to its end
           "record",     \* the JSON of the id asked for
           "other",      \* the JSON of another id, or of an older owner
           "garbage",    \* not the JSON expected
           "lists_it",   \* a list with the id
           "lists_not",  \* a list without it
           "holed",      \* a list with an entry lacking its id before the id
           "error",      \* {"error": ...}
           "own_text",   \* the owner's own words for a missing record
           "unrouted"}   \* Go's "404 page not found"

IsSuccess(answer) == answer.status >= 200 /\ answer.status < 300

\* LookupPrincipal: only a 404 with a JSON error says the principal is missing.
LookupVerdict(answer) ==
    CASE answer.status = 404 /\ answer.body = "error" -> "missing"
      [] IsSuccess(answer) /\ answer.body = "record"  -> "found"
      [] OTHER                                        -> "unknown"

\* A mutant of the next: every 404 is the owner's.
GetVerdictAny404(answer) ==
    CASE IsSuccess(answer) /\ answer.body # "none"   -> "found"
      [] answer.status = 404 /\ answer.body # "none" -> "missing"
      [] OTHER                                       -> "unknown"

\* checkByGet: any 2xx is a yes, whatever its body; a 404 is a no unless it is
\* the mux's own.
GetVerdict(answer) ==
    CASE IsSuccess(answer) /\ answer.body # "none" -> "found"
      [] answer.status = 404 /\ answer.body \notin {"none", "unrouted"} -> "missing"
      [] OTHER -> "unknown"

\* checkAgentInList, checkOperationTypeInList: a 404 is never a no.
ListVerdict(answer) ==
    CASE IsSuccess(answer) /\ answer.body = "lists_it"  -> "found"
      [] IsSuccess(answer) /\ answer.body = "lists_not" -> "missing"
      [] OTHER                                          -> "unknown"

\* A mutant of the next: an owner that could not be asked taken to agree.
TrustingVerdict(type, answer) ==
    IF answer.body \in {"lists_not", "error"} THEN "missing" ELSE "found"

\* CheckResourceExists: one check for each type.
CheckVerdict(type, answer) ==
    IF type \in ListedTypes THEN ListVerdict(answer) ELSE GetVerdict(answer)

-----------------------------------------------------------------------------
(* The owners, which are other programs: what they answer when the id is     *)
(* there, when it is not, and whenever something is wrong.                   *)

\* Down, slow, cut short, refusing the token, failing, or not the owner at all
\* but some other Go server on the configured URL.
Trouble == {NoReply, [status |-> 200, body |-> "none"],
            [status |-> 401, body |-> "error"],
            [status |-> 404, body |-> "unrouted"],
            [status |-> 500, body |-> "own_text"]}

LookupAnswers(present) ==
    Trouble \cup {[status |-> 200, body |-> "other"],
                  [status |-> 200, body |-> "garbage"]}
            \cup {IF present THEN [status |-> 200, body |-> "record"]
                             ELSE [status |-> 404, body |-> "error"]}

CheckAnswers(type, present) ==
    Trouble \cup
    IF type \in ListedTypes
      THEN {[status |-> 200, body |-> "garbage"],
            [status |-> 200,
             body |-> IF present THEN "lists_it" ELSE "lists_not"]}
           \cup IF type = "agent" THEN {[status |-> 200, body |-> "holed"]} ELSE {}
      ELSE IF present THEN {[status |-> 200, body |-> "record"]}
                      ELSE {[status |-> 404, body |-> "own_text"],
                            [status |-> 404, body |-> "error"]}
=============================================================================
