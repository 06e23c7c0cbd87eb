--------------------------- MODULE ConditionDrafts ---------------------------
(***************************************************************************)
(* The conditions of an envelope's runtime policies on their way from the  *)
(* author to the run: the sandbox shows and edits them (FlexSandboxView),  *)
(* run.stream validates and rewrites them, and the policy normalizer       *)
(* compiles them again before they are evaluated.  A condition travels as  *)
(* raw JSON-Logic or as a record {jsonLogic, dsl?}; where there is a dsl   *)
(* text, it is compiled and the JSON-Logic next to it is dropped.          *)
(***************************************************************************)
EXTENDS ConditionDsl

CONSTANTS
    Envelopes,      \* the envelopes an author may start from: sequences of conditions
    Texts,          \* what an author may type
    Payloads        \* what a condition is evaluated against

ASSUME DraftsAssumption == \A e \in Envelopes : Len(e) > 0

VARIABLES
    envelope,    \* the envelope's conditions: [shape, logic, dsl]
    drafts,      \* the editor's rows: [dsl, logic, error]
    submission,  \* its status and the conditions the run evaluates
    meant        \* for each condition what its author gave last: [logic, dsl]

vars == <<envelope, drafts, submission, meant>>

NoText  == <<>>
NoLogic == <<>>

Raw(logic)          == [shape |-> "raw", logic |-> logic, dsl |-> NoText]
Wrapped(logic, dsl) == [shape |-> "record", logic |-> logic, dsl |-> dsl]

Open    == [status |-> "open", running |-> <<>>]
Refused == [status |-> "refused", running |-> <<>>]

\* deriveConditionDraft: a record shows its own text, raw JSON-Logic is rendered.
Derive(condition) ==
    IF condition.shape = "record"
    THEN [dsl |-> condition.dsl, logic |-> condition.logic, error |-> FALSE]
    ELSE LET shown == ToDsl(condition.logic)
         IN IF shown.ok THEN [dsl |-> shown.expression, logic |-> condition.logic, error |-> FALSE]
                        ELSE [dsl |-> NoText, logic |-> condition.logic, error |-> TRUE]

\* recomputeRuntimePolicyDraft.
Recompute(text) ==
    LET compiled == ParseDsl(text)
    IN IF compiled.ok THEN [dsl |-> text, logic |-> compiled.logic, error |-> FALSE]
                      ELSE [dsl |-> text, logic |-> NoLogic, error |-> TRUE]

\* applyRuntimePolicyDraftsToEnvelope: every row without an error is written.
Apply(rows) ==
    [i \in DOMAIN envelope |->
        IF rows[i].error \/ rows[i].logic = NoLogic THEN envelope[i]
        ELSE Wrapped(rows[i].logic, rows[i].dsl)]

Init ==
    /\ envelope \in {[i \in DOMAIN e |-> Raw(e[i])] : e \in Envelopes}
    /\ drafts = [i \in DOMAIN envelope |-> Derive(envelope[i])]
    /\ submission = Open
    /\ meant = [i \in DOMAIN envelope |-> [logic |-> envelope[i].logic, dsl |-> NoText]]

\* handleRuntimePolicyDslInput.
Input(i, text) ==
    LET row == Recompute(text)
    IN /\ submission = Open
       /\ drafts' = [drafts EXCEPT ![i] = row]
       /\ IF row.error THEN UNCHANGED <<envelope, meant>>
          ELSE /\ envelope' = Apply(drafts')
               /\ meant' = [meant EXCEPT ![i] = [logic |-> row.logic, dsl |-> text]]
       /\ UNCHANGED submission

\* syncRuntimePoliciesFromEnvelope: the rows are derived anew.
Sync ==
    /\ submission = Open
    /\ drafts' = [i \in DOMAIN envelope |-> Derive(envelope[i])]
    /\ UNCHANGED <<envelope, submission, meant>>

\* The condition as run.stream rewrites it: a record is told by its text, any
\* other object is taken for JSON-Logic.
Rewritten(condition) ==
    IF condition.dsl # NoText THEN Wrapped(ParseDsl(condition.dsl).logic, condition.dsl)
    ELSE IF condition.shape = "raw" THEN Wrapped(condition.logic, NoText)
    ELSE Wrapped(<<"jsonLogic", condition.logic>>, NoText)

Accepts(condition) == condition.dsl = NoText \/ ParseDsl(condition.dsl).ok

\* run.stream, then normalizeRuntimeCondition on what it made.
Submit ==
    /\ submission = Open
    /\ submission' = IF \A i \in DOMAIN envelope : Accepts(envelope[i])
                     THEN [status |-> "accepted",
                           running |-> [i \in DOMAIN envelope |-> Rewritten(envelope[i])]]
                     ELSE Refused
    /\ UNCHANGED <<envelope, drafts, meant>>

\* JSON-Logic that run.stream wrapped although it was a record already.
Nested(condition) == condition.logic[1] = "jsonLogic"

\* The envelope of an accepted submission is loaded and worked on again.
\* (Bound: one that holds nested JSON-Logic is not, it would only nest deeper.)
Load ==
    /\ submission.status = "accepted"
    /\ \A i \in DOMAIN envelope : ~Nested(submission.running[i])
    /\ envelope' = submission.running
    /\ drafts' = [i \in DOMAIN envelope' |-> Derive(envelope'[i])]
    /\ submission' = Open
    /\ UNCHANGED meant

\* The author goes on editing what the editor holds.
Return ==
    /\ submission # Open
    /\ submission' = Open
    /\ UNCHANGED <<envelope, drafts, meant>>

Next ==
    \/ \E i \in DOMAIN envelope, text \in Texts : Input(i, text)
    \/ Sync
    \/ Submit
    \/ Load
    \/ Return

Spec == Init /\ [][Next]_vars

-----------------------------------------------------------------------------
(* What a text means, independently of how it is compiled: a name is bound *)
(* by the innermost quantifier that introduces it, and is the catalog's    *)
(* otherwise; an unbound item field is undefined.                          *)

RECURSIVE Means(_, _, _)
Means(node, payload, bound) ==
    LET Item(path)  == Last(SelectSeq(bound, LAMBDA b : b.alias = Head(path))).value
        Sub(child)  == Means(child, payload, bound)
        operator    == node.operator
    IN CASE node.type = "literal"  -> node.value
         [] node.type = "variable" ->
              IF \E i \in DOMAIN bound : bound[i].alias = Head(node.path)
              THEN ReadPath(Item(node.path), Tail(node.path))
              ELSE ReadPath(payload, Canonical(node.path))
         [] node.type = "exists" -> Boolean(HasPath(payload, Canonical(node.argument.path)))
         [] node.type = "unary"  -> Boolean(~Truthy(Sub(node.argument)))
         [] node.type = "binary" ->
              Boolean(CASE operator = "&&" -> Truthy(Sub(node.left)) /\ Truthy(Sub(node.right))
                        [] operator = "||" -> Truthy(Sub(node.left)) \/ Truthy(Sub(node.right))
                        [] OTHER -> Compare(operator, Sub(node.left), Sub(node.right)))
         [] node.type = "quantifier" ->
              LET source == Sub(node.collection)
                  Held(item) == Truthy(Means(node.predicate, payload,
                                    Append(bound, [alias |-> node.alias, value |-> item])))
              IN Boolean(/\ source[1] = "array" /\ source # Array(<<>>)
                         /\ IF operator = "some"
                            THEN \E i \in DOMAIN source[2] : Held(source[2][i])
                            ELSE \A i \in DOMAIN source[2] : Held(source[2][i]))

Intended(intent, payload) ==
    IF intent.dsl = NoText THEN Holds(intent.logic, payload)
    ELSE Truthy(Means(Parse(intent.dsl).node, payload, <<>>))
-----------------------------------------------------------------------------

(* Where names do not tell items from the payload, the evaluator's lookup  *)
(* (the item first, then outward) may find another value; and an alias     *)
(* called like a catalog name is taken for it.                             *)

RECURSIVE ItemsOf(_)
ItemsOf(value) ==
    CASE value[1] = "array"  -> Range(value[2]) \cup UNION {ItemsOf(item) : item \in Range(value[2])}
      [] value[1] = "object" -> UNION {ItemsOf(value[2][key]) : key \in DOMAIN value[2]}
      [] OTHER -> {}

RECURSIVE Rebinds(_, _)
Rebinds(node, bound) ==
    CASE node.type = "unary"  -> Rebinds(node.argument, bound)
      [] node.type = "binary" -> Rebinds(node.left, bound) \/ Rebinds(node.right, bound)
      [] node.type = "quantifier" ->
           node.alias \in bound \/ Rebinds(node.predicate, bound \cup {node.alias})
      [] OTHER -> FALSE

Ambiguous(logic, payload) ==
    LET tree  == FromLogic(logic, <<>>)
        roots == Fields(payload) \cup {Head(path) : path \in Paths}
    IN \/ \E item \in ItemsOf(payload) : Fields(item) \cap roots # {}
       \/ \E path \in VariablesIn(tree) \ Paths : Range(path) \cap roots # {}
       \/ Rebinds(tree, UNION {{Head(name) : name \in Range(Variables[i].names)} : i \in DOMAIN Variables})

RECURSIVE LiteralsIn(_)
LiteralsIn(node) ==
    CASE node.type = "literal" -> {node.value}
      [] node.type = "unary"   -> LiteralsIn(node.argument)
      [] node.type = "binary"  -> LiteralsIn(node.left) \cup LiteralsIn(node.right)
      [] node.type = "quantifier" -> LiteralsIn(node.predicate)
      [] OTHER -> {}

RECURSIVE AliasesIn(_)
AliasesIn(node) ==
    CASE node.type = "unary"  -> AliasesIn(node.argument)
      [] node.type = "binary" -> AliasesIn(node.left) \cup AliasesIn(node.right)
      [] node.type = "quantifier" -> {<<node.alias>>} \cup AliasesIn(node.predicate)
      [] OTHER -> {}

\* What the language cannot write so that it reads the same: negative numbers,
\* those that take an exponent and what digits with several points become; names
\* of items that are no identifiers, reserved, or the catalog's for something else.
Unwritable(logic) ==
    LET tree == FromLogic(logic, <<>>)
    IN \/ \E value \in LiteralsIn(tree) :
            \/ value = NaN
            \/ value[1] = "number" /\ (value[2] < 0 \/ value[2] \in Exponential)
       \/ \E name \in VariablesIn(tree) \cup AliasesIn(tree) :
            name \in Reserved \/ Range(name) \cap Foreign # {} \/ Canonical(name) # name
-----------------------------------------------------------------------------
(* Properties. *)

\* Conditions are edited one at a time, yet a submission runs each of them as
\* its own author meant it, however often the others were edited, the rows
\* derived anew and the texts compiled and rendered again
\* (applyRuntimePolicyDraftsToEnvelope, run.stream, normalizeRuntimeCondition).
RunsWhatWasMeant ==
    submission.status = "accepted" =>
        \A i \in DOMAIN envelope, p \in Payloads :
            \/ Holds(submission.running[i].logic, p) = Intended(meant[i], p)
            \/ Ambiguous(meant[i].logic, p)
            \/ Nested(submission.running[i])

\* An author whose texts were all accepted while typing is not refused on
\* submission: what the editor rendered from a condition nobody touched can be
\* read back (toDsl and parseDsl "round-trip", docs/stories/9.2), unless that
\* condition has a number or a name the language cannot write.
RefusedOnlyIfUnwritable ==
    submission = Refused =>
        \A i \in DOMAIN envelope : Accepts(envelope[i]) \/ Unwritable(envelope[i].logic)

\* The canonical text of a condition compiles to the same JSON-Logic and is
\* its own canonical text (parseDsl), unless it has what the language cannot
\* write: n > 0.0000001 is accepted, and its canonical text n > 1e-7 is not.
CanonicalSettles ==
    \A i \in DOMAIN drafts :
        LET once  == ParseDsl(drafts[i].dsl)
            twice == ParseDsl(once.canonical)
        IN ~drafts[i].error /\ once.ok /\ ~Unwritable(once.logic) => twice = once
==============================================================================
