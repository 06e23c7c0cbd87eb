--------------------------- MODULE ConditionLogic ---------------------------
(***************************************************************************)
(* The evaluator of conditions stored as JSON-Logic (packages/shared/src/  *)
(* condition-dsl/engine.ts, evaluate).  A JSON-Logic expression is a tuple *)
(* that begins with its operator:                                          *)
(*    <<"literal", v>>, <<"var", path>>, <<"!", e>>, <<"and", es>>,        *)
(*    <<"or", es>>, <<"==", e, f>> (and the other comparisons),            *)
(*    <<"exists", path>> for {"!": [{"missing": [path]}]}, and             *)
(*    <<"some", source, predicate, names>> (or "all"), where names is      *)
(*    <<alias>>, or <<>> when the third operand is left out.               *)
(* A path is the sequence of its segments.  A value is tagged with its     *)
(* type; an object is a function from its keys.  Strings that read as      *)
(* numbers, and paths that step into arrays, do not occur in payloads.     *)
(***************************************************************************)
EXTENDS Integers, Sequences, SequencesExt

Undefined == <<"undefined">>
NullValue == <<"null">>
NaN       == <<"nan">>
Number(n)  == <<"number", n>>
String(s)  == <<"string", s>>
Boolean(b) == <<"boolean", b>>
Array(s)   == <<"array", s>>
Object(f)  == <<"object", f>>

Comparisons == {"==", "!=", ">", ">=", "<", "<="}
Quantifiers == {"some", "all"}

Fields(value) == IF value[1] = "object" THEN DOMAIN value[2] ELSE {}

\* What a path reads below a value; Undefined when a segment is missing.
RECURSIVE ReadPath(_, _)
ReadPath(value, path) ==
    IF path = <<>> THEN value
    ELSE IF Head(path) \in Fields(value) THEN ReadPath(value[2][Head(path)], Tail(path))
    ELSE Undefined

\* Whether every segment of a path is an own property: an undefined value is
\* never stored in a payload that went through JSON.
HasPath(value, path) == ReadPath(value, path) # Undefined

Truthy(value) ==
    CASE value[1] = "boolean" -> value[2]
      [] value[1] = "number"  -> value[2] # 0
      [] value[1] \in {"string", "array"} -> value[2] # <<>>
      [] value[1] = "object"  -> TRUE
      [] OTHER -> FALSE

\* Number(value) of JavaScript: <<n>>, or <<>> for NaN.
Numeric(value) ==
    CASE value[1] = "number"  -> <<value[2]>>
      [] value[1] = "boolean" -> <<IF value[2] THEN 1 ELSE 0>>
      [] value[1] = "null" \/ value = String(<<>>) \/ value = Array(<<>>) -> <<0>>
      [] OTHER -> <<>>

Compare(operator, left, right) ==
    IF operator = "==" THEN left = right /\ left # NaN
    ELSE IF operator = "!=" THEN left # right \/ left = NaN
    ELSE LET l == Numeric(left)
             r == Numeric(right)
         IN /\ l # <<>> /\ r # <<>>
            /\ CASE operator = ">"  -> l[1] > r[1]
                 [] operator = ">=" -> l[1] >= r[1]
                 [] operator = "<"  -> l[1] < r[1]
                 [] operator = "<=" -> l[1] <= r[1]

\* A scope is the sequence of the items the enclosing quantifiers are at, the
\* innermost last.  A path is looked up in each item from the innermost: as
\* the alias, below the alias, and as a path of the item itself.
RECURSIVE ScopedValue(_, _)
ScopedValue(path, scope) ==
    IF scope = <<>> THEN Undefined
    ELSE LET item  == Last(scope)
             named == path # <<>> /\ Head(path) = item.alias
         IN IF path = <<item.alias>> THEN item.value
            ELSE IF named /\ HasPath(item.value, Tail(path)) THEN ReadPath(item.value, Tail(path))
            ELSE IF HasPath(item.value, path) THEN ReadPath(item.value, path)
            ELSE ScopedValue(path, Front(scope))

\* A var or missing path: the scope first, then the payload.
Lookup(path, payload, scope) ==
    LET scoped == ScopedValue(path, scope)
    IN IF scoped # Undefined THEN scoped ELSE ReadPath(payload, path)

AliasOf(names) == IF names = <<>> THEN "item" ELSE names[1]

\* An error of the evaluator: the condition does not hold (evaluateCondition
\* returns ok: false and every caller takes it as not satisfied).
Threw == <<"threw">>

\* and, or, some and all stop at the first value that settles the result.
Settle(values, settles) ==
    LET settled == {i \in DOMAIN values : values[i] = Threw \/ Truthy(values[i]) = settles}
        first   == CHOOSE i \in settled : \A j \in settled : i <= j
    IN IF settled = {} THEN Boolean(~settles)
       ELSE IF values[first] = Threw THEN Threw
       ELSE Boolean(settles)

RECURSIVE Evaluate(_, _, _)
Evaluate(expr, payload, scope) ==
    LET operator == expr[1]
        Each(exprs) == [i \in DOMAIN exprs |-> Evaluate(exprs[i], payload, scope)]
        AtEach(items, predicate, alias) == [i \in DOMAIN items |->
            Evaluate(predicate, payload, Append(scope, [value |-> items[i], alias |-> alias]))]
    IN CASE operator = "literal" -> expr[2]
         [] operator = "var"     -> Lookup(expr[2], payload, scope)
         [] operator = "exists"  -> Boolean(Lookup(expr[2], payload, scope) # Undefined)
         [] operator = "and"     -> Settle(Each(expr[2]), FALSE)
         [] operator = "or"      -> Settle(Each(expr[2]), TRUE)
         [] operator = "!" ->
              LET value == Evaluate(expr[2], payload, scope)
              IN IF value = Threw THEN Threw ELSE Boolean(~Truthy(value))
         [] operator \in Comparisons ->
              LET left  == Evaluate(expr[2], payload, scope)
                  right == Evaluate(expr[3], payload, scope)
              IN IF Threw \in {left, right} THEN Threw ELSE Boolean(Compare(operator, left, right))
         [] operator \in Quantifiers ->
              LET source == Evaluate(expr[2], payload, scope)
              IN CASE source \in {Undefined, NullValue} -> Boolean(FALSE)
                   [] source = Array(<<>>) -> Boolean(FALSE)
                   [] source[1] = "array" ->
                        Settle(AtEach(source[2], expr[3], AliasOf(expr[4])), operator = "some")
                   [] OTHER -> Threw
         [] OTHER -> Threw

\* evaluateCondition, as the policies and the goal conditions use it.
Holds(expr, payload) ==
    LET value == Evaluate(expr, payload, <<>>) IN value # Threw /\ Truthy(value)
==============================================================================
