---------------------------- MODULE ConditionDsl ----------------------------
(***************************************************************************)
(* The condition language (packages/shared/src/condition-dsl/engine.ts):   *)
(* parseDsl turns a text into JSON-Logic, toDsl turns JSON-Logic into a    *)
(* text.  A text is the sequence of its tokens as they are written:        *)
(*    <<"paren", "(">>, <<"comma", ",">>, <<"not", "!">>,                  *)
(*    <<"operator", "&&">>, <<"boolean", TRUE>>, <<"identifier", path>>,   *)
(*    <<"number", n>> with n >= 0, <<"number">> for digits with several    *)
(*    points, <<"string", cs>> with the characters between the quotes, and *)
(*    <<"other">> for characters of which one begins no token.             *)
(* White space, positions and messages are left out. Numbers stand for     *)
(* others in their order: those of Exponential for the large and the small *)
(* ones that String(value) writes with an exponent.                        *)
(***************************************************************************)
EXTENDS ConditionLogic

CONSTANTS
    Variables,     \* the catalog: a sequence of [path, names, type], names
                   \* being dslPath followed by the aliases
    Exponential,   \* numbers that are written with an exponent
    Foreign        \* names of fields and aliases that are no identifiers

ASSUME VariablesAssumption ==
    \A i \in DOMAIN Variables : DOMAIN Variables[i] = {"path", "names", "type"}
ASSUME ExponentialAssumption == Exponential \subseteq Int \ {0, 1}

Paths   == {Variables[i].path : i \in DOMAIN Variables}
TypeOf(path) == Variables[CHOOSE i \in DOMAIN Variables : Variables[i].path = path].type

\* buildAliasMaps: an alias belongs to the first variable that has it, a
\* variable is shown by the first of its shortest aliases.
Canonical(path) ==
    LET owners == {i \in DOMAIN Variables : path \in Range(Variables[i].names)}
    IN IF owners = {} THEN path ELSE Variables[Min(owners)].path

Shown(path) ==
    IF path \notin Paths THEN path
    ELSE LET names == Variables[CHOOSE i \in DOMAIN Variables : Variables[i].path = path].names
             short == {i \in DOMAIN names : \A j \in DOMAIN names : Len(names[i]) <= Len(names[j])}
         IN IF names = <<>> THEN path ELSE names[Min(short)]

-----------------------------------------------------------------------------
(* The syntax tree. *)

Literal(value)    == [type |-> "literal", value |-> value]
Variable(path)    == [type |-> "variable", path |-> path]
Not(argument)     == [type |-> "unary", argument |-> argument]
Binary(operator, left, right) ==
    [type |-> "binary", operator |-> operator, left |-> left, right |-> right]
Exists(argument)  == [type |-> "exists", argument |-> argument]
Quantifier(operator, collection, predicate, alias, provided) ==
    [type |-> "quantifier", operator |-> operator, collection |-> collection,
     predicate |-> predicate, alias |-> alias, aliasProvided |-> provided]

\* normalizeVariablePaths: every variable of the tree is renamed, those that
\* an enclosing quantifier binds included.
RECURSIVE Rename(_, _)
Rename(node, names) ==
    CASE node.type = "literal"  -> node
      [] node.type = "variable" ->
           Variable(IF names = "canonical" THEN Canonical(node.path) ELSE Shown(node.path))
      [] node.type \in {"unary", "exists"} -> [node EXCEPT !.argument = Rename(@, names)]
      [] node.type = "binary" ->
           [node EXCEPT !.left = Rename(@, names), !.right = Rename(@, names)]
      [] node.type = "quantifier" ->
           [node EXCEPT !.collection = Rename(@, names), !.predicate = Rename(@, names)]

\* The variables of a tree (walk), bound or not.
RECURSIVE VariablesIn(_)
VariablesIn(node) ==
    CASE node.type = "literal"  -> {}
      [] node.type = "variable" -> {node.path}
      [] node.type \in {"unary", "exists"} -> VariablesIn(node.argument)
      [] node.type = "binary"     -> VariablesIn(node.left) \cup VariablesIn(node.right)
      [] node.type = "quantifier" -> VariablesIn(node.collection) \cup VariablesIn(node.predicate)

-----------------------------------------------------------------------------
(* Text to tree. *)

EscapedChars == [quote |-> "quote", slash |-> "slash", newline |-> "n", tab |-> "t"]

\* Mutant: a backslash is not escaped.
EscapeString_NoSlash(chars) ==
    FlattenSeq([i \in DOMAIN chars |->
        IF chars[i] \in DOMAIN EscapedChars \ {"slash"} THEN <<"slash", EscapedChars[chars[i]]>>
                                                        ELSE <<chars[i]>>])

\* escapeString and unescapeString, on sequences of characters.
EscapeString(chars) ==
    FlattenSeq([i \in DOMAIN chars |->
        IF chars[i] \in DOMAIN EscapedChars THEN <<"slash", EscapedChars[chars[i]]>>
                                            ELSE <<chars[i]>>])

RECURSIVE UnescapeString(_)
UnescapeString(chars) ==
    IF chars = <<>> THEN <<>>
    ELSE IF Len(chars) > 1 /\ chars[1] = "slash" /\ chars[2] \in Range(EscapedChars)
    THEN <<CHOOSE c \in DOMAIN EscapedChars : EscapedChars[c] = chars[2]>>
         \o UnescapeString(SubSeq(chars, 3, Len(chars)))
    ELSE <<Head(chars)>> \o UnescapeString(Tail(chars))

\* Mutant: an escaped quote ends the string.
Closes_AnyQuote(chars) == "quote" \notin Range(chars)

\* findClosingQuote: the quote that ends a string is its own last one.
RECURSIVE Closes(_)
Closes(chars) ==
    IF chars = <<>> THEN TRUE
    ELSE IF Head(chars) = "slash" THEN Len(chars) > 1 /\ Closes(SubSeq(chars, 3, Len(chars)))
    ELSE Head(chars) # "quote" /\ Closes(Tail(chars))

Other == <<"other">>

\* tokenize succeeds.
Tokenizes(text) ==
    \A i \in DOMAIN text :
        /\ text[i] # Other
        /\ text[i][1] = "string" => Closes(text[i][2])

Failed == [ok |-> FALSE]
Parsed(node, rest) == [ok |-> TRUE, node |-> node, rest |-> rest]

Starts(tokens, kind, values) ==
    tokens # <<>> /\ Head(tokens)[1] = kind /\ Head(tokens)[2] \in values

\* The result of a parse once the token that must follow it is consumed.
Followed(parse, kind, value) ==
    IF parse.ok /\ Starts(parse.rest, kind, {value})
    THEN Parsed(parse.node, Tail(parse.rest)) ELSE Failed

\* parseOr, parseAnd, parseEquality and parseComparison differ in their
\* operators; each associates to the left.
Levels == <<{"||"}, {"&&"}, {"==", "!="}, {">", ">=", "<", "<="}>>

RECURSIVE ParseLevel(_, _), ParseOperators(_, _), ParseUnary(_), ParsePrimary(_),
          ParseExists(_), ParseQuantifier(_, _)
ParseExpression(tokens) == ParseLevel(1, tokens)

ParseLevel(level, tokens) ==
    IF level > Len(Levels) THEN ParseUnary(tokens)
    ELSE ParseOperators(level, ParseLevel(level + 1, tokens))

ParseOperators(level, left) ==
    IF ~left.ok \/ ~Starts(left.rest, "operator", Levels[level]) THEN left
    ELSE LET right == ParseLevel(level + 1, Tail(left.rest))
         IN IF ~right.ok THEN Failed
            ELSE ParseOperators(level,
                     Parsed(Binary(Head(left.rest)[2], left.node, right.node), right.rest))

ParseUnary(tokens) ==
    IF ~Starts(tokens, "not", {"!"}) THEN ParsePrimary(tokens)
    ELSE LET argument == ParseUnary(Tail(tokens))
         IN IF argument.ok THEN Parsed(Not(argument.node), argument.rest) ELSE Failed

ParsePrimary(tokens) ==
    IF tokens = <<>> THEN Failed
    ELSE LET token == Head(tokens)
             rest  == Tail(tokens)
         IN CASE token[1] = "number"  -> Parsed(Literal(IF Len(token) = 1 THEN NaN ELSE token), rest)
              [] token[1] = "boolean" -> Parsed(Literal(token), rest)
              [] token[1] = "string"  -> Parsed(Literal(String(UnescapeString(token[2]))), rest)
              [] token = <<"paren", "(">> -> Followed(ParseExpression(rest), "paren", ")")
              [] token[1] = "identifier" ->
                   CASE /\ token[2] \in {<<"some">>, <<"all">>}
                        /\ Starts(rest, "paren", {"("}) -> ParseQuantifier(token[2][1], Tail(rest))
                     [] token[2] = <<"exists">> -> ParseExists(rest)
                     [] token[2] = <<"null">>   -> Parsed(Literal(NullValue), rest)
                     [] OTHER                   -> Parsed(Variable(token[2]), rest)
              [] OTHER -> Failed

ParseExists(tokens) ==
    IF ~Starts(tokens, "paren", {"("}) THEN Failed
    ELSE LET argument == Followed(ParseExpression(Tail(tokens)), "paren", ")")
         IN IF argument.ok THEN Parsed(Exists(argument.node), argument.rest) ELSE Failed

\* The part after "some(": the collection, "as" and an alias without points
\* if there is one, a comma and the predicate.
ParseQuantifier(operator, tokens) ==
    LET collection == ParseExpression(tokens)
        provided   == collection.ok /\ Starts(collection.rest, "identifier", {<<"as">>})
        named      == provided /\ Len(collection.rest) > 1 /\ collection.rest[2][1] = "identifier"
                      /\ Len(collection.rest[2][2]) = 1
        alias      == IF provided THEN collection.rest[2][2][1] ELSE "item"
        after      == IF provided THEN SubSeq(collection.rest, 3, Len(collection.rest))
                      ELSE collection.rest
    IN IF ~collection.ok \/ (provided /\ ~named) \/ ~Starts(after, "comma", {","}) THEN Failed
       ELSE LET predicate == Followed(ParseExpression(Tail(after)), "paren", ")")
            IN IF ~predicate.ok THEN Failed
               ELSE Parsed(Quantifier(operator, collection.node, predicate.node, alias, provided),
                           predicate.rest)

\* The whole text must be one expression (ensureEnd).
Parse(text) ==
    LET parse == ParseExpression(text)
    IN IF text # <<>> /\ Tokenizes(text) /\ parse.ok /\ parse.rest = <<>> THEN parse ELSE Failed

-----------------------------------------------------------------------------
(* Tree to text. *)

Precedence(node) ==
    CASE node.type = "unary" -> 4
      [] node.type = "binary" /\ node.operator \in Comparisons -> 3
      [] node.type = "binary" /\ node.operator = "&&" -> 2
      [] node.type = "binary" /\ node.operator = "||" -> 1
      [] OTHER -> 5

\* Mutant: comparisons are taken for associative.
NeedsParens_Associative(child, parent) == Precedence(child) < Precedence(parent)

\* needsParensForChild, needsParensForUnary.
NeedsParens(child, parent) ==
    \/ Precedence(child) < Precedence(parent)
    \/ /\ Precedence(child) = Precedence(parent)
       /\ child.type = "binary"
       /\ child.operator # parent.operator \/ child.operator \in Comparisons

\* formatLiteral: String(value) of a number may have a sign or an exponent.
FormatLiteral(value) ==
    CASE value[1] = "string" -> <<<<"string", EscapeString(value[2])>>>>
      [] value = NullValue   -> <<<<"identifier", <<"null">>>>>>
      [] value = NaN         -> <<<<"identifier", <<"NaN">>>>>>
      [] value[1] = "number" /\ (value[2] < 0 \/ value[2] \in Exponential) -> <<Other>>
      [] OTHER               -> <<value>>

Reserved == {<<"true">>, <<"false">>, <<"null">>, <<"exists">>}

\* A path as it is written, and as tokenize will read it.
WrittenName(path) ==
    CASE Range(path) \cap Foreign # {} -> <<Other>>
      [] path = <<"true">>  -> <<Boolean(TRUE)>>
      [] path = <<"false">> -> <<Boolean(FALSE)>>
      [] OTHER -> <<<<"identifier", path>>>>

InParens(text) == <<<<"paren", "(">>>> \o text \o <<<<"paren", ")">>>>

RECURSIVE Render(_)
Render(node) ==
    LET Child(child) == IF NeedsParens(child, node) THEN InParens(Render(child)) ELSE Render(child)
        Call(name, inner) == <<<<"identifier", <<name>>>>>> \o InParens(inner)
    IN CASE node.type = "literal"  -> FormatLiteral(node.value)
         [] node.type = "variable" -> WrittenName(node.path)
         [] node.type = "unary"    -> <<<<"not", "!">>>> \o Child(node.argument)
         [] node.type = "binary"   ->
              Child(node.left) \o <<<<"operator", node.operator>>>> \o Child(node.right)
         [] node.type = "exists"   -> Call("exists", Render(node.argument))
         [] node.type = "quantifier" ->
              Call(node.operator, Render(node.collection)
                  \o (IF node.aliasProvided
                      THEN <<<<"identifier", <<"as">>>>>> \o WrittenName(<<node.alias>>) ELSE <<>>)
                  \o <<<<"comma", ",">>>> \o Render(node.predicate))

-----------------------------------------------------------------------------
(* Tree and JSON-Logic. *)

\* flattenLogical: operands that are themselves of the kind are spliced in.
FlattenLogical(kind, operands) ==
    FlattenSeq([i \in DOMAIN operands |->
        IF operands[i][1] = kind THEN operands[i][2] ELSE <<operands[i]>>])

\* expressionToJsonLogic.
RECURSIVE ToLogic(_)
ToLogic(node) ==
    CASE node.type = "literal"  -> <<"literal", node.value>>
      [] node.type = "variable" -> <<"var", node.path>>
      [] node.type = "unary"    -> <<"!", ToLogic(node.argument)>>
      [] node.type = "exists"   -> <<"exists", node.argument.path>>
      [] node.type = "binary"   ->
           LET operands == <<ToLogic(node.left), ToLogic(node.right)>>
           IN CASE node.operator = "&&" -> <<"and", FlattenLogical("and", operands)>>
                [] node.operator = "||" -> <<"or", FlattenLogical("or", operands)>>
                [] OTHER -> <<node.operator>> \o operands
      [] node.type = "quantifier" ->
           <<node.operator, ToLogic(node.collection), ToLogic(node.predicate),
             IF node.aliasProvided \/ node.alias # "item" THEN <<node.alias>> ELSE <<>> >>

\* normaliseVarFromJsonLogic: a path that is neither in the catalog nor below
\* an alias belongs to the innermost item.
NormaliseVar(path, aliases) ==
    IF path \in Paths \/ aliases = <<>> \/ (path # <<>> /\ Head(path) \in Range(aliases))
    THEN path ELSE <<Last(aliases)>> \o path

\* jsonLogicToExpression; Failed stands for the errors it throws.
RECURSIVE FromLogic(_, _)
FromLogic(expr, aliases) ==
    LET operator == expr[1]
        FoldLogical(symbol) ==
            LET nodes == [i \in DOMAIN expr[2] |-> FromLogic(expr[2][i], aliases)]
            IN FoldLeft(LAMBDA left, right : Binary(symbol, left, right), Head(nodes), Tail(nodes))
    IN CASE operator = "literal" -> Literal(expr[2])
         [] operator = "var"     -> Variable(NormaliseVar(expr[2], aliases))
         [] operator = "exists"  -> Exists(Variable(NormaliseVar(expr[2], aliases)))
         [] operator = "!"       -> Not(FromLogic(expr[2], aliases))
         [] operator = "and"     -> FoldLogical("&&")
         [] operator = "or"      -> FoldLogical("||")
         [] operator \in Comparisons ->
              Binary(operator, FromLogic(expr[2], aliases), FromLogic(expr[3], aliases))
         [] operator \in Quantifiers ->
              LET alias == AliasOf(expr[4])
              IN Quantifier(operator, FromLogic(expr[2], aliases),
                            FromLogic(expr[3], Append(aliases, alias)), alias, alias # "item")

-----------------------------------------------------------------------------
(* Validation against the catalog. *)

\* defaultAllowedOperatorsForType.
AllowedOperators(type) == IF type = "number" THEN Comparisons ELSE {"==", "!="}

IsAlias(path, scopes) == Head(path) \in Range(scopes)

\* isLiteralTypeCompatible.
LiteralFits(node, type) ==
    \/ node.type # "literal"
    \/ node.value[1] = type
    \/ node.value = NullValue
    \/ node.value = NaN /\ type = "number"

\* validateComparisonOperandTypes: literals against every variable of the
\* other side, variables of both sides against each other.
TypesAgree(node) ==
    LET left  == VariablesIn(node.left) \cap Paths
        right == VariablesIn(node.right) \cap Paths
    IN /\ \A path \in left  : LiteralFits(node.right, TypeOf(path))
       /\ \A path \in right : LiteralFits(node.left, TypeOf(path))
       /\ \A l \in left, r \in right : TypeOf(l) = TypeOf(r)

\* Whether a predicate marks the scope of its quantifier as used.
RECURSIVE Refers(_, _)
Refers(node, alias) ==
    CASE node.type \in {"literal", "exists"} -> FALSE
      [] node.type = "variable" -> Head(node.path) = alias
      [] node.type = "unary"    -> Refers(node.argument, alias)
      [] node.type = "binary"   ->
           \/ Refers(node.left, alias) \/ Refers(node.right, alias)
           \/ node.operator \in Comparisons /\ \E path \in VariablesIn(node) : Head(path) = alias
      [] node.type = "quantifier" ->
           \/ Refers(node.collection, alias)
           \/ node.alias # alias /\ Refers(node.predicate, alias)

\* validateNode reports no error.
RECURSIVE Valid(_, _)
Valid(node, scopes) ==
    CASE node.type = "literal"  -> TRUE
      [] node.type = "variable" -> IsAlias(node.path, scopes) \/ node.path \in Paths
      [] node.type = "unary"    -> Valid(node.argument, scopes)
      [] node.type = "binary"   ->
           /\ Valid(node.left, scopes) /\ Valid(node.right, scopes)
           /\ node.operator \in Comparisons =>
                /\ \A path \in VariablesIn(node) \cap Paths :
                      IsAlias(path, scopes) \/ node.operator \in AllowedOperators(TypeOf(path))
                /\ TypesAgree(node)
      [] node.type = "exists" ->
           /\ node.argument.type = "variable"
           /\ ~IsAlias(node.argument.path, scopes)
           /\ node.argument.path \in Paths
      [] node.type = "quantifier" ->
           /\ Valid(node.collection, scopes)
           /\ node.collection.type = "variable"
           /\ node.collection.path \in Paths => TypeOf(node.collection.path) = "array"
           /\ Valid(node.predicate, Append(scopes, node.alias))
           /\ Refers(node.predicate, node.alias)

-----------------------------------------------------------------------------

\* parseDsl: the JSON-Logic to store and the canonical text.
ParseDsl(text) ==
    LET parse == Parse(text)
        tree  == Rename(parse.node, "canonical")
    IN IF ~parse.ok \/ ~Valid(tree, <<>>) THEN Failed
       ELSE [ok |-> TRUE, logic |-> ToLogic(tree), canonical |-> Render(Rename(tree, "shown"))]

\* toDsl: the text that shows a stored expression.
ToDsl(logic) ==
    LET tree == FromLogic(logic, <<>>)
    IN IF ~Valid(tree, <<>>) THEN Failed
       ELSE [ok |-> TRUE, expression |-> Render(Rename(tree, "shown"))]
==============================================================================
