-------------------------- MODULE MCConditionDrafts --------------------------
(* Conditions over a number, a flag, a facet with an alias and two lists.  *)
EXTENDS ConditionDrafts

n == <<"run", "n">>
b == <<"run", "b">>
s == <<"meta", "facets", "s">>
xs == <<"list">>

MCVariables == <<
    [path |-> n,  names |-> <<n>>, type |-> "number"],
    [path |-> b,  names |-> <<b>>, type |-> "boolean"],
    [path |-> s,  names |-> << <<"facets", "s">>, <<"facets", "value", "s">> >>, type |-> "string"],
    [path |-> xs, names |-> <<>>, type |-> "array"] >>

\* 1000 stands for 10^21, which is written 1e+21.
MCExponential == {1000}
MCForeign == {"foo-bar", "r-1"}

Var(path) == <<"var", path>>
Lit(v)    == <<"literal", v>>
Chars     == <<"quote", "slash", "n", "newline">>

Atoms == <<
    <<"==", Var(n), Lit(Number(1))>>,
    <<">", Var(n), Lit(Number(0))>>,
    Var(b),
    <<"==", Var(s), Lit(String(Chars))>>,
    <<"exists", s>>,
    <<"some", Var(xs), <<"==", Var(<<"item", "v">>), Lit(Number(1))>>, <<>> >> >>

Lists == {
    <<"all", Var(xs), <<">=", Var(<<"r", "v">>), Var(n)>>, <<"r">> >>,
    <<"some", Var(xs), <<"==", Var(<<"v">>), Lit(Number(1))>>, <<>> >>,
    <<"some", Var(xs), <<"==", Var(<<"item", "v">>), Lit(Number(1))>>, <<"item">> >>,
    <<"some", Var(xs), <<"some", Var(<<"r", "t">>), <<"==", Var(<<"q">>), Var(<<"r", "v">>)>>, <<"q">> >>, <<"r">> >>,
    <<"some", Var(xs), <<"some", Var(<<"item", "t">>), <<"==", Var(<<"item", "v">>), Lit(Number(1))>>, <<>> >>, <<>> >> }

\* Conditions that have no text that is read back.
Strange == {
    <<"some", Var(xs), <<"==", Var(<<"item", "foo-bar">>), Lit(Number(1))>>, <<>> >>,
    <<"all", Var(xs), <<">", Var(<<"r-1", "v">>), Lit(Number(0))>>, <<"r-1">> >>,
    <<"some", Var(xs), <<"==", Var(<<"exists">>), Lit(Number(1))>>, <<"exists">> >>,
    <<"some", Var(xs), <<"==", Var(<<"true", "v">>), Lit(Number(1))>>, <<"true">> >>,
    <<"some", Var(xs), <<"!=", Var(<<"facets", "s">>), Lit(NullValue)>>, <<"facets">> >>,
    <<"<", Var(n), Lit(Number(1000))>> }

Pairs == {<<op, <<Atoms[i], Atoms[j]>> >> : op \in {"and", "or"}, i \in {1, 5}, j \in {4, 6}}
Compound ==
    {<<"!", e>> : e \in {Atoms[1], Atoms[5]} \cup Pairs}
    \cup {<<"or", <<Atoms[1], <<"and", <<Atoms[3], <<"or", <<Atoms[2], Atoms[5]>> >> >> >> >> >>,
          <<"or", << <<"or", <<Atoms[1], Atoms[2]>> >>, Atoms[3]>> >>,
          <<"!", <<"!", Var(b)>> >>,
          <<"==", <<"!", Var(b)>>, Lit(Boolean(TRUE))>>,
          <<"==", <<"==", Var(b), Lit(Boolean(FALSE))>>, Var(b)>>,
          <<"!=", Var(b), <<"==", Var(b), Var(b)>> >>,
          <<"!=", Var(s), Lit(NullValue)>>,
          <<">", Var(n), Lit(Number(-1))>>,
          <<"==", Var(<<"nowhere">>), Lit(Number(1))>>,
          <<"==", Var(n), Lit(Boolean(TRUE))>> }

First  == {Atoms[i] : i \in DOMAIN Atoms} \cup Pairs \cup Compound \cup Lists \cup Strange
Second == {<<"and", << <<">", Var(n), Lit(Number(-1))>>, Atoms[6]>> >>}
MCEnvelopes == {<<e, f>> : e \in First, f \in Second}

id(path) == <<"identifier", path>>
op(o) == <<"operator", o>>
open == <<"paren", "(">>
close == <<"paren", ")">>
comma == <<"comma", ",">>

MCTexts == {
    <<open, id(b), op("||"), <<"not", "!">>, id(<<"exists">>), open, id(<<"facets", "s">>), close, close,
      op("&&"), id(<<"facets", "value", "s">>), op("!="), <<"string", <<"slash", "slash", "n">> >> >>,
    <<id(<<"all">>), open, id(xs), id(<<"as">>), id(<<"item">>), comma, id(<<"item", "v">>), op(">="), id(n), close>>,
    <<id(<<"some">>), open, id(xs), comma, id(<<"some">>), open, id(<<"item", "t">>), comma,
      id(<<"item", "v">>), op("=="), <<"number", 1>>, close, close>>,
    <<id(<<"some">>), open, id(xs), id(<<"as">>), id(<<"r">>), comma, id(<<"some">>), open,
      id(<<"r", "t">>), id(<<"as">>), id(<<"q">>), comma, id(<<"q">>), op("=="), id(<<"r", "v">>), close, close>>,
    <<id(<<"some">>), open, id(xs), id(<<"as">>), id(<<"facets">>), comma, id(<<"facets", "s">>), op("=="),
      id(<<"null">>), op("||"), id(<<"facets", "v">>), op("=="), <<"number", 1>>, close>>,
    <<id(n), op("=="), <<"number">> >>,
    <<id(n), op("<"), <<"number", 1000>> >>,
    <<id(n), op(">"), Other, <<"number", 1>> >> }

Item(f) == Object(f)
MCPayloads == {
    Object([run |-> Object([n |-> Number(1), b |-> Boolean(TRUE)]), list |-> Array(<<>>)]),
    Object([run |-> Object([n |-> Number(0), b |-> Boolean(FALSE)]),
            meta |-> Object([facets |-> Object([s |-> String(Chars)])]),
            list |-> Array(<<Item([v |-> Number(1), t |-> Array(<<Number(1)>>)]), Item([v |-> Number(0), t |-> Array(<<>>)])>>)]),
    Object([run |-> Object([n |-> Number(-1)]),
            meta |-> Object([facets |-> Object([s |-> String(<<"newline", "x">>)])]),
            list |-> Array(<<Item([w |-> Number(1), t |-> Array(<<Item([v |-> Number(1)])>>)]), Item([v |-> Number(2), t |-> Array(<<Number(2), Item([v |-> Number(2)])>>)])>>)]),
    Object([v |-> Number(1), run |-> Object([n |-> Number(1), b |-> Boolean(TRUE)]),
            list |-> Array(<<Item([w |-> Number(1), run |-> Object([n |-> Number(5)])])>>)]) }
==============================================================================
