---------------------------- MODULE MCYamlQuery ----------------------------
(***************************************************************************)
(* Instances of YamlQuery for TLC: a handful of documents that between them*)
(* have every kind of node, the filters that pass on, copy, edit and drop  *)
(* parts of them, and command lines that combine them with every flag.     *)
(***************************************************************************)
EXTENDS YamlQuery

Keys == <<"1", "2", "3", "a", "b", "c", "x", "y", "z">>

S(v)       == [kind |-> "scalar", val |-> v, keys |-> <<>>, to |-> <<>>, above |-> FALSE, head |-> FALSE, comment |-> FALSE, anchor |-> FALSE]
C(kind, keys) == [S(Null) EXCEPT !.kind = kind, !.keys = keys]
Alias(to)  == [S(Null) EXCEPT !.kind = "alias", !.to = to]
Commented(node) == [node EXCEPT !.comment = TRUE, !.above = TRUE]  \* an entry's value
Noted(node)     == [node EXCEPT !.comment = TRUE, !.head = TRUE]   \* an item
Anchored(node)  == [node EXCEPT !.anchor = TRUE]

one == Num("1", "json")
two == Num("2", "json")
dot == Num(".5", "native")
neg == Num("-.5", "bad")
inf == Num("inf", "inf")

Nested == (<<>> :> C("map", <<"b", "a">>)) @@ (<<"b">> :> Commented(S(dot)))
          @@ (<<"a">> :> Anchored(C("map", <<"z", "y">>)))
          @@ (<<"a", "z">> :> Commented(S(neg))) @@ (<<"a", "y">> :> Anchored(S(Text("s"))))
Aliased == (<<>> :> C("map", <<"z", "c", "a">>)) @@ (<<"z">> :> Commented(C("map", <<"y", "b">>)))
           @@ (<<"z", "y">> :> Commented(Anchored(S(one)))) @@ (<<"z", "b">> :> S(Text("s")))
           @@ (<<"c">> :> Alias(<<"z">>)) @@ (<<"a">> :> Alias(<<"z", "y">>))
MergeKey == (<<>> :> C("map", <<"x", "a">>)) @@ (<<"x">> :> C("map", <<"z", "b">>))
            @@ (<<"x", "z">> :> S(one)) @@ (<<"x", "b">> :> S(two))
            @@ (<<"a">> :> C("map", <<"<<", "b">>)) @@ (<<"a", "<<">> :> Alias(<<"x">>))
            @@ (<<"a", "b">> :> Commented(S(one)))
List == (<<>> :> C("seq", <<"1", "2", "3">>)) @@ (<<"1">> :> Noted(S(one)))
        @@ (<<"2">> :> Noted(Anchored(C("map", <<"b", "a">>)))) @@ (<<"2", "b">> :> Commented(S(one)))
        @@ (<<"2", "a">> :> Alias(<<"1">>)) @@ (<<"3">> :> Noted(Alias(<<"2">>)))
Endless == (<<>> :> C("map", <<"b", "a">>)) @@ (<<"b">> :> S(inf)) @@ (<<"a">> :> S(one))
Scalar == <<>> :> S(two)

K(key, at, type) == [key |-> key, at |-> at, type |-> type, val |-> one]
Tables == << K(<<"b">>, <<"b">>, "scalar"), K(<<"a", "z">>, <<"a", "z">>, "table"), K(<<"a", "z", "y">>, <<"a", "z", "y">>, "scalar"),
             K(<<"a", "z", "b">>, <<"a", "z", "b">>, "scalar"), K(<<"a">>, <<"a">>, "table"), K(<<"a", "c">>, <<"a", "c">>, "scalar") >>
ArrayOfTables == << K(<<"z">>, <<"z", "1">>, "tables"), K(<<"z", "y">>, <<"z", "1", "y">>, "scalar"),
                    K(<<"z", "b">>, <<"z", "1", "b">>, "scalar"), K(<<"z">>, <<"z", "2">>, "tables"),
                    K(<<"z", "b">>, <<"z", "2", "b">>, "scalar"), K(<<"z", "a">>, <<"z", "2", "a">>, "scalar"),
                    K(<<"b">>, <<"b">>, "array"), K(<<"b", "z">>, <<"b", "1", "z">>, "scalar"),
                    K(<<"b", "a">>, <<"b", "1", "a">>, "scalar") >>
Reopened == << K(<<"a", "z">>, <<"a", "z">>, "table"), K(<<"a", "z", "y">>, <<"a", "z", "y">>, "scalar"),
               K(<<"a">>, <<"a">>, "table"), K(<<"a", "x">>, <<"a", "x">>, "scalar"),
               K(<<"a", "z", "c">>, <<"a", "z", "c">>, "table"), K(<<"a", "z", "c", "b">>, <<"a", "z", "c", "b">>, "scalar") >>

QueryFiles == ("n" :> <<Nested>>) @@ ("al" :> <<Aliased>>) @@ ("m" :> <<MergeKey, List>>) @@ ("-" :> <<Endless, Scalar>>)
              @@ ("t" :> <<Tables>>) @@ ("tt" :> <<ArrayOfTables>>)
ReopenedFiles == QueryFiles @@ ("re" :> <<Reopened>>)

Op(op, key, val) == [op |-> op, key |-> key, val |-> val]
Program(ops) == [vars |-> {op.key : op \in {o \in ToSet(ops) : o.op \in {"var", "use"}}}, ops |-> ops,
                 objects |-> <<"code">> :> [kind |-> "map", at |-> [k \in {"b", "z"} |-> Num("7", "native")]]]
QueryFilters ==
  (".") :> Program(<<Op(".", "", Null)>>)
  @@ "sub" :> Program(<<Op("value", "", Text("s")), Op("get", "a", Null)>>)
  @@ "edit" :> Program(<<Op("set", "b", Num("7", "native")), Op("set", "c", Text("s")), Op("del", "b", Null)>>)
  @@ "copy" :> Program(<<Op("copy", "x", Null), Op("value", "", inf), Op(".", "", Null)>>)
  @@ "vars" :> Program(<<Op("use", "a", Null), Op("var", "v", Null)>>)
  @@ "const" :> Program(<<Op("value", "", Ref(<<"code">>)), Op("set", "c", Ref(<<"code">>))>>)
  @@ "items" :> Program(<<Op("put", "1", Text("s")), Op("put", "1", Ref(<<"code">>)), Op("put", "2", one)>>)
  @@ "fail" :> Program(<<Op("value", "", Text("s")), Op("error", "", Null), Op(".", "", Null)>>)

Long(name)        == [t |-> "long", s |-> name, names |-> <<>>, arg |-> None]
LongEq(name, v)   == [Long(name) EXCEPT !.t = "longeq", !.arg = v]
Short(names)      == [Long("-") EXCEPT !.t = "short", !.names = names]
ShortArg(f, v)    == [Short(<<f>>) EXCEPT !.arg = v]
W(s)              == [Long(s) EXCEPT !.t = "text"]
End               == [Long("--") EXCEPT !.t = "end"]

PrintFlags == {<<>>, <<Long("sort-keys")>>, <<Short(<<"yaml-output">>)>>, <<Long("yml-roundtrip")>>,
              <<Short(<<"yaml-roundtrip", "sort-keys">>)>>, <<Long("slurp")>>}
BindBoth  == <<Long("argjson"), W("v"), W("2"), Long("slurpfile"), W("a"), W("m")>>
FileLists == {<<>>, <<W("n")>>, <<W("al")>>, <<W("m"), W("n")>>, <<W("n"), W("u")>>, <<W("bad")>>}

QueryJobs ==
  [fmt : {"yaml"}, words : {p \o BindBoth \o <<W(f)>> \o o : p \in PrintFlags, f \in DOMAIN QueryFilters, o \in FileLists}]
TOMLWords == {<<W(f), W(o)>> : f \in {".", "sub", "copy"}, o \in {"t", "tt", "u"}}
TOMLJobs == [fmt : {"toml"}, words : {p \o w : p \in PrintFlags, w \in TOMLWords}]

Bindings == {<<Long(f), W("v"), W(x)>> : f \in {"arg", "argjson", "slurpfile"}, x \in {"1", "m", "bad"}}
FlagWords == {<<>>, <<End>>, <<Short(<<"sort-keys", "unknown">>)>>, <<Short(<<"sort-keys", "width">>)>>,
              <<ShortArg("width", "number")>>, <<LongEq("width", "x")>>, <<LongEq("slurp", "x")>>,
              <<Long("unknown")>>, <<LongEq("unknown", "x")>>, <<Long("xml-output")>>, <<Long("version")>>,
              <<Long("in-place")>>, <<Long("yml-out-ver"), W("1.1")>>, <<Long("grammar-version"), W("")>>,
              <<Long("rawfile"), W("v"), W("m")>>, <<LongEq("arg", "v"), Short(<<"slurp">>)>>, <<Long("indentless")>>}
Tails == {<<>>, <<W("vars")>>, <<W(".")>>, <<W("none")>>, <<W("."), W("n")>>, <<Long("arg"), W("a")>>}
FlagJobs ==
  [fmt : {"yaml"}, words : {w \o t : w \in FlagWords, t \in Tails}]
  \cup [fmt : {"yaml"}, words : {v \o w \o <<Long("arg"), W("a"), W("1"), W("vars")>> : v, w \in Bindings}]
  \cup [fmt : {"toml"}, words : {w \o <<W("."), W("t")>> : w \in FlagWords}]

MCJobs == QueryJobs \cup TOMLJobs \cup FlagJobs

ReopenedJobs == {[fmt |-> "toml", words |-> <<W("."), W(o)>>] : o \in {"t", "tt", "re"}}
AnchorJobs == {[fmt |-> "yaml", words |-> <<Long("yaml-roundtrip"), W("."), W(o)>>] : o \in {"n", "m", "al"}}
=============================================================================
