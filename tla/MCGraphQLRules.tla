---------------------------- MODULE MCGraphQLRules ----------------------------
(***************************************************************************)
(* Small repositories: where the configuration and the files are, and two  *)
(* files of SDL with the cases the rules tell apart.                        *)
(***************************************************************************)
EXTENDS GraphQLRules

\* Names.  "Query" is Q, "Mutation" M; KEY and TAG are federation directives.
Q == <<-17>>
MCRootNames == {<<"Query", Q>>, <<"Mutation", <<-13>>>>, <<"Subscription", <<-19>>>>}
T == <<-20>>
U == <<-21>>
W == <<-23>>
Z == <<-26>>
S == <<-19, 3>>
E == <<-5>>
I == <<-9>>
INT == <<-9, 14, 20>>
KEY == <<11>>
TAG == <<20, 1>>
MCLink == <<12, 11>>
MCFieldSet == <<-6, -19>>
MCLinkTypes == <<<<12, 0, -16>>>>
MCDeprecated == <<4, 5>>
MCBuiltInTypes == {INT}
MCBuiltInDirectives == {MCDeprecated}
MCFederation == (KEY :> [fieldSet |-> TRUE, repeatable |-> TRUE])
                @@ (TAG :> [fieldSet |-> FALSE, repeatable |-> FALSE])

\* SDL.
Use(name) == [name |-> name, args |-> [a \in {} |-> ""], values |-> <<>>, version |-> "", imports |-> <<>>]
Import(name, as) == [shape |-> IF as = <<>> THEN "string" ELSE "map", at |-> TRUE, name |-> name, as |-> as]
LinkTo(version, imports) == [Use(MCLink) EXCEPT !.version = version, !.imports = imports,
    !.values = <<<<"string">>, <<"[", "{", "name", ":", "[", "string", "]", "string", "}", "]">>>>]
Old(args, reason) == [Use(MCDeprecated) EXCEPT !.args = args, !.values = <<reason>>]

Field(name, type) == [Node(name) EXCEPT !.type = type]
Value(name) == Node(name)
Type(kind, name, nodes) == [Plain(kind, name) EXCEPT !.nodes = nodes]
Extend(kind, name, nodes) == [Type(kind, name, nodes) EXCEPT !.ext = TRUE]
Said(n, desc) == [n EXCEPT !.desc = desc]
With(n, dirs) == [n EXCEPT !.dirs = dirs]
Hash(n, count, trailing, directive, adjacent) ==
    [n EXCEPT !.comment = [count |-> count, trailing |-> trailing, directive |-> directive, adjacent |-> adjacent]]
Doc(defs) == Document(FALSE, defs)
LinkDoc(defs) == [Doc(defs) EXCEPT !.link = TRUE]
Federated(link, defs) ==
    LinkDoc(<<[Extend("Schema", <<>>, <<>>) EXCEPT !.dirs = <<link>>]>> \o defs)

\* A root type with arguments and defaults, an enum, an input and a directive
\* for requests whose argument type nothing else uses.
Base ==
    LET x == [Field(<<24>>, I) EXCEPT !.default = <<"[", "{", "name", ":", "[", "string", "]", "}", "string", "]">>]
        y == Said(With(Field(<<25>>, INT), <<Old("reason" :> "text" @@ "deletionDate" :> "passed", <<"[", "[", "string", "]", "string", "]">>)>>), "block")
    IN Doc(<<
        Said(Type("Object", Q, <<
            Hash(Said([Field(<<6>>, T) EXCEPT !.args = <<x, y>>], "block"), 1, TRUE, FALSE, TRUE),
            Hash(With(Field(<<0, 7>>, E), <<Old("reason" :> "blank", <<"string">>)>>), 2, FALSE, FALSE, TRUE),
            Field(<<17, 1>>, W)>>), "inline"),
        Said(Type("Enum", E, <<Value(<<-1>>), Said(Value(<<2>>), "inline")>>), "block"),
        With(Type("InputObject", I, <<Said(Field(<<1>>, INT), "inline"), Field(<<-2, 0>>, INT)>>), <<>>),
        [Type("Directive", <<18, 1>>, <<Said(Field(<<26, 1>>, S), "inline"), Field(<<3>>, INT)>>) EXCEPT !.request = TRUE]>>)

\* The rest of it, and extensions of it: fields out of order only across the
\* two files, a value that differs in case, a directive used in both.
AtMostOnce == [Type("Directive", <<15>>, <<>>) EXCEPT !.repeatable = FALSE]
Rest(dirs) == Doc(<<
    With(Type("Object", T, <<Field(<<1>>, INT), Field(<<20, 2>>, INT)>>), dirs),
    [Type("Interface", W, <<Field(<<1>>, U)>>) EXCEPT !.desc = "block"],
    [Type("Object", Z, <<With(Field(<<1>>, INT), <<Use(<<18, 1>>)>>), Field(<<-2>>, INT), Field(<<3>>, INT)>>) EXCEPT !.refs = <<W>>],
    Type("Scalar", U, <<>>), Type("Scalar", S, <<>>), AtMostOnce,
    [Extend("Object", T, <<Field(<<-1>>, INT), Said(Field(<<2>>, INT), "block")>>) EXCEPT !.dirs = dirs],
    Extend("Enum", E, <<Value(<<1>>), Value(<<-2, -1>>)>>),
    Extend("Object", <<-24>>, <<With(Said(Field(<<5>>, INT), "inline"), <<Use(MCDeprecated)>>)>>)>>)

\* Blank descriptions, alone and next to others.
BlankOnly == Doc(<<Said(Type("Object", Q, <<Said(Field(<<1>>, INT), "blank")>>), "none")>>)
BlankAmong == Doc(<<Said(Type("Object", Q, <<Said(Field(<<1>>, INT), "blank")>>), "inline")>>)

Small(dirs) == Doc(<<Type("Object", Q, <<With(Field(<<1>>, INT), dirs)>>)>>)
Twice == Doc(<<Type("Object", Q, <<Field(<<1>>, INT), Field(<<1>>, U)>>)>>)
WithSchema == Doc(<<Type("Object", U, <<Field(<<1>>, INT)>>), Type("Object", Q, <<Field(<<1>>, INT)>>),
                    [Type("Schema", <<>>, <<>>) EXCEPT !.roots = {<<"Query", U>>}]>>)
\* Roots named by an extension of no schema block; an interface whose only
\* implementation is an extension of no type.
ExtendedSchema == Doc(<<Type("Object", Q, <<Field(<<1>>, INT)>>), Type("Object", U, <<Field(<<1>>, W)>>),
                        [Type("Interface", W, <<Field(<<1>>, INT)>>) EXCEPT !.desc = "block"],
                        [Extend("Object", T, <<Field(<<1>>, INT), Field(<<2>>, E)>>) EXCEPT !.refs = <<W>>],
                        Type("Enum", E, <<Value(<<-1>>)>>),
                        [Extend("Schema", <<>>, <<>>) EXCEPT !.roots = {<<"Query", U>>}]>>)
TwoSchemas == Doc(<<Type("Object", Q, <<Field(<<1>>, INT)>>)>> \o
                  [i \in 1 .. 2 |-> [Type("Schema", <<>>, <<>>) EXCEPT !.roots = {<<"Query", Q>>}]])
Union == Doc(<<Type("Object", Q, <<Field(<<1>>, W)>>),
               [Type("Union", W, <<>>) EXCEPT !.refs = <<T>>], Type("Object", T, <<Field(<<1>>, INT)>>)>>)

\* The configuration.
Raw(severity) == [shape |-> "scalar", items |-> <<<<"string", severity>>>>]
RawWith(severity, opts) == [shape |-> "sequence", items |-> <<<<"string", severity>>, <<"map", opts>>>>]
Yes == <<"bool", TRUE>>
AllRules ==
    "require-description" :> RawWith("warn", "types" :> Yes @@ "InputObjectTypeDefinition" :> <<"bool", FALSE>>
        @@ "rootField" :> Yes @@ "InputValueDefinition" :> Yes @@ "EnumValueDefinition" :> Yes)
    @@ "description-style" :> Raw("error")
    @@ "no-hashtag-description" :> Raw("error")
    @@ "require-deprecation-reason" :> Raw("error")
    @@ "require-deprecation-date" :> RawWith("error", "argumentName" :> <<"list", <<>>>>)
    @@ "no-typename-prefix" :> Raw("error")
    @@ "naming-convention" :> RawWith("error",
        "types" :> <<"string", "PascalCase">> @@ "EnumValueDefinition" :> <<"string", "UPPER_CASE">>
        @@ "FieldDefinition" :> <<"map", "style" :> <<"string", "camelCase">> @@ "forbiddenPrefixes" :> <<"list", <<<<17>>>>>>>>
        @@ "FieldDefinition[parent.name.value=Query]" :> <<"map", "suffix" :> <<"string", <<1>>>> @@ "ignorePattern" :> <<"regexp", {<<6>>}>>>>
        @@ "DirectiveDefinition" :> <<"list", <<>>>>)
    @@ "no-case-insensitive-enum-values-duplicates" :> Raw("error")
    @@ "alphabetize" :> RawWith("error", "fields" :> <<"list", <<"ObjectTypeDefinition">>>>
        @@ "values" :> <<"list", <<"EnumTypeDefinition">>>> @@ "arguments" :> <<"list", <<"FieldDefinition", "DirectiveDefinition">>>>)
    @@ "no-unreachable-types" :> Raw("warn")
    @@ "unique-directive-names-per-location" :> Raw("error")
    @@ "possible-type-extension" :> Raw("error")

Only(rules) == [r \in rules |-> AllRules[r]]
Yaml(rules) == [broken |-> FALSE, exclude |-> {}, federation |-> "", scalars |-> <<>>, rules |-> rules]
Descriptions == {"require-description", "description-style", "require-deprecation-reason"}

\* A repository with two files, linted from its top.
File(rank, doc) == [ext |-> ".graphql", rank |-> rank, doc |-> doc]
Repo(yaml, a, b) ==
    [cwd |-> <<"repo">>, configs |-> <<"repo">> :> yaml, gits |-> {<<"repo">>}, flag |-> <<>>,
     tree |-> <<"repo", "a">> :> File(1, a) @@ <<"repo", "b">> :> File(2, b),
     args |-> <<<<".">>>>, excludes |-> {}]

BlankWorlds == {Repo(Yaml(Only(Descriptions)), a, Doc(<<>>)) : a \in {BlankOnly, BlankAmong}}

RuleWorlds ==
    {Repo(Yaml(AllRules), Base, Rest(<<Use(<<15>>)>>)),
     Repo(Yaml([AllRules EXCEPT !["alphabetize"] = Raw("off"), !["description-style"] =
                    RawWith("error", "style" :> <<"string", "inline">>)]), Rest(<<>>), Base)}
    \cup {Repo(Yaml(Only({r})), Base, Rest(<<>>)) : r \in {"no-unreachable-types", "require-deprecation-date"}}
    \cup BlankWorlds \cup {Repo(Yaml(Only(Descriptions)), WithSchema, Doc(<<>>))}
    \cup {Repo(Yaml(Only({"no-unreachable-types"})), a, Doc(<<>>)) : a \in {WithSchema, ExtendedSchema, TwoSchemas, Union}}

FederationWorlds ==
    {Repo([Yaml(Only({"no-unreachable-types", "unique-directive-names-per-location"})) EXCEPT
               !.federation = v, !.scalars = s], Small(<<Use(u)>>), b) :
        v \in {"", "v2", "v9"}, s \in {<<>>, <<U>>}, u \in {KEY, TAG, <<1>>},
        b \in {Federated(LinkTo("v2", is), <<>>) :
                   is \in {<<>>, <<Import(KEY, <<>>)>>, <<Import(KEY, <<>>), Import(KEY, <<>>)>>, <<Import(KEY, <<1>>), Import(TAG, <<>>)>>,
                           <<[Import(TAG, <<>>) EXCEPT !.at = FALSE]>>, <<Import(<<2>>, <<>>)>>}}
              \cup {Federated(LinkTo("v3", <<>>), <<>>), Federated(LinkTo("", <<>>), <<Type("Scalar", U, <<>>)>>),
                    [LinkDoc(<<>>) EXCEPT !.broken = TRUE], [Doc(<<>>) EXCEPT !.broken = TRUE]}}

\* Where the configuration and the files may be.
Broken == [Yaml(Only({})) EXCEPT !.broken = TRUE]
Configs == {[c \in {} |-> Broken]}
           \cup {(d :> [Yaml(Only({})) EXCEPT !.exclude = x]) : d \in {<<>>, <<"repo">>, <<"repo", "s">>},
                  x \in {{}, {<<"s", "**">>}, {<<"**", "g">>}, {<<"s", "*">>}}}
           \cup {<<"repo">> :> Broken, <<"repo">> :> Yaml("alphabetize" :> Raw("loud")),
                 <<"repo">> :> Yaml("known-directives" :> Raw("off")),
                 <<"repo">> :> Yaml("alphabetize" :> [shape |-> "map", items |-> <<>>])}
           \cup {(<<"repo">> :> Broken) @@ (<<"repo", "s">> :> Yaml(Only({})))}

FindWorlds ==
    {[cwd |-> cwd, configs |-> cs, gits |-> {g}, flag |-> flag,
      tree |-> <<"repo", "s", "g">> :> File(1, Small(<<>>)) @@ <<"repo", "s", "t", "g">> :> File(2, Doc(<<>>))
               @@ <<"repo", "s", "q">> :> [File(3, [Doc(<<>>) EXCEPT !.operations = TRUE]) EXCEPT !.ext = ".txt"]
               @@ <<"repo", "u">> :> File(4, Twice),
      args |-> args, excludes |-> excludes] :
        cwd \in {<<"repo">>, <<"repo", "s">>}, cs \in Configs, g \in {<<"repo">>, <<"repo", "s">>, <<"elsewhere">>},
        flag \in {<<>>, <<Yaml(Only({}))>>},
        args \in {<<<<".">>>>, <<<<"s">>>>, <<<<".", "g">>, <<"q">>>>, <<<<"s">>, <<"s", "g">>>>},
        excludes \in {{}, {<<"**", "t", "**">>}}}

MCWorlds == RuleWorlds \cup FederationWorlds \cup FindWorlds
=============================================================================
