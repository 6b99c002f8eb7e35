------------------------------ MODULE GraphQLRules ------------------------------
(***************************************************************************)
(* `devbase lint graphql` from the files it found (GraphQLConfig) to the   *)
(* violations it raises: the federation and scalars prelude, gqlparser's   *)
(* validation, the two gap-fill passes and the ten rules that run as       *)
(* concurrent goroutines (internal/graphql/lint).  What the comments in    *)
(* the files then take away or add is GraphQLLint's subject.               *)
(*                                                                         *)
(* A file has "defs", its definitions in the order they are written, and   *)
(* says whether it is "broken" (no SDL), holds "operations" only, and has  *)
(* the word "link" in it.  A node of a file -- a definition, a field, an   *)
(* argument, an enum value -- has                                          *)
(*   name      a sequence of letters: n > 0 is the n-th lower-case letter, *)
(*             -n its upper case, 0 an underscore                          *)
(*   desc      "none", "blank", "inline" or "block"                        *)
(*   comment   the "#" comments after its description: how many, whether   *)
(*             the first trails other code, whether the last is a lint     *)
(*             directive and is on the line above the node                 *)
(*   dirs      the directives applied to it                                *)
(*   type, default, args    those of a field or an argument                *)
(* and a definition also kind, ext (it extends a type), refs (interfaces   *)
(* and union members), nodes (fields, enum values, a directive's           *)
(* arguments), and request, repeatable (of a directive), roots (a schema). *)
(***************************************************************************)
EXTENDS GraphQLConfig

CONSTANTS
    FederationDirectives,   \* name -> [fieldSet, repeatable]
    SupportedVersions,      \* the federation versions with a prelude
    Link, LinkTypes, FieldSet,  \* names the federation prelude declares
    BuiltInTypes, BuiltInDirectives,    \* what gqlparser's prelude declares
    Deprecated,             \* the name of @deprecated
    RootNames               \* the root types' names when no schema { } says

TypeKinds == {"Scalar", "Object", "Interface", "Union", "Enum", "InputObject"}
Groups == {"typename", "naming", "enumdup", "alphabetize", "unreachable",
           "descriptions", "deprecation", "hashtag"}

\* A directive applied, a node (of a node the arguments too), a document.
IsUse(d) ==
    /\ d.name \in Name /\ IsSeq(d.imports)
    /\ \A i \in DOMAIN d.imports : d.imports[i].name \in Name /\ d.imports[i].as \in Name
IsNode(n) ==
    /\ n.name \in Name /\ n.type \in Name
    /\ IsSeq(n.dirs) /\ \A i \in DOMAIN n.dirs : IsUse(n.dirs[i])
    /\ IsSeq(n.args)
IsDefinition(def) ==
    /\ IsNode(def) /\ def.ext \in BOOLEAN
    /\ def.refs \in Seq(Name)
    /\ IsFiniteSet(def.roots) /\ \A r \in def.roots : r[2] \in Name
    /\ IsSeq(def.nodes)
    /\ \A j \in DOMAIN def.nodes :
           /\ IsNode(def.nodes[j])
           /\ \A k \in DOMAIN def.nodes[j].args : IsNode(def.nodes[j].args[k])
IsDocument(d) ==
    /\ d.prelude \in BOOLEAN /\ IsSeq(d.defs)
    /\ \A i \in DOMAIN d.defs : IsDefinition(d.defs[i])

ASSUME RulesAssumption ==
    /\ LinkTypes \in Seq(Name) /\ Link \in Name /\ FieldSet \in Name
    /\ DOMAIN FederationDirectives \subseteq Name
    /\ IsFiniteSet(RootNames) /\ \A r \in RootNames : r[2] \in Name
    /\ \A w \in Worlds : \A f \in DOMAIN w.tree : IsDocument(w.tree[f].doc) /\ ~w.tree[f].doc.prelude

VARIABLES
    sources,    \* what is linted together: the files, then the preludes
    results,    \* what each goroutine of tier3 that has ended returned
    raised,     \* the violations
    cause       \* why the run gave up

ruleVars == <<sources, results, raised, cause>>
vars == <<configVars, ruleVars>>

Violation(rule, pos, what) == [rule |-> rule, pos |-> pos, what |-> what]

-----------------------------------------------------------------------------
(* The parsed document.  A position is <<source, definition, node,          *)
(* argument>>, with 0 for the definition or the node itself.                *)

Def(p) == sources[p[1]].defs[p[2]]
NodeAt(p) == IF p[3] = 0 THEN Def(p)
             ELSE IF p[4] = 0 THEN Def(p).nodes[p[3]]
             ELSE Def(p).nodes[p[3]].args[p[4]]
Own(p) == [j \in DOMAIN Def(p).nodes |-> [p EXCEPT ![3] = j]]
Arguments(p) == [k \in DOMAIN NodeAt(p).args |-> [p EXCEPT ![4] = k]]
InScope(p) == ~sources[p[1]].prelude

Precedes(p, q) == \E i \in 1 .. 4 : p[i] < q[i] /\ \A j \in 1 .. i - 1 : p[j] = q[j]

Written(kinds, ext) ==
    Filter(FlattenSeq([s \in DOMAIN sources |->
                              [i \in DOMAIN sources[s].defs |-> <<s, i, 0, 0>>]]),
              LAMBDA p : Def(p).kind \in kinds /\ Def(p).ext = ext)

Definitions == Written(TypeKinds, FALSE)
Extensions == Written(TypeKinds, TRUE)
Directives == Written({"Directive"}, FALSE)
SchemaBlocks == Written({"Schema"}, FALSE)
SchemaExtensions == Written({"Schema"}, TRUE)

DefinedTypes == {Def(p).name : p \in ToSet(Definitions)}
ExtendedTypes == {Def(p).name : p \in ToSet(Extensions)}
DeclaredDirectives == {Def(p).name : p \in ToSet(Directives)}
Based(p) == Def(p).name \in DefinedTypes

\* validator.ValidateSchemaDocument merges an extension into its base.
Parts(name) == Filter(Definitions \o Extensions, LAMBDA p : Def(p).name = name)
Fields(p) == IF Def(p).ext THEN Own(p) ELSE ForEach(Parts(Def(p).name), Own)
AppliedTo(name) == ForEach(Parts(name), LAMBDA p : Def(p).dirs)
AppliedToSchema == ForEach(SchemaBlocks \o SchemaExtensions, LAMBDA p : Def(p).dirs)

\* The root types: those a schema block or an extension of it names; without
\* a block, for the other operations, those of the usual names.
NamedRoots == UNION {Def(p).roots : p \in ToSet(SchemaBlocks \o SchemaExtensions)}
Roots ==
    NamedRoots \cup
    IF SchemaBlocks # <<>> THEN {}
    ELSE {r \in RootNames : /\ r[2] \in DefinedTypes \cup ExtendedTypes
                            /\ \A n \in NamedRoots : n[1] # r[1]}
Role(name) == {r[1] : r \in {r \in Roots : r[2] = name}}

\* allDefinitions: the definitions, and the extensions of nothing.
AllDefinitions == Definitions \o Filter(Extensions, LAMBDA p : ~Based(p))

-----------------------------------------------------------------------------
(* Where a description may be.                                              *)

KindKey == [Scalar |-> "ScalarTypeDefinition", Object |-> "ObjectTypeDefinition",
            Interface |-> "InterfaceTypeDefinition", Union |-> "UnionTypeDefinition",
            Enum |-> "EnumTypeDefinition", InputObject |-> "InputObjectTypeDefinition"]

Site(p, option, key, role) == [pos |-> p, option |-> option, key |-> key, role |-> role]
InputSite(p) == Site(p, "InputValueDefinition", "", {})

MemberSite(def, p) ==
    CASE def.kind = "InputObject" -> InputSite(p)
      [] def.kind = "Enum" -> Site(p, "EnumValueDefinition", "", {})
      [] OTHER -> Site(p, "FieldDefinition", "", IF def.kind = "Object" THEN Role(def.name) ELSE {})

TypeSites(p) ==
    LET def == Def(p)
    IN When(~def.ext, Site(p, "types", KindKey[def.kind], {}))
       \o ForEach(Fields(p), LAMBDA f :
              <<MemberSite(def, f)>> \o ForEach(Arguments(f), LAMBDA a : <<InputSite(a)>>))

DescriptionSites ==
    ForEach(AllDefinitions, TypeSites)
    \o ForEach(Directives, LAMBDA p : <<Site(p, "DirectiveDefinition", "", {})>>
                                      \o ForEach(Own(p), LAMBDA a : <<InputSite(a)>>))
    \o ForEach(SchemaBlocks, LAMBDA p : <<Site(p, "SchemaDefinition", "", {})>>)

\* groupDescriptionSites: by the file each is written in, in file order.
SitesIn(s) ==
    LET sites == Filter(DescriptionSites, LAMBDA t : t.pos[1] = s)
        Before(i, j) == \/ Precedes(sites[i].pos, sites[j].pos)
                        \/ sites[i].pos = sites[j].pos /\ i < j
        rank == [i \in DOMAIN sites |-> Cardinality({j \in DOMAIN sites : Before(j, i)})]
    IN [n \in DOMAIN sites |-> sites[CHOOSE i \in DOMAIN sites : rank[i] = n - 1]]

Files == Filter([s \in DOMAIN sources |-> s], LAMBDA s : ~sources[s].prelude)
Described(site) == NodeAt(site.pos).desc \in {"inline", "block"}

\* requireDescriptionOptions.applies
Requires(opts, site) ==
    CASE site.option = "types" -> IF site.key \in DOMAIN opts THEN BoolOption(opts, site.key)
                                  ELSE BoolOption(opts, "types")
      [] site.option = "FieldDefinition" -> \/ BoolOption(opts, "FieldDefinition")
                                            \/ BoolOption(opts, "rootField") /\ site.role # {}
      [] site.option = "SchemaDefinition" -> FALSE
      [] OTHER -> BoolOption(opts, site.option)

MissingDescriptions(s) ==
    LET opts == Options(config, "require-description")
    IN ForEach(SitesIn(s), LAMBDA t :
           When(Requires(opts, t) /\ ~Described(t), Violation("require-description", t.pos, "")))

\* What gqlparser's lexer makes of a file.
DescTokens(n) == CASE n.desc = "none" -> <<>> [] n.desc = "block" -> <<"block">> [] OTHER -> <<"string">>
Within(open, tokens, close) == IF tokens = <<>> THEN <<>> ELSE <<open>> \o tokens \o <<close>>
UseTokens(d) == <<"@", "name">> \o Within("(", ForEach(d.values, LAMBDA v : <<"name", ":">> \o v), ")")
InputTokens(n) ==
    DescTokens(n) \o <<"name", ":", "[", "name", "]">>
    \o (IF n.default = <<>> THEN <<>> ELSE <<"=">> \o n.default) \o ForEach(n.dirs, UseTokens)
NodeTokens(kind, n) ==
    CASE kind = "Enum" -> DescTokens(n) \o <<"name">> \o ForEach(n.dirs, UseTokens)
      [] kind = "InputObject" -> InputTokens(n)
      [] OTHER -> DescTokens(n) \o <<"name">> \o Within("(", ForEach(n.args, InputTokens), ")")
                  \o <<":", "[", "name", "]">> \o ForEach(n.dirs, UseTokens)
DefTokens(d) ==
    DescTokens(d) \o
    IF d.kind = "Directive"
      THEN <<"name", "@", "name">> \o Within("(", ForEach(d.nodes, InputTokens), ")") \o <<"name", "name">>
      ELSE <<"name", "name">> \o ForEach(d.dirs, UseTokens)
           \o Within("{", ForEach(d.nodes, LAMBDA n : NodeTokens(d.kind, n)), "}")

SkipBalanced_FirstCloser(tokens, i, open, close) ==
    Min({e \in i .. Len(tokens) : tokens[e] = close} \cup {Len(tokens)}) + 1

\* skipBalanced: past the token that closes the one at i.
SkipBalanced(tokens, i, open, close) ==
    LET Count(t, e) == Cardinality({j \in i .. e : tokens[j] = t})
    IN Min({e \in i .. Len(tokens) : Count(open, e) = Count(close, e)} \cup {Len(tokens)}) + 1

SkipValue(tokens, i) ==
    CASE i > Len(tokens) -> i
      [] tokens[i] = "[" -> SkipBalanced(tokens, i, "[", "]")
      [] tokens[i] = "{" -> SkipBalanced(tokens, i, "{", "}")
      [] OTHER -> i + 1

Scan(tokens) ==
    LET scan[i \in 1 .. Len(tokens) + 1, directiveArgsActive \in BOOLEAN] ==
            CASE i > Len(tokens) -> <<>>
              [] tokens[i] = "(" -> scan[i + 1, i > 2 /\ tokens[i - 1] = "name" /\ tokens[i - 2] = "@"]
              [] tokens[i] = ")" -> scan[i + 1, FALSE]
              [] tokens[i] = ":" /\ directiveArgsActive -> scan[SkipValue(tokens, i + 1), TRUE]
              [] tokens[i] = "=" -> scan[SkipValue(tokens, i + 1), directiveArgsActive]
              [] tokens[i] \in {"string", "block"} -> <<tokens[i]>> \o scan[i + 1, directiveArgsActive]
              [] OTHER -> scan[i + 1, directiveArgsActive]
    IN scan[1, FALSE]

DescriptionTokens(s) == Scan(ForEach(sources[s].defs, DefTokens))

Mismatched(s) ==
    LET nonEmpty == Filter(SitesIn(s), Described)
    IN nonEmpty # <<>> /\ Len(nonEmpty) # Len(DescriptionTokens(s))

\* descriptionStyleViolations pairs the descriptions with the tokens.
WrongStyles(s) ==
    LET wanted == IF StringOption(Options(config, "description-style"), "style", "") = "inline"
                  THEN "string" ELSE "block"
        nonEmpty == Filter(SitesIn(s), Described)
        tokens == DescriptionTokens(s)
    IN FlattenSeq([i \in DOMAIN nonEmpty |->
           When(tokens[i] # wanted, Violation("description-style", nonEmpty[i].pos, tokens[i]))])

Tier3Descriptions ==
    LET style == Enabled(config, "description-style")
        Of(s) == (IF Enabled(config, "require-description") THEN MissingDescriptions(s) ELSE <<>>)
                 \o (IF style THEN WrongStyles(s) ELSE <<>>)
    IN IF style /\ \E s \in ToSet(Files) : Mismatched(s)
         THEN [error |-> "description token mismatch", violations |-> <<>>]
         ELSE [error |-> "", violations |-> ForEach(Files, Of)]

-----------------------------------------------------------------------------
(* The rules on @deprecated and on "#" comments.                            *)

\* directives.ForName: the first of them.  A type, directive or schema
\* definition's site has no directives.
Uses(site) ==
    IF site.option \in {"types", "DirectiveDefinition", "SchemaDefinition"} THEN <<>>
    ELSE Filter(NodeAt(site.pos).dirs, LAMBDA d : d.name = Deprecated)

MissingReasons(s) ==
    ForEach(SitesIn(s), LAMBDA t :
        When(/\ Uses(t) # <<>>
             /\ ~("reason" \in DOMAIN Uses(t)[1].args /\ Uses(t)[1].args["reason"] # "blank"),
             Violation("require-deprecation-reason", t.pos, "")))

\* The value of a date is "malformed", "unreal", "passed" or "future".
WrongDates(s) ==
    LET given == StringOption(Options(config, "require-deprecation-date"), "argumentName", "")
        name == IF given = "" THEN "deletionDate" ELSE given
        Date(t) == LET args == Uses(t)[1].args IN IF name \in DOMAIN args THEN args[name] ELSE "missing"
    IN ForEach(SitesIn(s), LAMBDA t :
           IF Uses(t) = <<>> THEN <<>>
           ELSE When(Date(t) # "future", Violation("require-deprecation-date", t.pos, Date(t))))

\* tier3Deprecation ranges over a map: the files come in any order.
Tier3Deprecation ==
    LET Of(s) == (IF Enabled(config, "require-deprecation-reason") THEN MissingReasons(s) ELSE <<>>)
                 \o (IF Enabled(config, "require-deprecation-date") THEN WrongDates(s) ELSE <<>>)
        perFile == Filter([s \in DOMAIN sources |-> Of(s)], LAMBDA v : v # <<>>)
    IN {FlattenSeq([i \in DOMAIN perFile |-> perFile[order[i]]]) :
            order \in {f \in [DOMAIN perFile -> DOMAIN perFile] : IsInjective(f)}}

Tier3Hashtag ==
    LET Unwanted(c) == /\ c.count > 0 /\ ~c.directive
                       /\ ~(c.count = 1 /\ c.trailing)
                       /\ c.adjacent
    IN IF ~Enabled(config, "no-hashtag-description") THEN <<>>
       ELSE ForEach(Files, LAMBDA s : ForEach(SitesIn(s), LAMBDA t :
                When(Unwanted(NodeAt(t.pos).comment), Violation("no-hashtag-description", t.pos, ""))))

-----------------------------------------------------------------------------
(* The rules on names.                                                      *)

Lower(name) == [i \in DOMAIN name |-> IF name[i] < 0 THEN -name[i] ELSE name[i]]
Less(a, b) ==
    \E i \in 1 .. Len(b) : /\ \A j \in 1 .. i - 1 : j <= Len(a) /\ a[j] = b[j]
                           /\ i > Len(a) \/ a[i] < b[i]

LocaleCompare_Bytes(a, b) == IF a = b THEN 0 ELSE IF Less(a, b) THEN -1 ELSE 1

\* localeCompare: by letter, and of two names of the same letters the one
\* with the lower case where they first differ.
LocaleCompare(a, b) ==
    IF Lower(a) # Lower(b) THEN IF Less(Lower(a), Lower(b)) THEN -1 ELSE 1
    ELSE IF a = b THEN 0
    ELSE LET i == Min({i \in DOMAIN a : a[i] # b[i]}) IN IF a[i] > 0 THEN -1 ELSE 1

CheckAlphaOrder(ps) ==
    LET written == Filter(ps, InScope)
    IN FlattenSeq([i \in DOMAIN written |->
           When(i > 1 /\ LocaleCompare(NodeAt(written[i - 1]).name, NodeAt(written[i]).name) = 1,
                Violation("alphabetize", written[i], ""))])

\* What alphabetize's options select of a definition.
Alphabetized(p) ==
    LET opts == Options(config, "alphabetize")
        kind == Def(p).kind
    IN When(\/ /\ kind \in {"Object", "Interface", "InputObject"}
               /\ KindKey[kind] \in SliceOption(opts, "fields")
            \/ kind = "Enum" /\ KindKey[kind] \in SliceOption(opts, "values"), Fields(p))
       \o (IF kind \in {"Object", "Interface"} /\ "FieldDefinition" \in SliceOption(opts, "arguments")
             THEN [j \in DOMAIN Fields(p) |-> Arguments(Fields(p)[j])] ELSE <<>>)

Tier3Alphabetize ==
    IF ~Enabled(config, "alphabetize") THEN <<>>
    ELSE ForEach(AllDefinitions, LAMBDA p : ForEach(Alphabetized(p), CheckAlphaOrder))
         \o (IF "DirectiveDefinition" \in SliceOption(Options(config, "alphabetize"), "arguments")
               THEN ForEach(Directives, LAMBDA p : CheckAlphaOrder(Own(p))) ELSE <<>>)

Tier3EnumDuplicates ==
    LET Repeats(p) ==
            LET values == Filter(Fields(p), InScope)
            IN FlattenSeq([i \in DOMAIN values |->
                   When(\E j \in 1 .. i - 1 : Lower(NodeAt(values[j]).name) = Lower(NodeAt(values[i]).name),
                        Violation("no-case-insensitive-enum-values-duplicates", values[i], ""))])
    IN IF ~Enabled(config, "no-case-insensitive-enum-values-duplicates") THEN <<>>
       ELSE ForEach(Filter(AllDefinitions, LAMBDA p : Def(p).kind = "Enum"), Repeats)

Tier3TypenamePrefix ==
    LET Prefixed(p) ==
            ForEach(Fields(p), LAMBDA f :
                When(InScope(f) /\ IsPrefix(Lower(Def(p).name), Lower(NodeAt(f).name)),
                     Violation("no-typename-prefix", f, "")))
    IN IF ~Enabled(config, "no-typename-prefix") THEN <<>>
       ELSE ForEach(Filter(AllDefinitions, LAMBDA p : Def(p).kind \in {"Object", "Interface"}), Prefixed)

\* A selector's value: a style, or a map of options.  A pattern that
\* compiles stands for the names it matches.
NamingRule(v) ==
    LET opts == IF v[1] = "map" THEN v[2] ELSE NoOptions
    IN [style |-> IF v[1] = "string" THEN v[2] ELSE StringOption(opts, "style", ""),
        prefix |-> StringOption(opts, "prefix", <<>>),
        suffix |-> StringOption(opts, "suffix", <<>>),
        forbiddenPrefixes |-> SliceOption(opts, "forbiddenPrefixes"),
        forbiddenSuffixes |-> SliceOption(opts, "forbiddenSuffixes"),
        ignored |-> IF Has(opts, "ignorePattern", "regexp") THEN opts["ignorePattern"][2] ELSE {}]

RootSelector == [Query |-> "FieldDefinition[parent.name.value=Query]",
                 Mutation |-> "FieldDefinition[parent.name.value=Mutation]",
                 Subscription |-> "FieldDefinition[parent.name.value=Subscription]"]

\* rulesFor: the site's own selector, or "types"; and the root field's.
RulesFor(opts, site) ==
    LET Configured(key) == key \in DOMAIN opts /\ opts[key][1] \in {"string", "map"}
        base == IF site.option = "types" THEN site.key ELSE site.option
    IN (IF Configured(base) THEN <<NamingRule(opts[base])>>
        ELSE When(site.option = "types" /\ Configured("types"), NamingRule(opts["types"])))
       \o ForEach(SetToSeq(site.role), LAMBDA r :
              When(Configured(RootSelector[r]), NamingRule(opts[RootSelector[r]])))

Trim(name) ==
    LET letters == {i \in DOMAIN name : name[i] # 0}
    IN IF letters = {} THEN <<>> ELSE SubSeq(name, Min(letters), Max(letters))

InStyle(style, n) ==
    CASE style = "camelCase" -> n # <<>> /\ n[1] > 0 /\ 0 \notin ToSet(n)
      [] style = "PascalCase" -> n # <<>> /\ n[1] < 0 /\ 0 \notin ToSet(n)
      [] style = "snake_case" -> n # <<>> /\ n[1] > 0 /\ \A i \in DOMAIN n : n[i] >= 0
      [] style = "UPPER_CASE" -> n # <<>> /\ n[1] < 0 /\ \A i \in DOMAIN n : n[i] <= 0
      [] OTHER -> TRUE

\* namingRuleMessage: the first thing wrong.
NamingRuleMessage(name, rule) ==
    LET n == Trim(name)
    IN CASE n \in rule.ignored -> ""
         [] ~IsPrefix(rule.prefix, n) -> "prefix"
         [] ~IsSuffix(rule.suffix, n) -> "suffix"
         [] \E x \in rule.forbiddenPrefixes : IsPrefix(x, n) -> "forbidden prefix"
         [] \E x \in rule.forbiddenSuffixes : IsSuffix(x, n) -> "forbidden suffix"
         [] ~InStyle(rule.style, n) -> "style"
         [] OTHER -> ""

NamingSites == Filter(DescriptionSites, LAMBDA t : InScope(t.pos) /\ t.option # "SchemaDefinition")

Tier3Naming ==
    LET opts == Options(config, "naming-convention")
        Raise(t, what) == When(what # "", Violation("naming-convention", t.pos, what))
        Judged(t) ==
            LET name == NodeAt(t.pos).name
            IN ForEach(RulesFor(opts, t), LAMBDA r : Raise(t, NamingRuleMessage(name, r)))
               \o Raise(t, IF ~BoolOption(opts, "allowLeadingUnderscore") /\ name[1] = 0 THEN "leading" ELSE "")
               \o Raise(t, IF ~BoolOption(opts, "allowTrailingUnderscore") /\ name[Len(name)] = 0 THEN "trailing" ELSE "")
    IN IF Enabled(config, "naming-convention") THEN ForEach(NamingSites, Judged) ELSE <<>>

-----------------------------------------------------------------------------
(* Unreachable types, and the passes for what gqlparser does not check.     *)

TypesOf(p) == {NodeAt(q).type : q \in {p} \cup ToSet(Arguments(p))} \ {<<>>}
DirectivesOf(p) ==
    UNION {{d.name : d \in ToSet(NodeAt(q).dirs)} : q \in {p} \cup ToSet(Arguments(p))}

\* What collect goes on to from a name.  Types come before directives, an
\* interface leads to its implementations and to nothing else.
Refs(name) ==
    LET parts == ToSet(Parts(name))
        refs == UNION {ToSet(Def(p).refs) : p \in parts}
        fields == UNION {ToSet(Own(p)) : p \in parts}
        implementations == {Def(p).name : p \in {p \in ToSet(Definitions \o Extensions) :
                                Def(p).kind # "Union" /\ name \in ToSet(Def(p).refs)}}
    IN IF \E p \in parts : Def(p).kind = "Interface" THEN implementations
       ELSE IF parts # {}
         THEN refs \cup {d.name : d \in ToSet(AppliedTo(name))}
              \cup UNION {TypesOf(f) \cup DirectivesOf(f) : f \in fields}
       ELSE UNION {TypesOf(a) \cup DirectivesOf(a) :
                      a \in UNION {ToSet(Own(p)) : p \in {p \in ToSet(Directives) : Def(p).name = name}}}

\* A name is visited once; what it refers to comes before what is left.
Collect(starts, visited) ==
    LET collect[at \in Seq(Name) \X SUBSET Name] ==
            LET names == at[1]
                reached == at[2]
            IN IF names = <<>> THEN reached
               ELSE IF Head(names) \in reached THEN collect[<<Tail(names), reached>>]
               ELSE collect[<<SetToSeq(Refs(Head(names))) \o Tail(names), reached \cup {Head(names)}>>]
    IN collect[<<starts, visited>>]

Starts == SetToSeq({r[2] : r \in Roots} \cup {d.name : d \in ToSet(AppliedToSchema)})
RequestDirectives == {Def(p).name : p \in {p \in ToSet(Directives) : Def(p).request}}

ReachableTypeNames_RequestFirst == Collect(Starts, RequestDirectives)

\* reachableTypeNames: a directive usable in a request is reachable as it
\* is; nothing is reached through it.
ReachableTypeNames == Collect(Starts, {}) \cup RequestDirectives

Tier3Unreachable ==
    LET reachable == ReachableTypeNames
    IN IF ~Enabled(config, "no-unreachable-types") THEN <<>>
       ELSE ForEach(Filter(Definitions \o Extensions \o Directives, InScope), LAMBDA p :
                When(Def(p).name \notin reachable, Violation("no-unreachable-types", p, "")))

\* nonRepeatableDuplicates, of a place at p.
Repeatable(name) == \E p \in ToSet(Directives) : Def(p).name = name /\ Def(p).repeatable
NonRepeatableDuplicates(p, dirs) ==
    FlattenSeq([k \in DOMAIN dirs |->
        When(/\ \E j \in 1 .. k - 1 : dirs[j].name = dirs[k].name
             /\ ~Repeatable(dirs[k].name),
             Violation("unique-directive-names-per-location", p, k))])

GapFill ==
    LET all == Definitions \o Extensions
        firsts == Filter(all, LAMBDA p : p = Parts(Def(p).name)[1])
    IN (IF Enabled(config, "unique-directive-names-per-location")
          THEN NonRepeatableDuplicates(<<0, 0, 0, 0>>, AppliedToSchema)
               \o ForEach(firsts, LAMBDA p : NonRepeatableDuplicates(p, AppliedTo(Def(p).name)))
          ELSE <<>>)
       \o (IF Enabled(config, "possible-type-extension")
             THEN ForEach(Extensions, LAMBDA p :
                      When(~Based(p), Violation("possible-type-extension", p, "")))
             ELSE <<>>)

-----------------------------------------------------------------------------
(* The federation prelude.                                                  *)

\* The @link applications to the federation specification, in order.
FederationLinks ==
    Filter(ForEach(SchemaExtensions, LAMBDA p : Def(p).dirs),
              LAMBDA d : d.name = Link /\ d.version # "")

\* parseFederationImportEntry: "@name", or {name: "@name", as: "@alias"}.
Malformed(import) ==
    \/ import.shape = "string" /\ ~import.at
    \/ import.shape = "map" /\ import.name = <<>>
    \/ import.shape \notin {"string", "map"}

Alias_Name(import) == import.name
Alias(import) == IF import.as = <<>> THEN import.name ELSE import.as

LinkFault(link) ==
    IF link.version # config.federation THEN "federation version mismatch"
    ELSE IF \E i \in DOMAIN link.imports : \/ Malformed(link.imports[i])
                                          \/ link.imports[i].name \notin DOMAIN FederationDirectives
      THEN "unsupported federation directive"
    ELSE ""

FirstFault == Filter([i \in DOMAIN FederationLinks |-> LinkFault(FederationLinks[i])],
                        LAMBDA f : f # "")

NoComment == [count |-> 0, trailing |-> FALSE, directive |-> FALSE, adjacent |-> FALSE]
Node(name) == [name |-> name, desc |-> "none", dirs |-> <<>>, type |-> <<>>, default |-> <<>>,
               args |-> <<>>, comment |-> NoComment]
Plain(kind, name) ==
    [name |-> name, desc |-> "none", dirs |-> <<>>, type |-> <<>>, default |-> <<>>, args |-> <<>>,
     comment |-> NoComment, kind |-> kind, ext |-> FALSE, refs |-> <<>>, nodes |-> <<>>,
     request |-> FALSE, repeatable |-> FALSE, roots |-> {}]
Declares(name, types, repeatable) ==
    [Plain("Directive", name) EXCEPT !.repeatable = repeatable,
        !.nodes = [i \in DOMAIN types |-> [Node(name) EXCEPT !.type = types[i]]]]
Document(prelude, defs) ==
    [prelude |-> prelude, broken |-> FALSE, operations |-> FALSE, link |-> FALSE, defs |-> defs]

FederationPrelude ==
    LET imports == ForEach(FederationLinks, LAMBDA d : d.imports)
        Kind(i) == FederationDirectives[i.name]
    IN When(FederationLinks # <<>>, Document(TRUE,
           <<Declares(Link, LinkTypes, TRUE)>>
           \o ForEach(LinkTypes, LAMBDA t : <<Plain("Scalar", t)>>)
           \o When(\E i \in ToSet(imports) : Kind(i).fieldSet, Plain("Scalar", FieldSet))
           \o ForEach(imports, LAMBDA i :
                  <<Declares(Alias(i), When(Kind(i).fieldSet, FieldSet), Kind(i).repeatable)>>)))

ScalarsPrelude ==
    When(config.scalars # <<>>,
         Document(TRUE, ForEach(config.scalars, LAMBDA n : <<Plain("Scalar", n)>>)))

-----------------------------------------------------------------------------
(* gqlparser's validation, as far as the rules rely on it.                  *)

Nodes(p) == {p} \cup ToSet(Own(p)) \cup UNION {ToSet(Arguments(q)) : q \in ToSet(Own(p))}
Everything == UNION {Nodes(p) : p \in UNION {ToSet(ps) : ps \in
                  {Definitions, Extensions, Directives, SchemaBlocks, SchemaExtensions}}}

Repeated(ps) == {ps[i] : i \in {i \in DOMAIN ps : \E j \in 1 .. i - 1 :
                                    NodeAt(ps[j]).name = NodeAt(ps[i]).name}}

NoSuchType == "Undefined type"
NoSuchDirective == "Undefined directive"
TypeAgain == "Cannot redeclare type"
DirectiveAgain == "Cannot redeclare directive"
MemberAgain == "Field or enum value can only be defined once"
SchemaAgain == "Cannot have multiple schema entry points"

\* Each complaint, with where it is made and what it is about.
Complaint(message, p, about) == [message |-> message, pos |-> p, about |-> about]

UndefinedTypes ==
    LET types == DefinedTypes \cup ExtendedTypes \cup BuiltInTypes
        used(p) == {NodeAt(p).type} \cup (IF p[3] = 0 THEN ToSet(Def(p).refs) ELSE {})
    IN UNION {{Complaint(NoSuchType, p, t) : t \in used(p) \ (types \cup {<<>>})} : p \in Everything}

UndefinedDirectives ==
    UNION {{Complaint(NoSuchDirective, p, d) :
               d \in {d.name : d \in ToSet(NodeAt(p).dirs)} \ (DeclaredDirectives \cup BuiltInDirectives)} :
              p \in Everything}

Redeclarations ==
    {Complaint(TypeAgain, p, Def(p).name) : p \in Repeated(Definitions)}
    \cup {Complaint(DirectiveAgain, p, Def(p).name) : p \in Repeated(Directives)}
    \cup {Complaint(MemberAgain, q, NodeAt(q).name) :
             q \in UNION {Repeated(Fields(p)) : p \in ToSet(AllDefinitions)}}
    \cup {Complaint(SchemaAgain, p, <<>>) : p \in Repeated(SchemaBlocks)}

Complaints == UndefinedTypes \cup UndefinedDirectives \cup Redeclarations

SyntaxErrors(ss) == {Complaint("Unexpected", <<s, 0, 0, 0>>, <<>>) : s \in ss}

RuleForMessage(c) ==
    CASE c.message = NoSuchType -> "known-type-names"
      [] c.message = NoSuchDirective -> "known-directives"
      [] c.message = TypeAgain -> "unique-type-names"
      [] c.message = DirectiveAgain -> "unique-directive-names"
      [] c.message = MemberAgain ->
            IF Def(c.pos).kind = "Enum" THEN "unique-enum-value-names" ELSE "unique-field-definition-names"
      [] c.message = SchemaAgain -> "lone-schema-definition"
      [] OTHER -> "gqlparser"

Tier1Violation(c) == Violation(RuleForMessage(c), c.pos, c.about)

-----------------------------------------------------------------------------
(* The run.                                                                 *)

Init ==
    /\ InitConfig
    /\ sources = <<>> /\ results = [g \in {} |-> <<>>] /\ raised = <<>> /\ cause = ""

Configure == (Discover \/ LoadFile \/ Find) /\ UNCHANGED ruleVars

Go(stage) == pc' = stage /\ UNCHANGED <<world, dir, config, configDir, files>>
Refuse(complaints) ==
    /\ \E c \in complaints : raised' = <<Tier1Violation(c)>>
    /\ Go("refused") /\ UNCHANGED cause
GiveUp(why) == Go("error") /\ cause' = why /\ UNCHANGED raised

\* Files, and withoutOperationDocuments.
ReadFiles ==
    /\ pc = "prelude"
    /\ sources' = Filter([i \in DOMAIN files |-> world.tree[files[i].path].doc],
                            LAMBDA d : ~d.operations)
    /\ Go("federation") /\ UNCHANGED <<results, raised, cause>>

\* preludeSources; only the files with the word "link" are parsed for it.
AddPreludes ==
    LET broken == {s \in DOMAIN sources : sources[s].broken /\ sources[s].link}
        federated == config.federation # ""
    IN /\ pc = "federation"
       /\ UNCHANGED results
       /\ \/ /\ federated /\ config.federation \notin SupportedVersions
             /\ GiveUp("unsupported federation version") /\ UNCHANGED sources
          \/ /\ federated /\ config.federation \in SupportedVersions /\ broken # {}
             /\ Refuse(SyntaxErrors(broken)) /\ UNCHANGED sources
          \/ /\ federated /\ config.federation \in SupportedVersions /\ broken = {} /\ FirstFault # <<>>
             /\ GiveUp(FirstFault[1]) /\ UNCHANGED sources
          \/ /\ federated => config.federation \in SupportedVersions /\ broken = {} /\ FirstFault = <<>>
             /\ sources' = sources \o (IF federated THEN FederationPrelude ELSE <<>>) \o ScalarsPrelude
             /\ Go("validate") /\ UNCHANGED <<raised, cause>>

\* parseAndValidate, which stops at the first complaint.
Validate ==
    LET broken == {s \in DOMAIN sources : sources[s].broken}
        complaints == IF broken # {} THEN SyntaxErrors(broken) ELSE Complaints
    IN /\ pc = "validate"
       /\ UNCHANGED <<sources, results>>
       /\ \/ complaints # {} /\ Refuse(complaints)
          \/ complaints = {} /\ Go("gapfill") /\ UNCHANGED <<raised, cause>>

FillGaps ==
    /\ pc = "gapfill"
    /\ raised' = GapFill
    /\ Go("tier3") /\ UNCHANGED <<sources, results, cause>>

\* The goroutines tier3 starts.
DefsGroup == \E r \in {"no-typename-prefix", "naming-convention", "alphabetize",
                       "no-case-insensitive-enum-values-duplicates"} : Enabled(config, r)
DescGroup == \E r \in {"require-description", "description-style", "no-hashtag-description",
                       "require-deprecation-reason", "require-deprecation-date"} : Enabled(config, r)
Launched ==
    (IF DefsGroup THEN {"typename", "naming", "enumdup", "alphabetize"} ELSE {})
    \cup (IF DefsGroup \/ Enabled(config, "no-unreachable-types") THEN {"unreachable"} ELSE {})
    \cup (IF DescGroup THEN {"descriptions", "deprecation", "hashtag"} ELSE {})

Outcomes(g) ==
    LET Fine(violations) == [error |-> "", violations |-> violations]
    IN CASE g = "descriptions" -> {Tier3Descriptions}
         [] g = "deprecation" -> {Fine(v) : v \in Tier3Deprecation}
         [] g = "hashtag" -> {Fine(Tier3Hashtag)}
         [] g = "typename" -> {Fine(Tier3TypenamePrefix)}
         [] g = "naming" -> {Fine(Tier3Naming)}
         [] g = "enumdup" -> {Fine(Tier3EnumDuplicates)}
         [] g = "alphabetize" -> {Fine(Tier3Alphabetize)}
         [] g = "unreachable" -> {Fine(Tier3Unreachable)}

Finish(g) ==
    /\ pc = "tier3" /\ g \in Launched \ DOMAIN results
    /\ \E r \in Outcomes(g) :
           results' = [h \in DOMAIN results \cup {g} |-> IF h = g THEN r ELSE results[h]]
    /\ UNCHANGED <<configVars, sources, raised, cause>>

\* wg.Wait, and the results in their fixed order.
Gather ==
    LET order == <<"descriptions", "deprecation", "hashtag", "typename", "naming", "enumdup",
                   "alphabetize", "unreachable">>
        failed == {g \in DOMAIN results : results[g].error # ""}
    IN /\ pc = "tier3" /\ DOMAIN results = Launched
       /\ UNCHANGED <<sources, results>>
       /\ \/ \E g \in failed : GiveUp(results[g].error)
          \/ /\ failed = {}
             /\ raised' = raised \o ForEach(Filter(order, LAMBDA g : g \in Launched),
                                            LAMBDA g : results[g].violations)
             /\ Go("done") /\ UNCHANGED cause

Next ==
    \/ Configure \/ ReadFiles \/ AddPreludes \/ Validate \/ FillGaps
    \/ \E g \in Groups : Finish(g)
    \/ Gather

Spec == Init /\ [][Next]_vars

-----------------------------------------------------------------------------
(* What should hold.                                                        *)

Stages == {"discover", "load", "find", "prelude", "federation", "validate", "gapfill", "tier3",
           "done", "refused", "error"}

\* The types of the variables, and what the stages have in common: a
\* configuration that was accepted has severities the lint knows and no
\* rule of gqlparser's, there are results only of goroutines that were
\* started, and a reason to give up only in an error.
TypeOK ==
    /\ world \in Worlds /\ pc \in Stages
    /\ dir = SubSeq(world.cwd, 1, Len(dir))
    /\ configDir = <<>> \/ configDir[1] \in DOMAIN world.configs
    /\ \A i \in DOMAIN files : files[i].path \in DOMAIN world.tree
    /\ DOMAIN config.rules \cap Tier1Rules = {}
    /\ \A r \in DOMAIN config.rules : config.rules[r].severity \in Severities
    /\ DOMAIN results \subseteq Groups /\ (pc # "tier3" /\ pc \notin {"done", "error"} => DOMAIN results = {})
    /\ DOMAIN results \subseteq Launched
    /\ \A i \in DOMAIN raised : raised[i].pos[1] \in 0 .. Len(sources)
    /\ cause # "" => pc = "error"

\* The lint is configured by --config's file or by the nearest
\* scripts/devbase.yaml at or above the working directory and inside its
\* git repository (config.Load).  Of the *.graphql files under the paths
\* given (FindGraphQLFiles), those are skipped that a pattern of the command
\* line covers, or a pattern of that file covers relative to its directory, as
\* its documentation has it; the code matches the paths as they were given.
\* Where both come to the same, so does the lint: from the directory of the
\* config file, exactly the files documented are read.  Where they differ,
\* ExcludesRelativeToConfig below fails.
LintsWhatIsAsked ==
    pc \in Stages \ {"discover", "load", "find", "error"} =>
        /\ config = ConfigAsked
        /\ ToSet(files) \subseteq FilesNamed
        /\ \A f \in FilesNamed :
               /\ Excluded(f, f.shown) /\ Excluded(f, ConfigName(f)) => f \notin ToSet(files)
               /\ f \notin ToSet(files) => Excluded(f, f.shown) \/ Excluded(f, ConfigName(f))

Count(rule, p) == Cardinality({i \in DOMAIN raised : raised[i].rule = rule /\ raised[i].pos = p})

\* What may be described, wherever it is written.
SiteAt(p) ==
    CASE p[3] # 0 /\ (p[4] # 0 \/ Def(p).kind = "Directive") -> InputSite(p)
      [] p[3] # 0 -> MemberSite(Def(p), p)
      [] Def(p).kind = "Directive" -> Site(p, "DirectiveDefinition", "", {})
      [] Def(p).kind = "Schema" -> Site(p, "SchemaDefinition", "", {})
      [] OTHER -> Site(p, "types", KindKey[Def(p).kind], {})

WrongStyle(p) == IF StringOption(Options(config, "description-style"), "style", "") = "inline"
                 THEN NodeAt(p).desc = "block" ELSE NodeAt(p).desc = "inline"
Once(rule, p, wrong) == Count(rule, p) = IF Enabled(config, rule) /\ wrong THEN 1 ELSE 0

SomeBlank == \E s \in DOMAIN sources :
    LET descs == {NodeAt(p).desc : p \in {p \in Everything : p[1] = s}}
    IN "blank" \in descs /\ descs \cap {"inline", "block"} # {}

\* Every definition, field, argument and value of the files is judged by
\* the rules on descriptions and deprecations exactly once, wherever it is
\* written -- in a type, in an extension of one, in an extension of none --
\* and with the description it has, although the descriptions are found by
\* reading the file a second time (groupDescriptionSites,
\* descriptionTokens, allDefinitions).  The two readings disagree only over
\* a file with blank and other descriptions.
EveryNodeJudgedOnce ==
    /\ pc = "done" =>
           \A p \in {p \in Everything : InScope(p) /\ (p[3] = 0 => ~Def(p).ext)} :
               /\ Once("require-description", p,
                       /\ Requires(Options(config, "require-description"), SiteAt(p))
                       /\ NodeAt(p).desc \in {"none", "blank"})
               /\ Once("description-style", p, WrongStyle(p))
               /\ p[3] # 0 => Once("require-deprecation-reason", p,
                                   \E i \in DOMAIN NodeAt(p).dirs :
                                       /\ NodeAt(p).dirs[i].name = Deprecated
                                       /\ \A a \in DOMAIN NodeAt(p).dirs[i].args :
                                              a = "reason" => NodeAt(p).dirs[i].args[a] = "blank")
    /\ cause = "description token mismatch" => SomeBlank

\* A type and its extensions are one for the rules that compare its parts:
\* of the values of an enum all but one of each spelling are reported, of
\* the uses of a directive that is not repeatable all but one, and the
\* fields are reported exactly when they are not in the order of their
\* letters and, of the same letters, of their cases.
SortKey(name) == Lower(name) \o <<-1>> \o [i \in DOMAIN name |-> IF name[i] < 0 THEN 1 ELSE 0]
ExtensionsAreOne ==
    pc = "done" => \A p \in {p \in ToSet(Definitions) : InScope(p)} :
        LET fields == Fields(p)
            names == [i \in DOMAIN fields |-> NodeAt(fields[i]).name]
            once == {d.name : d \in {d \in ToSet(AppliedTo(Def(p).name)) : ~Repeatable(d.name)}}
            Reported(rule, at) == Cardinality({i \in DOMAIN raised : raised[i].rule = rule /\ raised[i].pos \in at})
        IN /\ Def(p).kind = "Enum" /\ Enabled(config, "no-case-insensitive-enum-values-duplicates") =>
                 Reported("no-case-insensitive-enum-values-duplicates", ToSet(fields))
                     = Len(names) - Cardinality({Lower(names[i]) : i \in DOMAIN names})
           /\ Enabled(config, "unique-directive-names-per-location") =>
                 Reported("unique-directive-names-per-location", ToSet(Parts(Def(p).name)))
                     = Len(Filter(AppliedTo(Def(p).name), LAMBDA d : d.name \in once)) - Cardinality(once)
           /\ /\ Enabled(config, "alphabetize")
              /\ \/ Def(p).kind \in {"Object", "Interface", "InputObject"}
                    /\ KindKey[Def(p).kind] \in SliceOption(Options(config, "alphabetize"), "fields")
                 \/ Def(p).kind = "Enum" /\ KindKey["Enum"] \in SliceOption(Options(config, "alphabetize"), "values")
              => (Reported("alphabetize", ToSet(fields)) = 0
                     <=> \A i, j \in DOMAIN names : i < j => ~Less(SortKey(names[j]), SortKey(names[i])))

\* no-unreachable-types reports exactly the definitions and extensions, and
\* the directives, outside the least set that has the root types and the
\* schema's directives, and what its members lead to -- except that a
\* directive usable in a request is never reported, and leads to what it
\* leads to only when it is in the set (reachableTypeNames).
ReachesExactly ==
    LET reported == {Def(raised[i].pos).name : i \in {i \in DOMAIN raised : raised[i].rule = "no-unreachable-types"}}
        written == {Def(p).name : p \in {p \in ToSet(Definitions \o Extensions \o Directives) : InScope(p)}}
        names == DefinedTypes \cup ExtendedTypes \cup DeclaredDirectives
        Closed(S) == /\ ToSet(Starts) \cap names \subseteq S
                     /\ \A n \in S : Refs(n) \cap names \subseteq S
        reached == {n \in names : \A S \in SUBSET names : Closed(S) => n \in S}
    IN pc = "done" /\ Enabled(config, "no-unreachable-types") =>
           reported = written \ (reached \cup RequestDirectives)

\* What the files' @links import, the directives that may be used, and
\* those that are.
LinksWritten ==
    {l \in UNION {ToSet(Def(p).dirs) : p \in {p \in Everything :
                      p[3] = 0 /\ InScope(p) /\ Def(p).kind = "Schema" /\ Def(p).ext}} :
        l.name = Link /\ l.version # ""}
Imported ==
    IF config.federation = "" THEN {}
    ELSE UNION {{IF i.as = <<>> THEN i.name ELSE i.as : i \in ToSet(l.imports)} \cup {Link} :
                   l \in LinksWritten}
KnownDirectives ==
    Imported \cup BuiltInDirectives \cup {Def(p).name : p \in {p \in ToSet(Directives) : InScope(p)}}
UsedDirectives == UNION {{d.name : d \in ToSet(NodeAt(p).dirs)} : p \in {p \in Everything : InScope(p)}}

\* What a file's @link imports, and nothing else, may be used: a directive
\* passes as known exactly when it is declared, built in, or imported from
\* the federation version of the configuration under the name it is used
\* by, and the prelude itself refers to nothing that it does not declare
\* (federationPrelude).
ImportsAreHonoured ==
    /\ pc \in {"tier3", "done"} => UsedDirectives \subseteq KnownDirectives
    /\ pc = "refused" => \A i \in DOMAIN raised :
           /\ raised[i].rule = "known-directives" => raised[i].what \notin KnownDirectives
           /\ raised[i].rule = "known-type-names" => InScope(raised[i].pos)

\* ErrDescriptionTokenMismatch "should never happen for valid SDL"
\* (descriptions.go); it happens to a file with a blank description next
\* to another one.
NeverMismatched == cause # "description token mismatch"

\* The exclude patterns of scripts/devbase.yaml are "relative to the
\* directory Load found scripts/devbase.yaml in" (config.Lint); they are
\* matched with the paths as the command line has them.
ExcludesRelativeToConfig ==
    pc = "prelude" /\ configDir # <<>> =>
        \A f \in ToSet(files) : \A p \in config.exclude :
            ~(IsPrefix(configDir[1], f.path) /\ Covers(p, SubSeq(f.path, Len(configDir[1]) + 1, Len(f.path))))
===============================================================================
