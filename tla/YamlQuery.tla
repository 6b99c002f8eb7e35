----------------------------- MODULE YamlQuery -----------------------------
(***************************************************************************)
(* One run of `devbase yq` or `devbase tomlq` (internal/yq): parse the     *)
(* words, bind the variables, decode the inputs, run the filter once per   *)
(* document and print each value it emits as JSON, as YAML, or, under -Y,  *)
(* as YAML rebuilt on the document's own parse tree.                       *)
(*                                                                         *)
(* Values are references to objects on a heap, as in Go: KeyOrder is keyed *)
(* by a map's address, so which steps make a new map is what decides the   *)
(* order keys are printed in.  A reference is the path of the value in the *)
(* document it was decoded from, prefixed by the document's name, and so   *)
(* never clashes with another's.  An array is an object whose keys are its *)
(* indices.  A parse tree is a function from paths to nodes; `above` is the*)
(* head comment of the key that a node is the value of, `head` its own.    *)
(***************************************************************************)
EXTENDS YqFlags, TLC

CONSTANTS
  Jobs,     \* the command lines: [fmt, words]
  Files,    \* [file that can be read and decoded -> its documents]
  Filters,  \* [filter text -> [vars, ops, objects]: the variables it names, what it
            \* emits, the constant objects that are part of its compiled code]
  Alphabet  \* every object key and index, in alphabetical order

VARIABLES
  job,    \* the command line given
  cl,     \* the parser of its words
  pc,     \* "parse", "bind", "read", "run", "inplace" (runInPlace) or "done"
  vars,   \* [variable -> value], as BuildVars returns it
  heap,   \* [reference -> [kind, at]]
  order,  \* KeyOrder: [reference -> sequence of keys]
  docs,   \* the documents decoded: [value, doc, name]
  next,   \* the document to run the filter on
  stdout, \* what was printed: [doc, emitted, value, text, sep]
  failed, \* runToStdout's hasError
  exit    \* the exit code, or "running"

all == <<job, cl, pc, vars, heap, order, docs, next, stdout, failed, exit>>

Has(f) == f \in cl.set

-----------------------------------------------------------------------------
(* Values *)

Ref(r)     == [t |-> "ref", r |-> r]
Null       == [t |-> "null"]
Text(s)    == [t |-> "string", s |-> s]
(* A number and the form it is held in: "json" text, "bad" text that is not*)
(* JSON (-.5), a "native" int or float64, or "inf".                        *)
Num(n, form) == [t |-> "number", n |-> n, form |-> form]

Sorted(S) == SelectSeq(Alphabet, LAMBDA k : k \in S)
Merged(f, S) == FoldLeft(LAMBDA acc, k : acc @@ f[k], <<>>, SetToSeq(S))

-----------------------------------------------------------------------------
(* YAML input *)

Pairs(doc, p)   == SelectSeq(doc[p].keys, LAMBDA k : k # "<<")  \* mappingPairs
Resolve(doc, p) == IF doc[p].kind = "alias" THEN doc[p].to ELSE p

(* What go-yaml decodes a number to, and what fixupNumberScalars makes of  *)
(* it: the text of .5 and -.5 gets its 0, and only an infinity is left.    *)
FixupNumberScalar(v) ==
  IF v.t = "number" /\ v.form # "inf" THEN Num(v.n, "json") ELSE v

DecodedAt(doc, name, p) ==
  LET q == Resolve(doc, p)
  IN  IF doc[q].kind = "scalar" THEN FixupNumberScalar(doc[q].val) ELSE Ref(name \o q)

(* A mapping's entries with the path each is decoded from: its own, and,   *)
(* where it has a merge key, those of the merged mapping it does not set.  *)
EntryPaths(doc, p) ==
  LET own  == ToSet(Pairs(doc, p))
      from == Resolve(doc, Append(p, "<<"))
      more == IF "<<" \in ToSet(doc[p].keys) THEN ToSet(Pairs(doc, from)) \ own ELSE {}
  IN  [k \in own \cup more |-> IF k \in own THEN Append(p, k) ELSE Append(from, k)]

DecodeYAML(doc, name) ==
  LET Path(r) == SubSeq(r, Len(name) + 1, Len(r))
      Object(p) == [k \in DOMAIN EntryPaths(doc, p) |-> DecodedAt(doc, name, EntryPaths(doc, p)[k])]
  IN  [r \in {name \o p : p \in {q \in DOMAIN doc : doc[q].kind \in {"map", "seq"}}} |->
         [kind |-> doc[Path(r)].kind, at |-> Object(Path(r))]]

(* A faulty variant: an order is recorded where an alias stands, too. *)
YAMLOrder_AtAliases(doc, name) ==
  LET Path(r) == SubSeq(r, Len(name) + 1, Len(r))
  IN  [r \in {name \o p : p \in {q \in DOMAIN doc : doc[Resolve(doc, q)].kind = "map"}} |->
         Pairs(doc, Resolve(doc, Path(r)))]

(* recordKeyOrder *)
YAMLOrder(doc, name) ==
  LET Path(r) == SubSeq(r, Len(name) + 1, Len(r))
  IN  [r \in {name \o p : p \in {q \in DOMAIN doc : doc[q].kind = "map"}} |-> Pairs(doc, Path(r))]

-----------------------------------------------------------------------------
(* TOML input: the keys of the document in order, each with its key path   *)
(* (what md.Keys lists), its place in the value, its type and, for a       *)
(* scalar, its value.                                                      *)

DecodeTOML(doc, name) ==
  LET Places == {doc[i].at : i \in DOMAIN doc}
      Inner  == {<<>>} \cup UNION {{SubSeq(p, 1, n) : n \in 1..Len(p) - 1} : p \in Places}
                  \cup {doc[i].at : i \in {j \in DOMAIN doc : doc[j].type # "scalar"}}
      Kids(p) == {k \in ToSet(Alphabet) : Append(p, k) \in Places \cup Inner}
      Path(r) == SubSeq(r, Len(name) + 1, Len(r))
      Value(p) == IF p \in Inner THEN Ref(name \o p)
                  ELSE FixupNumberScalar(doc[CHOOSE i \in DOMAIN doc : doc[i].at = p].val)
      IsArray(p) == \E i \in DOMAIN doc : doc[i].at = p /\ doc[i].type = "array"
  IN  [r \in {name \o p : p \in Inner} |->
         [kind |-> IF IsArray(Path(r)) \/ "1" \in Kids(Path(r)) THEN "seq" ELSE "map",
          at   |-> [k \in Kids(Path(r)) |-> Value(Append(Path(r), k))]]]

(* newTOMLOrder's tree: tomlTables are numbers, keys[t] the keys of t in   *)
(* order, kids[<<t, segment>>] the tables of a tomlPath in order, and      *)
(* arrays the paths written as [[path]].                                   *)
NewTable(tree, edge) ==
  [tree EXCEPT !.n = @ + 1, !.keys = (tree.n + 1 :> <<>>) @@ @,
               !.kids = (edge :> Append(tree.kids[edge], tree.n + 1)) @@ @]

Named(tree, edge) ==
  IF edge \in DOMAIN tree.kids THEN tree
  ELSE [tree EXCEPT !.kids = (edge :> <<>>) @@ @, !.keys[edge[1]] = Append(@, edge[2])]

Descend(w, segment) ==
  LET edge == <<w.table, segment>>
      tree == Named(w.tree, edge)
      grown == IF tree.kids[edge] = <<>> THEN NewTable(tree, edge) ELSE tree
  IN  [tree |-> grown, table |-> Last(grown.kids[edge])]

AddKey(tree, key) ==
  LET w    == FoldLeft(Descend, [tree |-> tree, table |-> 0], Front(key.key))
      edge == <<w.table, Last(key.key)>>
      t    == NewTable(Named(w.tree, edge), edge)
  IN  [t EXCEPT !.arrays = IF key.type = "tables" THEN @ \cup {edge} ELSE @ \ {edge}]

NewTOMLOrder(doc) ==
  FoldLeft(AddKey, [n |-> 0, keys |-> (0 :> <<>>), kids |-> <<>>, arrays |-> {}], doc)

RECURSIVE RecordTOMLOrder(_, _, _, _)
RecordTOMLOrder(h, v, path, tree) ==
  IF v.t # "ref" THEN <<>>
  ELSE LET at == h[v.r].at IN
    IF h[v.r].kind = "map"
    THEN LET joined == FlattenSeq([i \in DOMAIN path.tables |-> tree.keys[path.tables[i]]])
             keys   == FoldLeft(LAMBDA acc, k : IF k \in DOMAIN at \ ToSet(acc) THEN Append(acc, k) ELSE acc,
                                <<>>, joined)
             With(k) == SelectSeq(path.tables, LAMBDA t : <<t, k>> \in DOMAIN tree.kids)
             Sub(k) == IF With(k) = <<>> THEN <<>>
                       ELSE LET edge == <<With(k)[1], k>>
                            IN  RecordTOMLOrder(h, at[k], [tables |-> tree.kids[edge], array |-> edge \in tree.arrays], tree)
         IN  (v.r :> keys) @@ Merged([k \in DOMAIN at |-> Sub(k)], DOMAIN at)
    ELSE IF ~path.array \/ Len(path.tables) # Cardinality(DOMAIN at) THEN <<>>
    ELSE LET Sub(i) == RecordTOMLOrder(h, at[ToString(i)], [tables |-> <<path.tables[i]>>, array |-> FALSE], tree)
         IN  Merged([i \in DOMAIN path.tables |-> Sub(i)], DOMAIN path.tables)

TOMLOrder(doc, name) ==
  RecordTOMLOrder(DecodeTOML(doc, name), Ref(name), [tables |-> <<0>>, array |-> FALSE], NewTOMLOrder(doc))

-----------------------------------------------------------------------------
(* Running the filter *)

(* What one output of the filter evaluates to (gojq): the value, the object*)
(* it made, if any, and whether it is an error.                            *)
Evaluate(op, input, bound, h, new) ==
  LET Value(v)   == [value |-> v, made |-> <<>>, error |-> FALSE]
      Made(kind, at) == [value |-> Ref(new), made |-> (new :> [kind |-> kind, at |-> at]), error |-> FALSE]
      Fails      == [value |-> Null, made |-> <<>>, error |-> TRUE]
      IsObject   == input.t = "ref" /\ h[input.r].kind = "map"
      at         == h[input.r].at
  IN  CASE op.op = "." -> Value(input)
        [] op.op = "value" -> Value(op.val)
        [] op.op = "var" -> Value(bound[op.key])
        [] op.op = "get" /\ IsObject -> Value(IF op.key \in DOMAIN at THEN at[op.key] ELSE Null)
        [] op.op = "set" /\ IsObject -> Made("map", (op.key :> op.val) @@ at)
        [] op.op = "put" /\ input.t = "ref" /\ ~IsObject -> Made("seq", (op.key :> op.val) @@ at)
        [] op.op = "use" /\ IsObject -> Made("map", (op.key :> bound[op.key]) @@ at)
        [] op.op = "copy" /\ IsObject -> Made("map", (op.key :> input) @@ at)
        [] op.op = "del" /\ IsObject -> Made("map", [k \in DOMAIN at \ {op.key} |-> at[k]])
        [] OTHER -> Fails

(* A faulty variant: numbers converted in the object they are found in.    *)
RECURSIVE Normalize_InPlace(_, _)
Normalize_InPlace(h, v) ==
  IF v.t = "number"
  THEN [value |-> IF v.form = "native" THEN Num(v.n, "json") ELSE v, made |-> <<>>,
        changed |-> FALSE, bad |-> v.form = "inf"]
  ELSE IF v.t # "ref" THEN [value |-> v, made |-> <<>>, changed |-> FALSE, bad |-> FALSE]
  ELSE LET at   == h[v.r].at
           item == [k \in DOMAIN at |-> Normalize_InPlace(h, at[k])]
       IN  [value |-> v,
            made  |-> (v.r :> [h[v.r] EXCEPT !.at = [k \in DOMAIN at |-> item[k].value]])
                        @@ Merged([k \in DOMAIN at |-> item[k].made], DOMAIN at),
            changed |-> FALSE,
            bad     |-> \E k \in DOMAIN at : item[k].bad]

(* A faulty variant: a fresh copy of every object, changed or not. *)
RECURSIVE Normalize_CopyAll(_, _)
Normalize_CopyAll(h, v) ==
  IF v.t = "number"
  THEN [value |-> IF v.form = "native" THEN Num(v.n, "json") ELSE v, made |-> <<>>,
        changed |-> TRUE, bad |-> v.form = "inf"]
  ELSE IF v.t # "ref" THEN [value |-> v, made |-> <<>>, changed |-> TRUE, bad |-> FALSE]
  ELSE LET at   == h[v.r].at
           item == [k \in DOMAIN at |-> Normalize_CopyAll(h, at[k])]
       IN  [value |-> Ref(<<"clone">> \o v.r),
            made  |-> (<<"clone">> \o v.r :> [h[v.r] EXCEPT !.at = [k \in DOMAIN at |-> item[k].value]])
                        @@ Merged([k \in DOMAIN at |-> item[k].made], DOMAIN at),
            changed |-> TRUE,
            bad     |-> \E k \in DOMAIN at : item[k].bad]

(* normalizeValueCOW: the value with every native number as json.Number,   *)
(* the objects cloned for that, whether any was, and whether one is not    *)
(* finite.                                                                 *)
RECURSIVE Normalize(_, _)
Normalize(h, v) ==
  IF v.t = "number"
  THEN [value |-> IF v.form = "native" THEN Num(v.n, "json") ELSE v, made |-> <<>>,
        changed |-> v.form = "native", bad |-> v.form = "inf"]
  ELSE IF v.t # "ref" THEN [value |-> v, made |-> <<>>, changed |-> FALSE, bad |-> FALSE]
  ELSE LET at      == h[v.r].at
           item    == [k \in DOMAIN at |-> Normalize(h, at[k])]
           changed == \E k \in DOMAIN at : item[k].changed
           clone   == <<"clone">> \o v.r
       IN  [value   |-> IF changed THEN Ref(clone) ELSE v,
            made    |-> (IF changed THEN clone :> [h[v.r] EXCEPT !.at = [k \in DOMAIN at |-> item[k].value]] ELSE <<>>)
                          @@ Merged([k \in DOMAIN at |-> item[k].made], DOMAIN at),
            changed |-> changed,
            bad     |-> \E k \in DOMAIN at : item[k].bad]

(* Engine.Run on document i: every value the filter emits before an error, *)
(* with what it is normalised to; the heap after it; and whether an error  *)
(* ended it.                                                               *)
Run(i) ==
  LET filter == Filters[cl.rest[1]]
      After(acc, j) ==
        LET e == Evaluate(filter.ops[j], docs[i].value, vars, acc.heap, <<"new", ToString(i), ToString(j)>>)
            h == e.made @@ acc.heap
            n == Normalize(h, e.value)
        IN  IF acc.error THEN acc
            ELSE IF e.error \/ n.bad THEN [acc EXCEPT !.error = TRUE]
            ELSE [acc EXCEPT !.heap = n.made @@ h, !.out = Append(@, [emitted |-> e.value, value |-> n.value])]
  IN  FoldLeft(After, [heap |-> heap, out |-> <<>>, error |-> FALSE], [j \in DOMAIN filter.ops |-> j])

-----------------------------------------------------------------------------
(* Printing: a text is a tree of what is written, keys in the order they   *)
(* are written in.  Comments and anchors are only ever set under -Y.       *)

Bare == [above |-> FALSE, head |-> FALSE, comment |-> FALSE, anchor |-> FALSE]
Leaf(v) == [kind |-> "scalar", val |-> v] @@ Bare
Branch(kind, keys, kids) == [kind |-> kind, keys |-> keys, kids |-> kids] @@ Bare

(* A faulty variant: no check of the number of keys. *)
OrderApplies_AnyLength(h, r) == r \in DOMAIN order

(* KeyOrder.order *)
OrderApplies(h, r) == r \in DOMAIN order /\ Len(order[r]) = Cardinality(DOMAIN h[r].at)

OrderedKeys(h, r) ==
  IF ~Has("sort-keys") /\ OrderApplies(h, r) THEN order[r] ELSE Sorted(DOMAIN h[r].at)

(* encodeJSON and yamlNodeFor *)
RECURSIVE Rendered(_, _)
Rendered(h, v) ==
  IF v.t # "ref" THEN Leaf(v)
  ELSE LET keys == IF h[v.r].kind = "map" THEN OrderedKeys(h, v.r) ELSE Sorted(DOMAIN h[v.r].at)
       IN  Branch(h[v.r].kind, keys, [k \in ToSet(keys) |-> Rendered(h, h[v.r].at[k])])

(* valuesEqual *)
SameScalar(a, b) == a.t = b.t /\ IF a.t = "number" THEN a.n = b.n ELSE a = b

OnNode(node, val) == [Leaf(val) EXCEPT !.head = node.head, !.comment = node.comment, !.anchor = node.anchor]
SameAsNode(node, v) == SameScalar(FixupNumberScalar(node.val), v)

(* A faulty variant: an edited scalar loses its comments. *)
ReconcileScalar_Bare(node, v) == IF SameAsNode(node, v) THEN OnNode(node, node.val) ELSE Leaf(v)

(* reconcileScalar *)
ReconcileScalar(node, v) == OnNode(node, IF SameAsNode(node, v) THEN node.val ELSE v)

(* The entries of an object that the mapping or sequence at path q of the  *)
(* parse tree also has, in its order: by key, or by index.                 *)
Reused(doc, q, at) == SelectSeq(Pairs(doc, q), LAMBDA k : k \in DOMAIN at)

(* The order reconcileMapping and reconcileSequence put the entries in.    *)
ReconciledKeys(doc, q, at) ==
  IF Has("sort-keys") \/ doc[q].kind = "seq" THEN Sorted(DOMAIN at)
  ELSE Reused(doc, q, at) \o Sorted(DOMAIN at \ ToSet(Reused(doc, q, at)))

(* reconcile: v printed on the node at path p of the parse tree doc.  The  *)
(* key of an entry is reused, a scalar node too, with their comments; a    *)
(* collection is a new node, whose own comments and anchor are gone.       *)
RECURSIVE Reconcile(_, _, _, _)
Reconcile(h, v, doc, p) ==
  LET q  == Resolve(doc, p)
      at == h[v.r].at
      Kid(k) == IF k \in ToSet(Reused(doc, q, at))
                THEN [Reconcile(h, at[k], doc, Append(q, k)) EXCEPT !.above = doc[Append(q, k)].above]
                ELSE Rendered(h, at[k])
  IN  IF v.t # "ref" /\ doc[q].kind = "scalar" THEN ReconcileScalar(doc[q], v)
      ELSE IF v.t = "ref" /\ doc[q].kind \in {"map", "seq"} /\ doc[q].kind = h[v.r].kind
           THEN Branch(doc[q].kind, ReconciledKeys(doc, q, at), [k \in DOMAIN at |-> Kid(k)])
      ELSE Rendered(h, v)

(* renderDocument: -Y needs a parse tree, which TOML and slurped input lack*)
Printed(h, i, v) ==
  IF Has("yaml-roundtrip") /\ docs[i].tree # <<>> THEN Reconcile(h, v, docs[i].tree, <<>>)
  ELSE Rendered(h, v)

-----------------------------------------------------------------------------
(* The run *)

Init ==
  /\ job \in Jobs
  /\ cl = ParserFor(job.words)
  /\ pc = "parse"
  /\ vars = <<>>
  /\ heap = <<>>
  /\ order = <<>>
  /\ docs = <<>>
  /\ next = 1
  /\ stdout = <<>>
  /\ failed = FALSE
  /\ exit = "running"

Exit(code) == pc' = "done" /\ exit' = code

Parse ==
  /\ pc = "parse"
  /\ cl.words # <<>>
  /\ cl.err = None
  /\ cl' = ParseWord(cl)
  /\ UNCHANGED <<job, pc, vars, heap, order, docs, next, stdout, failed, exit>>

CheckFlags ==
  /\ pc = "parse"
  /\ cl.words = <<>> \/ cl.err # None
  /\ IF Refusal(job.fmt, cl) # None THEN Exit("1")
     ELSE IF Has("version") THEN Exit("0")
     ELSE IF cl.rest = <<>> \/ (Has("in-place") /\ Len(cl.rest) = 1) THEN Exit("1")
     ELSE pc' = "bind" /\ UNCHANGED exit
  /\ UNCHANGED <<job, cl, vars, heap, order, docs, next, stdout, failed>>

(* The documents of one file, named so that no two share a reference. *)
Docs(name, fmt, file) ==
  [j \in DOMAIN file |->
     LET id == Append(name, ToString(j)) IN
     [id    |-> id,
      src   |-> file[j],
      value |-> IF fmt = "toml" THEN Ref(id) ELSE DecodedAt(file[j], id, <<>>),
      tree  |-> IF fmt = "toml" THEN <<>> ELSE file[j],
      heap  |-> IF fmt = "toml" THEN DecodeTOML(file[j], id) ELSE DecodeYAML(file[j], id),
      order |-> IF fmt = "toml" THEN TOMLOrder(file[j], id) ELSE YAMLOrder(file[j], id)]]

Readable(file) == file \in DOMAIN Files

(* The files read, standard input being "-", and their documents. *)
Operands == IF Len(cl.rest) = 1 THEN <<"-">> ELSE Tail(cl.rest)
Inputs   == FlattenSeq([i \in DOMAIN Operands |-> Docs(<<"in", ToString(i)>>, job.fmt, Files[Operands[i]])])

(* The array of some documents, as --slurp and --slurpfile make it. *)
ArrayOf(ds) ==
  [kind |-> "seq", at |-> [k \in {ToString(j) : j \in DOMAIN ds} |->
                              ds[CHOOSE j \in DOMAIN ds : ToString(j) = k].value]]

Heaps(ds) == Merged([j \in DOMAIN ds |-> ds[j].heap], DOMAIN ds)

(* BuildVars and Compile: --argjson must parse, --slurpfile must decode (it*)
(* is always read as YAML, and its key order is not kept), and every       *)
(* variable of the filter must be bound.                                   *)
VarValue(b) == CASE b.flag = "slurpfile" -> Ref(<<"$", b.value>>)
                 [] b.flag = "argjson"   -> Num(b.value, "json")
                 [] OTHER                -> Text(b.value)

(* A binding that cannot be made: parseJSON's error, or an unreadable file. *)
Unbindable(b) == \/ b.flag = "argjson" /\ b.value = "bad"
                 \/ b.flag = "slurpfile" /\ ~Readable(b.value)

Compiles(filter, names) == filter \in DOMAIN Filters /\ Filters[filter].vars \subseteq names

BuildVars ==
  LET names == {b.name : b \in cl.bound}
      files == {b.value : b \in {c \in cl.bound : c.flag = "slurpfile"}}
      Slurped(f) == Docs(<<"$", f>>, "yaml", Files[f])
      Objects(f) == (<<"$", f>> :> ArrayOf(Slurped(f))) @@ Heaps(Slurped(f))
  IN  /\ pc = "bind"
      /\ IF (\E b \in cl.bound : Unbindable(b)) \/ ~Compiles(cl.rest[1], names)
         THEN Exit("1") /\ UNCHANGED <<vars, heap>>
         ELSE /\ pc' = IF Has("in-place") THEN "inplace" ELSE "read"
              /\ vars' = [n \in names |-> VarValue(CHOOSE b \in cl.bound : b.name = n)]
              /\ heap' = Filters[cl.rest[1]].objects @@ Merged([f \in files |-> Objects(f)], files)
              /\ UNCHANGED exit
      /\ UNCHANGED <<job, cl, order, docs, next, stdout, failed>>

(* readDocuments, and the array of them all under --slurp. *)
ReadDocuments ==
  /\ pc = "read"
  /\ IF \E i \in DOMAIN Operands : ~Readable(Operands[i])
     THEN Exit("1") /\ UNCHANGED <<heap, order, docs>>
     ELSE /\ pc' = "run"
          /\ order' = Merged([j \in DOMAIN Inputs |-> Inputs[j].order], DOMAIN Inputs)
          /\ heap' = (IF Has("slurp") THEN <<"in">> :> ArrayOf(Inputs) ELSE <<>>) @@ Heaps(Inputs) @@ heap
          /\ docs' = IF Has("slurp") THEN <<[value |-> Ref(<<"in">>), tree |-> <<>>]>>
                     ELSE [j \in DOMAIN Inputs |-> [value |-> Inputs[j].value, tree |-> Inputs[j].tree]]
          /\ UNCHANGED exit
  /\ UNCHANGED <<job, cl, vars, next, stdout, failed>>

(* One turn of runToStdout's loop. *)
RunDocument ==
  LET run == Run(next)
      Line(j) == [doc |-> next, emitted |-> run.out[j].emitted, value |-> run.out[j].value,
                  text |-> Printed(run.heap, next, run.out[j].value),
                  sep |-> (Has("yaml-output") \/ Has("yaml-roundtrip")) /\ Len(stdout) + j > 1]
  IN  /\ pc = "run"
      /\ next <= Len(docs)
      /\ heap' = run.heap
      /\ stdout' = stdout \o [j \in DOMAIN run.out |-> Line(j)]
      /\ failed' = (failed \/ run.error)
      /\ next' = next + 1
      /\ UNCHANGED <<job, cl, pc, vars, order, docs, exit>>

Finish ==
  /\ pc = "run"
  /\ next > Len(docs)
  /\ Exit(IF failed THEN "1" ELSE "0")
  /\ UNCHANGED <<job, cl, vars, heap, order, docs, next, stdout, failed>>

Next == Parse \/ CheckFlags \/ BuildVars \/ ReadDocuments \/ RunDocument \/ Finish

Spec == Init /\ [][Next]_all

-----------------------------------------------------------------------------
(* Properties *)

TypeOK ==
  /\ job \in Jobs
  /\ pc \in {"parse", "bind", "read", "run", "inplace", "done"}
  /\ cl.set \subseteq DOMAIN FlagKind
  /\ DOMAIN order \subseteq DOMAIN heap
  /\ next \in 1..Len(docs) + 1
  /\ failed \in BOOLEAN
  /\ exit \in {"running", "0", "1"}

(* Two values are equal as JSON. *)
RECURSIVE Equal(_, _)
Equal(v, w) ==
  IF v.t # "ref" \/ w.t # "ref" THEN SameScalar(v, w)
  ELSE /\ heap[v.r].kind = heap[w.r].kind
       /\ DOMAIN heap[v.r].at = DOMAIN heap[w.r].at
       /\ \A k \in DOMAIN heap[v.r].at : Equal(heap[v.r].at[k], heap[w.r].at[k])

(* A text reads as value v: every key once, and, in JSON, numbers as JSON  *)
(* writes them.                                                            *)
RECURSIVE Means(_, _)
Means(text, v) ==
  IF v.t # "ref"
  THEN /\ text.kind = "scalar" /\ SameScalar(text.val, v)
       /\ text.val.t = "number" /\ ~Has("yaml-roundtrip") => text.val.form = "json"
  ELSE /\ text.kind = heap[v.r].kind
       /\ ToSet(text.keys) = DOMAIN heap[v.r].at
       /\ Len(text.keys) = Cardinality(DOMAIN heap[v.r].at)
       /\ \A k \in ToSet(text.keys) : Means(text.kids[k], heap[v.r].at[k])

(* What is printed is what the filter emitted, whichever mechanism chose   *)
(* the order of its keys (run.go renderDocument, KeyOrder, reconcile): no  *)
(* key is lost, doubled or invented on the way.                            *)
TextsMeanWhatWasEmitted == \A i \in DOMAIN stdout : Means(stdout[i].text, stdout[i].emitted)

(* The keys of the object at path p of an input in the order its file gives*)
(* them: not known for a mapping with a merge key, nor inside the inline   *)
(* tables of a TOML array.                                                 *)
FirstAt(src, p) ==
  LET Is == {i \in DOMAIN src : IsPrefix(p, src[i].at)}
  IN  CHOOSE i \in Is : \A j \in Is : i <= j

OrderKnown(src, p) ==
  IF job.fmt = "yaml" THEN "<<" \notin ToSet(src[p].keys)
  ELSE ~\E i \in DOMAIN src : src[i].type = "array" /\ IsPrefix(src[i].at, p)

InFileOrder(src, p, keys) ==
  IF job.fmt = "yaml" THEN keys = src[p].keys
  ELSE \A i, j \in DOMAIN keys : i < j => FirstAt(src, Append(p, keys[i])) < FirstAt(src, Append(p, keys[j]))

RECURSIVE KeepsOrder(_, _)
KeepsOrder(text, v) ==
  v.t = "ref" =>
    /\ \A d \in ToSet(Inputs) :
         LET p == SubSeq(v.r, Len(d.id) + 1, Len(v.r))
         IN  (IsPrefix(d.id, v.r) /\ text.kind = "map" /\ OrderKnown(d.src, p)) => InFileOrder(d.src, p, text.keys)
    /\ \A k \in ToSet(text.keys) : KeepsOrder(text.kids[k], heap[v.r].at[k])

(* An object of the input that the filter passes on, whole or inside a new *)
(* object, is printed with its keys in the order of the file (format.go    *)
(* orderedKeys; yq.go:40-44, 143-155; engine.go:132-140; toml.go:178-183). *)
FileOrderKept ==
  \A i \in DOMAIN stdout : ~Has("sort-keys") /\ ~Has("yaml-roundtrip") => KeepsOrder(stdout[i].text, stdout[i].emitted)

(* No object is ever written to after it was made: a value bound to a      *)
(* variable is shared by every document, and by files edited in parallel   *)
(* (engine.go:140-147).                                                    *)
ObjectsNeverChange == [][\A r \in DOMAIN heap : r \in DOMAIN heap' /\ heap'[r] = heap[r]]_all

(* A text has the spelling and the order of the part of a parse tree at    *)
(* path p, aliases written out.                                            *)
RECURSIVE IsSpelled(_, _, _)
IsSpelled(text, src, p) ==
  LET q == Resolve(src, p)
  IN  /\ text.kind = src[q].kind
      /\ IF src[q].kind = "scalar" THEN text.val = src[q].val
         ELSE /\ text.keys = IF Has("sort-keys") THEN Sorted(ToSet(src[q].keys)) ELSE src[q].keys
              /\ \A k \in ToSet(src[q].keys) : IsSpelled(text.kids[k], src, Append(q, k))

Merges(src, q) == \E p \in DOMAIN src : IsPrefix(q, p) /\ src[p].kind = "map" /\ "<<" \in ToSet(src[p].keys)

Comments(node) == <<node.head, node.comment, node.anchor>>

RECURSIVE EditIsLocal(_, _, _, _)
EditIsLocal(text, v, d, p) ==
  LET q == Resolve(d.src, p)
      was == DecodedAt(d.src, d.id, q)
  IN  /\ Equal(v, was) /\ ~Merges(d.src, q) => IsSpelled(text, d.src, q)
      /\ v.t # "ref" /\ was.t # "ref" => Comments(text) = Comments(d.src[q])
      /\ v.t = "ref" /\ was.t = "ref" /\ heap[v.r].kind = d.src[q].kind =>
           \A k \in ToSet(Pairs(d.src, q)) \cap DOMAIN heap[v.r].at :
             /\ text.kids[k].above = d.src[Append(q, k)].above
             /\ EditIsLocal(text.kids[k], heap[v.r].at[k], d, Append(q, k))

(* Under -Y an edit is local: whatever the filter leaves equal to the      *)
(* original at its path prints as it stood, spelling and order included; a *)
(* key that is kept keeps its head comment, whatever becomes of its value; *)
(* and a scalar that is left, or set to another, keeps its comments and    *)
(* anchor (roundtrip.go:18-34, 85-89).  The comments of a mapping or       *)
(* sequence itself do not survive (UnchangedKeepsItsNode).                 *)
RoundtripIsLocal ==
  \A i \in DOMAIN stdout :
    job.fmt = "yaml" /\ Has("yaml-roundtrip") /\ ~Has("slurp") =>
      EditIsLocal(stdout[i].text, stdout[i].emitted, Inputs[stdout[i].doc], <<>>)

(* roundtrip.go:45-48 says reconcile returns the original itself, "with    *)
(* every comment, anchor, and style intact", when the value is unchanged.  *)
RECURSIVE IsOriginal(_, _, _)
IsOriginal(text, src, p) ==
  LET q == Resolve(src, p)
  IN  /\ Comments(text) = Comments(src[q])
      /\ \A k \in ToSet(Pairs(src, q)) : IsOriginal(text.kids[k], src, Append(q, k))

UnchangedKeepsItsNode ==
  \A i \in DOMAIN stdout :
    LET d == Inputs[stdout[i].doc] IN
    job.fmt = "yaml" /\ Has("yaml-roundtrip") /\ Equal(stdout[i].emitted, DecodedAt(d.src, d.id, <<>>)) =>
      IsOriginal(stdout[i].text, d.src, <<>>)

(* A variable has the value its first binding on the command line gave it, *)
(* though the bindings are kept in three maps and put together map by map  *)
(* (flags.go:317-328, engine.go:225-253).                                  *)
FirstBindingWins ==
  \A n \in DOMAIN vars : vars[n] = VarValue(SelectSeq(cl.uses, LAMBDA u : u.name = n)[1])

(* A flag yq knows and does not act on never goes unnoticed: nothing is    *)
(* printed under it (flags.go:148-165, toml.go:232-236).                   *)
NoFlagIgnored ==
  stdout # <<>> => /\ cl.set \cap (Deferred \cup Separate) = {}
                   /\ job.fmt = "toml" => cl.set \cap NotTOML = {}

(* Nothing of the command line is lost: neither a binding nor a flag. *)
CommandLineHonoured == FirstBindingWins /\ NoFlagIgnored

(* A filter that fails on one document has printed what it emitted there   *)
(* before, still runs on the others, and the exit code tells (run.go:170-  *)
(* 195, engine.go:70-75).                                                  *)
FailureIsPartial ==
  pc = "done" /\ next > Len(docs) /\ docs # <<>> =>
    LET ops == Filters[cl.rest[1]].ops
        Lines(j) == {i \in DOMAIN stdout : stdout[i].doc = j}
        Sure(op) == op.op = "value" /\ op.val.t # "number"
    IN  /\ exit = "0" <=> \A j \in DOMAIN docs : Cardinality(Lines(j)) = Len(ops)
        /\ Sure(ops[1]) => \A j \in DOMAIN docs : Lines(j) # {}

(* So all that is emitted is printed, and nothing else is. *)
PrintsWhatWasEmitted == TextsMeanWhatWasEmitted /\ FailureIsPartial
=============================================================================
