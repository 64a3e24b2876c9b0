------------------------------ MODULE SpecDocs ------------------------------
(***************************************************************************)
(* The documents a gateway shows under /__barbacane/specs: each spec of    *)
(* its artifact, and the specs of one kind merged into one (main.rs).      *)
(*                                                                         *)
(* The gateway keeps its specs in a hash map, so that they are merged in   *)
(* any order; the members of an object come in the order of their names.   *)
(* Servers, tags and titles are left out.                                  *)
(***************************************************************************)
EXTENDS Artifact

CONSTANTS
    file_base,   \* the name of each file without .yaml or .json
    json_files,  \* the files whose names end in .json
    NameOrder    \* the names of components, channels and operations, in order

detect_spec_type(doc) ==
    CASE doc.format \in {"openapi 2", "openapi 3"} -> "OpenApi"
      [] doc.format \in {"asyncapi 2", "asyncapi 3"} -> "AsyncApi"
      [] OTHER -> "Unknown"

strip_barbacane_keys_recursive(doc) ==
    LET bare(op) == [op EXCEPT !.dispatch = {}, !.mws = {}, !.mcp = {}]
        list(seq) == [i \in DOMAIN seq |-> bare(seq[i])]
    IN [doc EXCEPT !.mws = {}, !.mcp = {}, !.operations = {list(seq) : seq \in @},
                   !.paths = [i \in DOMAIN @ |-> [@[i] EXCEPT !.ops = list(@)]]]

ByPath(doc) ==
    [t \in {doc.paths[i].path.text : i \in DOMAIN doc.paths} |->
        doc.paths[Max({i \in DOMAIN doc.paths : doc.paths[i].path.text = t})]]

ById(doc) ==
    [n \in UNION {{seq[i].id : i \in DOMAIN seq} : seq \in doc.operations} |->
        CHOOSE op \in UNION {Range(seq) : seq \in doc.operations} : op.id = n]

(* Mutant: a name that is taken is taken over. *)
TakesOver(entries, merged, file, many) == entries @@ merged

Joined(file, name) == file_base[file] \o "_" \o name

(* A name that is taken is joined to the file's; the joined one is not     *)
(* looked up, and replaces what has it.                                    *)
Qualified(entries, merged, file, many) ==
    FoldLeft(LAMBDA acc, n : ((IF many /\ n \in DOMAIN acc THEN Joined(file, n) ELSE n) :> entries[n]) @@ acc,
             merged, SelectSeq(NameOrder, LAMBDA n : n \in DOMAIN entries))

Nothing == [k \in {} |-> 0]

(* Of a path that several files describe, the last one's methods remain. *)
merge_openapi_specs(files, specs) ==
    FoldLeft(LAMBDA acc, f :
        LET doc == strip_barbacane_keys_recursive(specs[f])
        IN [paths |-> ByPath(doc) @@ acc.paths,
            schemas |-> Qualified(doc.root, acc.schemas, f, Len(files) > 1)],
        [paths |-> Nothing, schemas |-> Nothing], files)

merge_asyncapi_specs(files, specs) ==
    FoldLeft(LAMBDA acc, f :
        LET doc == strip_barbacane_keys_recursive(specs[f])
        IN [channels |-> Qualified(doc.channels, acc.channels, f, Len(files) > 1),
            operations |-> Qualified(ById(doc), acc.operations, f, Len(files) > 1),
            schemas |-> Qualified(doc.root, acc.schemas, f, Len(files) > 1)],
        [channels |-> Nothing, operations |-> Nothing, schemas |-> Nothing], files)

OfType(specs, type) == {f \in DOMAIN specs : detect_spec_type(specs[f]) = type}

specs_index_response(specs) ==
    [openapi |-> OfType(specs, "OpenApi"), asyncapi |-> OfType(specs, "AsyncApi")]

\* The answers to be expected, one for each order of the map; none: 404.
merged_openapi_response(specs) ==
    {merge_openapi_specs(files, specs) : files \in SetToSeqs(OfType(specs, "OpenApi")) \ {<<>>}}

merged_asyncapi_response(specs) ==
    {merge_asyncapi_specs(files, specs) : files \in SetToSeqs(OfType(specs, "AsyncApi")) \ {<<>>}}

(* A .json file is read as JSON, though the compiler reads every file as   *)
(* YAML; what does not parse is shown as it is.                            *)
Unparsable(specs, f) == f \in json_files /\ ~specs[f].json

spec_file_response(specs, f) ==
    {IF Unparsable(specs, g) THEN specs[g] ELSE strip_barbacane_keys_recursive(specs[g]) : g \in {f} \cap DOMAIN specs}

-----------------------------------------------------------------------------
(* Properties *)

(* The name is that of a component of the other file, or of this file,     *)
(* joined to the file's: "a" with "pet" is "a_pet".                        *)
JoinedElsewhere(names, f, n) ==
    \E g \in DOMAIN names : \E m \in names[g] : <<g, m>> # <<f, n>> /\ Joined(g, m) \in {n, Joined(f, n)}

(* Each entry of each file is in the merged document, under its own name   *)
(* or joined to the file's, unless another's joined name is the same.      *)
AllKept(entries, merged) ==
    LET names == [f \in DOMAIN entries |-> DOMAIN entries[f]]
    IN \A f \in DOMAIN entries : \A n \in names[f] :
          \/ \E k \in {n, Joined(f, n)} \cap DOMAIN merged : merged[k] = entries[f][n]
          \/ JoinedElsewhere(names, f, n)

Bare(op) == op.dispatch = {} /\ op.mws = {}
BareDoc(doc) ==
    /\ doc.mws = {}
    /\ \A i \in DOMAIN doc.paths : \A op \in Range(doc.paths[i].ops) : Bare(op)
    /\ \A seq \in doc.operations : \A op \in Range(seq) : Bare(op)

(* What is served is documented, in whatever order the specs are merged:   *)
(* each path, with its methods unless another file describes that path     *)
(* too, each channel, operation and schema (names joined to that of a file *)
(* may coincide, and then one is lost); and no document shows a plugin,    *)
(* its configuration or the secrets that refers to, except a .json file    *)
(* that holds YAML, which is shown as it was written.                      *)
DocsShowTheApi ==
    Serving =>
        LET specs == archive.specs
            index == specs_index_response(specs)
            bare == [f \in DOMAIN specs |-> strip_barbacane_keys_recursive(specs[f])]
            Entries(files, Of(_)) == [f \in files |-> Of(bare[f])]
        IN /\ \A f \in DOMAIN specs : Unparsable(specs, f) \/ BareDoc(The(spec_file_response(specs, f)))
           /\ \A merged \in merged_openapi_response(specs) :
                /\ AllKept(Entries(index.openapi, LAMBDA doc : doc.root), merged.schemas)
                /\ \A f \in index.openapi : \A t \in DOMAIN ByPath(bare[f]) :
                     /\ t \in DOMAIN merged.paths
                     /\ \/ merged.paths[t] = ByPath(bare[f])[t]
                        \/ \E g \in index.openapi \ {f} : t \in DOMAIN ByPath(specs[g])
                /\ \A t \in DOMAIN merged.paths : \A op \in Range(merged.paths[t].ops) : Bare(op)
           /\ \A merged \in merged_asyncapi_response(specs) :
                /\ AllKept(Entries(index.asyncapi, LAMBDA doc : doc.channels), merged.channels)
                /\ AllKept(Entries(index.asyncapi, LAMBDA doc : doc.root), merged.schemas)
                /\ AllKept(Entries(index.asyncapi, ById), merged.operations)
                /\ \A k \in DOMAIN merged.operations : Bare(merged.operations[k])

=============================================================================
