--------------------------- MODULE ArtifactProofs ---------------------------
(***************************************************************************)
(* Proofs about compilation, archive and loading, for any files,           *)
(* documents, plugins, releases, keys and secrets.                         *)
(***************************************************************************)
EXTENDS Artifact, FiniteSetTheorems, TLAPS

-----------------------------------------------------------------------------
(* Lists *)

IsList(s) == \E S : s \in Seq(S)

(* Append adds one element at the end and leaves the others.               *)
LEMMA AppendList ==
    ASSUME NEW s, IsList(s), NEW x
    PROVE  /\ IsList(Append(s, x)) /\ Len(s) \in Nat /\ DOMAIN s = 1 .. Len(s)
           /\ Len(Append(s, x)) = Len(s) + 1 /\ DOMAIN Append(s, x) = 1 .. Len(s) + 1
           /\ Append(s, x)[Len(s) + 1] = x
           /\ \A i \in 1 .. Len(s) : Append(s, x)[i] = s[i]
<1>1. PICK S : s \in Seq(S)
    BY DEF IsList
<1>2. s \in Seq(S \cup {x})
    BY <1>1
<1>3. Append(s, x) \in Seq(S \cup {x})
    BY <1>2
<1>4. IsList(Append(s, x))
    BY <1>3 DEF IsList
<1> QED
    BY <1>2, <1>4

(* The empty list is a list.                                               *)
LEMMA EmptyList == IsList(<<>>) /\ Len(<<>>) = 0 /\ DOMAIN <<>> = {}
<1>1. <<>> \in Seq({})
    OBVIOUS
<1> QED
    BY <1>1 DEF IsList

-----------------------------------------------------------------------------
(* parse_spec *)

(* Collect has at most one result.                                         *)
LEMMA CollectOne == ASSUME NEW rs PROVE \A x, y \in Collect(rs) : x = y
    BY DEF Collect

(* A document has at most one parse: parse_spec is a function of what it   *)
(* reads.                                                                  *)
LEMMA ParseOne == ASSUME NEW doc PROVE \A x, y \in parse_spec(doc) : x = y
<1>1. \A x, y \in parse_openapi_paths(doc) : x = y
    BY CollectOne, Zenon DEF parse_openapi_paths
<1>2. \A x, y \in parse_asyncapi_channels(doc) : x = y
    <2>1. \A x, y \in build_channel_lookup(doc) : x = y
        BY CollectOne, Zenon DEF build_channel_lookup
    <2> DEFINE Of(lookup) == Collect([i \in DOMAIN The(doc.operations) |->
                                 ParseAsyncOperation(doc, lookup, The(doc.operations)[i])])
    <2>2. \A l : \A x, y \in Of(l) : x = y
        BY CollectOne, Zenon
    <2>3. parse_asyncapi_channels(doc) =
              IF doc.operations = {} THEN {<<>>} ELSE UNION {Of(l) : l \in build_channel_lookup(doc)}
        BY Zenon DEF parse_asyncapi_channels
    <2> HIDE DEF Of
    <2>4. ASSUME NEW x \in UNION {Of(l) : l \in build_channel_lookup(doc)},
                 NEW y \in UNION {Of(l) : l \in build_channel_lookup(doc)}
          PROVE  x = y
        <3>1. PICK l \in build_channel_lookup(doc) : x \in Of(l)
            BY Zenon
        <3>2. PICK m \in build_channel_lookup(doc) : y \in Of(m)
            BY Zenon
        <3> QED
            BY <2>1, <2>2, <3>1, <3>2, Zenon
    <2>5. \A x, y \in {<<>>} : x = y
        OBVIOUS
    <2> QED
        BY <2>3, <2>4, <2>5, Zenon
<1> QED
    BY <1>1, <1>2, Zenon DEF parse_spec

(* What ParseSpec keeps is all that parse_spec yields.                     *)
LEMMA ParsedIsAll == ASSUME NEW doc, parse_spec(doc) # {} PROVE parse_spec(doc) = {The(parse_spec(doc))}
<1>1. The(parse_spec(doc)) \in parse_spec(doc)
    BY Zenon DEF The
<1>2. \A x \in parse_spec(doc) : x = The(parse_spec(doc))
    BY <1>1, ParseOne, Zenon
<1> QED
    BY <1>1, <1>2, Zenon

-----------------------------------------------------------------------------
(* The invariant of the compiler *)

(* The two reads of each file: what has been parsed is the parse of what   *)
(* was read first, unless the file was edited in between.                  *)
Reading ==
    /\ DOMAIN disk = Range(Files)
    /\ IsList(contents) /\ IsList(parsed)
    /\ Len(parsed) <= Len(contents) /\ Len(parsed) <= Len(Files)
    /\ pc = "read" => Len(contents) = Len(parsed) /\ Len(parsed) < Len(Files)
    /\ pc = "parse" =>
          /\ Len(contents) = Len(parsed) + 1 /\ Len(parsed) < Len(Files)
          /\ \/ Files[Len(parsed) + 1] \in torn
             \/ contents[Len(parsed) + 1] = disk[Files[Len(parsed) + 1]]
    /\ pc \notin {"read", "parse", "failed"} => Len(parsed) = Len(Files)
    /\ \A i \in 1 .. Len(parsed) : Files[i] \in torn \/ parse_spec(contents[i]) = {parsed[i]}

(* A plugin that is being fetched is not bundled yet, and its bytes are    *)
(* the pinned ones once they have been compared.                           *)
Fetching ==
    /\ pc = "resolve" /\ fetch.step \in {"cached", "download", "toml", "put"}
    /\ fetch.name \in Unresolved /\ fetch.name \in DOMAIN Declared
    /\ Declared[fetch.name].kind = "url"
    /\ fetch.step \in {"cached", "put"} => Declared[fetch.name].pin \subseteq {fetch.wasm}

Resolving ==
    /\ DOMAIN cache = DOMAIN Releases
    /\ \A n \in DOMAIN Releases : "wasm" \in DOMAIN cache[n] /\ \A x, y \in cache[n].wasm : x = y
    /\ fetch = NoFetch \/ Fetching

Bundling ==
    /\ IsList(bundles)
    /\ \A i \in DOMAIN bundles : bundles[i].name \in DOMAIN Declared
    /\ \A i, j \in DOMAIN bundles : bundles[i].name = bundles[j].name => i = j
    /\ PinnedIsBundled

CompilerInv == Reading /\ Resolving /\ Bundling

(* A new compilation has read, fetched and bundled nothing.                *)
LEMMA CompilerStarts == CompilerInit => CompilerInv
<1> SUFFICES ASSUME CompilerInit PROVE CompilerInv
    OBVIOUS
<1>1. Reading
    BY EmptyList, CompilerAssumption DEF CompilerInit, Reading
<1>2. Bundling
    BY EmptyList DEF CompilerInit, Bundling, PinnedIsBundled
<1>3. Resolving
    <2>1. PICK r \in 1 .. 2, warm \in BOOLEAN :
              cache = [n \in DOMAIN Releases |->
                IF warm THEN [wasm |-> {Releases[n][upstream[n]].wasm},
                              toml |-> Releases[n][upstream[n]].toml]
                ELSE [wasm |-> {}, toml |-> {}]]
        BY Zenon DEF CompilerInit
    <2>2. ASSUME NEW n \in DOMAIN Releases
          PROVE  "wasm" \in DOMAIN cache[n] /\ \A x, y \in cache[n].wasm : x = y
        BY <2>1
    <2> QED
        BY <2>1, <2>2 DEF CompilerInit, Resolving
<1> QED
    BY <1>1, <1>2, <1>3 DEF CompilerInv

(* Steps after the reads leave what they say alone.                        *)
LEMMA ReadingKept ==
    ASSUME Reading, UNCHANGED <<disk, contents, parsed, torn>>,
           \/ pc' = pc \/ pc' = "failed"
           \/ pc \notin {"read", "parse", "failed"} /\ pc' \notin {"read", "parse"}
    PROVE  Reading'
    BY DEF Reading

(* An edit between the two reads of a file is remembered.                  *)
LEMMA EditReading ==
    ASSUME Reading, NEW f \in Range(Files), NEW d, EditSpec(f, d) PROVE Reading'
<1>1. UNCHANGED <<pc, contents, parsed>> /\ torn \subseteq torn' /\ disk' = [disk EXCEPT ![f] = d]
    BY DEF EditSpec
<1>2. DOMAIN disk' = Range(Files) /\ \A g \in Range(Files) : g # f => disk'[g] = disk[g]
    BY <1>1 DEF Reading
<1>3. ASSUME pc = "parse"
      PROVE  \/ Files[Len(parsed) + 1] \in torn'
             \/ contents[Len(parsed) + 1] = disk'[Files[Len(parsed) + 1]]
    <2>1. Len(parsed) + 1 \in DOMAIN Files
        BY <1>3, AppendList, CompilerAssumption DEF Reading
    <2>2. Files[Len(parsed) + 1] \in Range(Files)
        BY <2>1 DEF Range
    <2> QED
        BY <1>1, <1>2, <1>3, <2>2 DEF EditSpec, Reading
<1> QED
    BY <1>1, <1>2, <1>3 DEF Reading

(* The first read.                                                         *)
LEMMA ReadReading ==
    ASSUME Reading, ReadSpec PROVE Reading'
<1> DEFINE x == disk[Files[Len(contents) + 1]]
<1>1. /\ contents' = Append(contents, x) /\ pc' = "parse" /\ pc = "read"
      /\ UNCHANGED <<disk, parsed, torn>>
    BY DEF ReadSpec
<1>2. /\ IsList(contents') /\ Len(contents) \in Nat /\ Len(contents') = Len(contents) + 1
      /\ contents'[Len(contents) + 1] = x
      /\ \A i \in 1 .. Len(contents) : contents'[i] = contents[i]
    BY <1>1, AppendList DEF Reading
<1>3. Len(parsed) \in Nat /\ Len(contents) = Len(parsed) /\ Len(parsed) < Len(Files)
    BY <1>1, AppendList DEF Reading
<1>4. ASSUME NEW i \in 1 .. Len(parsed) PROVE Files[i] \in torn \/ parse_spec(contents'[i]) = {parsed[i]}
    <2>1. contents'[i] = contents[i]
        BY <1>2, <1>3
    <2> QED
        BY <2>1 DEF Reading
<1>5. pc' = "parse" => contents'[Len(parsed) + 1] = disk[Files[Len(parsed) + 1]]
    BY <1>2, <1>3
<1>6. Len(parsed) <= Len(contents') /\ Len(contents') = Len(parsed) + 1
    BY <1>2, <1>3
<1>7. pc' = "parse" /\ UNCHANGED <<disk, parsed, torn>> /\ IsList(contents')
    BY <1>1, <1>2
<1> HIDE DEF x
<1> QED
    BY <1>3, <1>4, <1>5, <1>6, <1>7 DEF Reading

(* The second read.                                                        *)
LEMMA ParseReading ==
    ASSUME Reading, ParseSpec PROVE Reading'
<1> DEFINE i == Len(parsed) + 1
           spec == parse_spec(disk[Files[i]])
<1>1. pc = "parse" /\ UNCHANGED <<disk, contents, torn>>
    BY DEF ParseSpec
<1>2. \/ pc' = "failed" /\ UNCHANGED parsed
      \/ /\ spec # {} /\ parsed' = Append(parsed, The(spec))
         /\ pc' = IF Len(parsed') = Len(Files) THEN "validate" ELSE "read"
    BY Zenon DEF ParseSpec, parse_spec_file
<1>3. ASSUME spec # {}, parsed' = Append(parsed, The(spec)),
             pc' = IF Len(parsed') = Len(Files) THEN "validate" ELSE "read"
      PROVE  Reading'
    <2>1. /\ IsList(parsed') /\ Len(parsed) \in Nat /\ Len(parsed') = i
          /\ parsed'[i] = The(spec)
          /\ \A k \in 1 .. Len(parsed) : parsed'[k] = parsed[k]
        BY <1>3, AppendList DEF Reading
    <2>2. Files[i] \in torn' \/ parse_spec(contents'[i]) = {parsed'[i]}
        BY <1>1, <1>3, <2>1, ParsedIsAll DEF Reading
    <2>3. \A k \in 1 .. i : Files[k] \in torn' \/ parse_spec(contents'[k]) = {parsed'[k]}
        <3> SUFFICES ASSUME NEW k \in 1 .. i PROVE Files[k] \in torn' \/ parse_spec(contents'[k]) = {parsed'[k]}
            OBVIOUS
        <3> HIDE DEF spec
        <3>1. CASE k = i
            BY <2>2, <3>1
        <3>2. CASE k # i
            <4>1. k \in 1 .. Len(parsed)
                BY <2>1, <3>2
            <4>2. parsed'[k] = parsed[k]
                BY <2>1, <4>1
            <4> QED
                BY <1>1, <4>1, <4>2 DEF Reading
        <3> QED
            BY <3>1, <3>2
    <2>4. Len(contents) \in Nat /\ Len(Files) \in Nat
        BY AppendList, CompilerAssumption DEF Reading
    <2> HIDE DEF spec
    <2> QED
        BY <1>1, <1>3, <2>1, <2>3, <2>4 DEF Reading
<1>4. ASSUME pc' = "failed" /\ UNCHANGED parsed PROVE Reading'
    BY <1>1, <1>4, ReadingKept
<1> QED
    BY <1>2, <1>3, <1>4

(* A step that neither fetches nor writes the cache.                       *)
LEMMA ResolvingKept ==
    ASSUME Resolving, UNCHANGED <<cache, fetch>>,
           fetch = NoFetch \/ UNCHANGED <<pc, parsed, bundles>>
    PROVE  Resolving'
<1>1. Fetching /\ UNCHANGED <<pc, parsed, bundles>> => Fetching'
    BY DEF Fetching, Unresolved
<1> QED
    BY <1>1 DEF Resolving

(* Nothing is being fetched when the compiler is not resolving.            *)
LEMMA FetchOnlyResolving == ASSUME Resolving, pc # "resolve" PROVE fetch = NoFetch
    BY DEF Resolving, Fetching

(* A step of the fetch is one of a plugin from a URL.                      *)
LEMMA FetchIsGoing ==
    ASSUME Resolving, fetch.step \in {"cached", "download", "toml", "put"} PROVE Fetching
    BY DEF Resolving, NoFetch

(* Bundles that are left alone.                                            *)
LEMMA BundlingKept == ASSUME Bundling, UNCHANGED bundles PROVE Bundling'
    BY DEF Bundling, PinnedIsBundled

(* A plugin is bundled once, with the pinned bytes.                        *)
LEMMA Bundles ==
    ASSUME Bundling, NEW n \in DOMAIN Declared, n \in Unresolved, NEW wasm, NEW toml, NEW secretFields,
           AddBundle(n, wasm, toml, secretFields),
           Declared[n].kind = "url" => Declared[n].pin \subseteq {wasm}
    PROVE  Bundling' /\ (pc' = pc \/ pc' = "failed")
<1> DEFINE b == Bundle(n, wasm, toml, secretFields)
<1>1. b.name = n /\ b.wasm = wasm
    BY DEF Bundle
<1>2. \/ bundles' = Append(bundles, b) /\ pc' = pc
      \/ bundles' = bundles /\ pc' = "failed"
    BY DEF AddBundle
<1>3. ASSUME bundles' = Append(bundles, b) PROVE Bundling'
    <2> HIDE DEF b
    <2>1. /\ IsList(bundles') /\ Len(bundles) \in Nat /\ DOMAIN bundles = 1 .. Len(bundles)
          /\ DOMAIN bundles' = 1 .. Len(bundles) + 1 /\ bundles'[Len(bundles) + 1] = b
          /\ \A i \in 1 .. Len(bundles) : bundles'[i] = bundles[i]
        BY <1>3, AppendList DEF Bundling
    <2>2. \A i \in DOMAIN bundles' : (i \in DOMAIN bundles /\ bundles'[i] = bundles[i])
                                     \/ (i = Len(bundles) + 1 /\ bundles'[i] = b)
        BY <2>1
    <2>3. \A i \in DOMAIN bundles : bundles[i].name # n
        BY DEF Unresolved
    <2>4. \A i \in DOMAIN bundles' : bundles'[i].name \in DOMAIN Declared
        BY <1>1, <2>2 DEF Bundling
    <2>5. \A i, j \in DOMAIN bundles' : bundles'[i].name = bundles'[j].name => i = j
        BY <1>1, <2>2, <2>3 DEF Bundling
    <2>6. PinnedIsBundled'
        BY <1>1, <2>2 DEF Bundling, PinnedIsBundled
    <2> QED
        BY <2>1, <2>4, <2>5, <2>6 DEF Bundling
<1>4. ASSUME bundles' = bundles PROVE Bundling'
    BY <1>4, BundlingKept
<1> QED
    BY <1>2, <1>3, <1>4

(* A write of one entry of the cache, by this compiler or another.         *)
LEMMA CacheWritten ==
    ASSUME Resolving, NEW n \in DOMAIN Releases, NEW x, NEW y,
           \/ cache' = cache
           \/ cache' = [cache EXCEPT ![n].wasm = {x}]
           \/ cache' = [cache EXCEPT ![n].toml = y]
    PROVE  /\ DOMAIN cache' = DOMAIN Releases
           /\ \A m \in DOMAIN Releases : "wasm" \in DOMAIN cache'[m] /\ \A a, b \in cache'[m].wasm : a = b
<1>1. CASE cache' = cache
    BY <1>1 DEF Resolving
<1>2. CASE cache' = [cache EXCEPT ![n].wasm = {x}]
    BY <1>2 DEF Resolving
<1>3. CASE cache' = [cache EXCEPT ![n].toml = y]
    BY <1>3 DEF Resolving
<1> QED
    BY <1>1, <1>2, <1>3

(* PluginCache::get compares the checksum before the file is used.         *)
LEMMA GetResolving ==
    ASSUME Resolving, NEW n \in DOMAIN Declared, CacheGet(n) PROVE Resolving'
<1>1. /\ pc = "resolve" /\ n \in Unresolved /\ Declared[n].kind = "url"
      /\ UNCHANGED <<pc, parsed, bundles, cache>>
    BY DEF CacheGet
<1>2. n \in DOMAIN Releases
    BY <1>1, CompilerAssumption
<1>3. Unresolved' = Unresolved
    BY <1>1 DEF Unresolved
<1>4. \/ /\ cache[n].wasm # {} /\ Declared[n].pin \subseteq cache[n].wasm
         /\ fetch' = [step |-> "cached", name |-> n, wasm |-> The(cache[n].wasm)]
      \/ fetch' = [step |-> "download", name |-> n]
    BY DEF CacheGet
<1>5. ASSUME cache[n].wasm # {}, Declared[n].pin \subseteq cache[n].wasm,
             fetch' = [step |-> "cached", name |-> n, wasm |-> The(cache[n].wasm)]
      PROVE  Fetching'
    <2>1. The(cache[n].wasm) \in cache[n].wasm
        BY <1>5, Zenon DEF The
    <2>2. Declared[n].pin \subseteq {The(cache[n].wasm)}
        BY <1>2, <1>5, <2>1 DEF Resolving
    <2> QED
        BY <1>1, <1>3, <1>5, <2>2 DEF Fetching
<1>6. ASSUME fetch' = [step |-> "download", name |-> n] PROVE Fetching'
    BY <1>1, <1>3, <1>6 DEF Fetching
<1> QED
    BY <1>1, <1>4, <1>5, <1>6 DEF Resolving

(* The steps of a fetch.                                                   *)
LEMMA FetchResolving ==
    ASSUME Resolving, Bundling, download_plugin \/ FetchToml PROVE Resolving' /\ Bundling' /\ (pc' = pc \/ pc' = "failed")
<1>1. Fetching
    BY FetchIsGoing DEF download_plugin, FetchToml
<1>2. fetch.name \in DOMAIN Releases
    BY <1>1, CompilerAssumption DEF Fetching
<1>3. CASE download_plugin
    <2>1. /\ fetch' = [step |-> "toml", name |-> fetch.name,
                       wasm |-> Releases[fetch.name][upstream[fetch.name]].wasm]
          /\ UNCHANGED <<pc, parsed, bundles, cache>>
        BY <1>3 DEF download_plugin
    <2>2. Fetching'
        BY <1>1, <2>1 DEF Fetching, Unresolved
    <2> QED
        BY <2>1, <2>2, BundlingKept DEF Resolving
<1>4. CASE FetchToml
    <2>1. UNCHANGED <<parsed, bundles>>
        BY <1>4 DEF FetchToml
    <2>2. \/ pc' = "failed" /\ fetch' = NoFetch /\ cache' = cache
          \/ \E toml :
             /\ Declared[fetch.name].pin \subseteq {fetch.wasm}
             /\ fetch' = [step |-> "put", name |-> fetch.name, wasm |-> fetch.wasm, toml |-> toml]
             /\ cache' = cache \/ cache' = [cache EXCEPT ![fetch.name].wasm = {fetch.wasm}]
             /\ pc' = pc
        BY <1>4, Zenon DEF FetchToml
    <2>3. CASE pc' = "failed" /\ fetch' = NoFetch /\ cache' = cache
        BY <2>1, <2>3, BundlingKept DEF Resolving
    <2>4. ASSUME NEW toml, Declared[fetch.name].pin \subseteq {fetch.wasm},
                 fetch' = [step |-> "put", name |-> fetch.name, wasm |-> fetch.wasm, toml |-> toml],
                 cache' = cache \/ cache' = [cache EXCEPT ![fetch.name].wasm = {fetch.wasm}],
                 pc' = pc
          PROVE  Resolving'
        <3>1. Fetching'
            BY <1>1, <2>1, <2>4 DEF Fetching, Unresolved
        <3>2. /\ DOMAIN cache' = DOMAIN Releases
              /\ \A m \in DOMAIN Releases : "wasm" \in DOMAIN cache'[m] /\ \A a, b \in cache'[m].wasm : a = b
            BY <1>2, <2>4, CacheWritten
        <3> QED
            BY <3>1, <3>2 DEF Resolving
    <2> QED
        BY <2>1, <2>2, <2>3, <2>4, BundlingKept
<1> QED
    BY <1>3, <1>4

(* The end of a fetch, and a plugin from a path.                           *)
LEMMA FetchEnds ==
    ASSUME Resolving, Bundling,
           CacheGetToml \/ PutToml \/ DownloadFails \/ \E n \in DOMAIN Declared : ResolvePath(n)
    PROVE  Resolving' /\ Bundling' /\ (pc' = pc \/ pc' = "failed")
<1>1. ASSUME Fetching, NEW toml, AddBundle(fetch.name, fetch.wasm, toml, FALSE),
             fetch.step \in {"cached", "put"}
      PROVE  Bundling' /\ (pc' = pc \/ pc' = "failed")
    BY <1>1, Bundles DEF Fetching
<1>2. CASE CacheGetToml
    <2>1. Fetching /\ fetch.step = "cached" /\ fetch' = NoFetch /\ cache' = cache
        BY <1>2, FetchIsGoing DEF CacheGetToml
    <2>2. AddBundle(fetch.name, fetch.wasm, cache[fetch.name].toml, FALSE)
        BY <1>2 DEF CacheGetToml
    <2> QED
        BY <1>1, <2>1, <2>2 DEF Resolving
<1>3. CASE PutToml
    <2>1. Fetching /\ fetch.step = "put" /\ fetch' = NoFetch
        BY <1>3, FetchIsGoing DEF PutToml
    <2>2. AddBundle(fetch.name, fetch.wasm, fetch.toml, FALSE)
        BY <1>3 DEF PutToml
    <2>3. fetch.name \in DOMAIN Releases
        BY <2>1, CompilerAssumption DEF Fetching
    <2>4. cache' = cache \/ cache' = [cache EXCEPT ![fetch.name].toml = fetch.toml]
        BY <1>3 DEF PutToml
    <2>5. /\ DOMAIN cache' = DOMAIN Releases
          /\ \A m \in DOMAIN Releases : "wasm" \in DOMAIN cache'[m] /\ \A a, b \in cache'[m].wasm : a = b
        BY <2>3, <2>4, CacheWritten
    <2> QED
        BY <1>1, <2>1, <2>2, <2>5 DEF Resolving
<1>4. CASE DownloadFails
    BY <1>4, BundlingKept DEF DownloadFails, Resolving
<1>5. ASSUME NEW n \in DOMAIN Declared, ResolvePath(n) PROVE Resolving' /\ Bundling' /\ (pc' = pc \/ pc' = "failed")
    <2>1. /\ n \in Unresolved /\ Declared[n].kind = "path" /\ fetch = NoFetch /\ UNCHANGED <<cache, fetch>>
          /\ AddBundle(n, Declared[n].release.wasm, Declared[n].release.toml, TRUE)
        BY <1>5 DEF ResolvePath
    <2>2. Bundling' /\ (pc' = pc \/ pc' = "failed")
        BY <2>1, Bundles
    <2> QED
        BY <2>1, <2>2, ResolvingKept
<1> QED
    BY <1>2, <1>3, <1>4, <1>5

(* The world around the compiler: edits, releases and foreign downloads.   *)
LEMMA WorldStep ==
    ASSUME CompilerInv,
           \/ \E f \in Range(Files) : \E d \in Docs[f] : EditSpec(f, d)
           \/ \E n \in DOMAIN Releases : Publish(n) \/ \E r \in DOMAIN Releases[n] : ForeignPut(n, r)
    PROVE  CompilerInv' /\ pc' = pc /\ pc # "sealed"
<1>1. ASSUME NEW f \in Range(Files), NEW d, EditSpec(f, d) PROVE CompilerInv' /\ pc' = pc /\ pc # "sealed"
    <2>1. UNCHANGED <<pc, parsed, bundles, cache, fetch>> /\ pc # "sealed"
        BY <1>1 DEF EditSpec
    <2> QED
        BY <1>1, <2>1, EditReading, ResolvingKept, BundlingKept DEF CompilerInv
<1>2. ASSUME NEW n \in DOMAIN Releases, Publish(n) PROVE CompilerInv' /\ pc' = pc /\ pc # "sealed"
    <2>1. UNCHANGED <<disk, contents, torn, pc, parsed, bundles, cache, fetch>> /\ pc # "sealed"
        BY <1>2 DEF Publish
    <2> QED
        BY <2>1, ReadingKept, ResolvingKept, BundlingKept DEF CompilerInv
<1>3. ASSUME NEW n \in DOMAIN Releases, NEW r, ForeignPut(n, r) PROVE CompilerInv' /\ pc' = pc /\ pc # "sealed"
    <2>1. UNCHANGED <<disk, contents, torn, pc, parsed, bundles, fetch>> /\ pc # "sealed"
        BY <1>3 DEF ForeignPut
    <2>2. \/ cache' = [cache EXCEPT ![n].wasm = {Releases[n][r].wasm}]
          \/ cache' = [cache EXCEPT ![n].toml = Releases[n][r].toml]
        BY <1>3 DEF ForeignPut
    <2>3. /\ DOMAIN cache' = DOMAIN Releases
          /\ \A m \in DOMAIN Releases : "wasm" \in DOMAIN cache'[m] /\ \A a, b \in cache'[m].wasm : a = b
        BY <2>2, CacheWritten DEF CompilerInv
    <2>4. Fetching => Fetching'
        BY <2>1 DEF Fetching, Unresolved
    <2>5. Resolving'
        BY <2>1, <2>3, <2>4 DEF CompilerInv, Resolving
    <2> QED
        BY <2>1, <2>5, ReadingKept, BundlingKept DEF CompilerInv
<1> QED
    BY <1>1, <1>2, <1>3

(* The phases of the compiler other than resolving plugins.                *)
LEMMA PhaseStep ==
    ASSUME CompilerInv, ReadSpec \/ ParseSpec \/ ValidateSpecs \/ Resolved \/ CheckOperation \/ Checked
    PROVE  CompilerInv' /\ pc' # "sealed" /\ pc # "sealed"
<1>1. CASE ReadSpec
    <2>1. pc = "read" /\ pc' = "parse" /\ UNCHANGED <<parsed, bundles, cache, fetch>>
        BY <1>1 DEF ReadSpec
    <2>2. fetch = NoFetch
        BY <2>1, FetchOnlyResolving DEF CompilerInv
    <2> QED
        BY <1>1, <2>1, <2>2, ReadReading, ResolvingKept, BundlingKept DEF CompilerInv
<1>2. CASE ParseSpec
    <2>1. pc = "parse" /\ pc' \in {"failed", "validate", "read"} /\ UNCHANGED <<bundles, cache, fetch>>
        BY <1>2 DEF ParseSpec
    <2>2. fetch = NoFetch
        BY <2>1, FetchOnlyResolving DEF CompilerInv
    <2> QED
        BY <1>2, <2>1, <2>2, ParseReading, ResolvingKept, BundlingKept DEF CompilerInv
<1>3. ASSUME ValidateSpecs \/ Resolved \/ CheckOperation \/ Checked
      PROVE  CompilerInv' /\ pc' # "sealed" /\ pc # "sealed"
    <2>1. /\ pc \in {"validate", "resolve", "check"}
          /\ pc' = pc \/ pc' \in {"failed", "resolve", "check", "seal"}
          /\ pc = "resolve" => fetch = NoFetch
          /\ UNCHANGED <<disk, contents, torn, parsed, bundles, cache, fetch>>
        <3>1. CASE ValidateSpecs
            BY <3>1 DEF ValidateSpecs
        <3>2. CASE Resolved
            BY <3>2 DEF Resolved
        <3>3. CASE CheckOperation
            BY <3>3, Zenon DEF CheckOperation
        <3>4. CASE Checked
            BY <3>4 DEF Checked
        <3> QED
            BY <1>3, <3>1, <3>2, <3>3, <3>4
    <2>2. fetch = NoFetch
        BY <2>1, FetchOnlyResolving DEF CompilerInv
    <2>3. Reading'
        BY <2>1, ReadingKept DEF CompilerInv
    <2> QED
        BY <2>1, <2>2, <2>3, ResolvingKept, BundlingKept DEF CompilerInv
<1> QED
    BY <1>1, <1>2, <1>3

(* Resolving plugins.                                                      *)
LEMMA ResolveStep ==
    ASSUME CompilerInv,
           \/ \E n \in DOMAIN Declared : ResolvePath(n) \/ CacheGet(n)
           \/ CacheGetToml \/ DownloadFails \/ download_plugin \/ FetchToml \/ PutToml
    PROVE  CompilerInv' /\ pc' # "sealed" /\ pc # "sealed"
<1>1. pc = "resolve"
    <2>1. \A n \in DOMAIN Declared : ResolvePath(n) \/ CacheGet(n) => pc = "resolve"
        BY DEF ResolvePath, CacheGet
    <2>2. CacheGetToml \/ DownloadFails \/ download_plugin \/ FetchToml \/ PutToml => Fetching
        BY FetchIsGoing DEF CompilerInv, CacheGetToml, DownloadFails, download_plugin, FetchToml, PutToml
    <2> QED
        BY <2>1, <2>2 DEF Fetching
<1>2. UNCHANGED <<disk, contents, torn, parsed>>
    BY DEF ResolvePath, CacheGet, CacheGetToml, DownloadFails, download_plugin, FetchToml, PutToml
<1>3. Resolving' /\ Bundling' /\ (pc' = pc \/ pc' = "failed")
    <2>1. ASSUME NEW n \in DOMAIN Declared, CacheGet(n)
          PROVE  Resolving' /\ Bundling' /\ (pc' = pc \/ pc' = "failed")
        <3>1. UNCHANGED <<pc, bundles>>
            BY <2>1 DEF CacheGet
        <3> QED
            BY <2>1, <3>1, GetResolving, BundlingKept DEF CompilerInv
    <2> QED
        BY <2>1, FetchResolving, FetchEnds DEF CompilerInv
<1>4. Reading'
    BY <1>2, <1>3, ReadingKept DEF CompilerInv
<1> QED
    BY <1>1, <1>3, <1>4 DEF CompilerInv

(* Every step of the compiler keeps its invariant, and none is taken once  *)
(* the artifact is sealed.                                                 *)
LEMMA CompilerStep ==
    ASSUME CompilerInv, CompilerNext PROVE CompilerInv' /\ pc' # "sealed" /\ pc # "sealed"
    BY WorldStep, PhaseStep, ResolveStep DEF CompilerNext

-----------------------------------------------------------------------------
(* The order of the plugins in the manifest *)

(* Numbers can be counted: for each i there is one with i - 1 below it.    *)
LEMMA Places ==
    ASSUME NEW P \in SUBSET Nat, IsFiniteSet(P)
    PROVE  \A i \in 1 .. Cardinality(P) : \E k \in P : Cardinality({j \in P : j < k}) = i - 1
<1> DEFINE Below(k) == {j \in P : j < k}
           f == [k \in P |-> Cardinality(Below(k)) + 1]
<1>1. Cardinality(P) \in Nat
    BY FS_CardinalityType
<1>2. ASSUME NEW k \in P
      PROVE  IsFiniteSet(Below(k)) /\ Cardinality(Below(k)) \in Nat /\ Cardinality(Below(k)) + 1 <= Cardinality(P)
    <2>1. Below(k) \in SUBSET (P \ {k})
        OBVIOUS
    <2>2. IsFiniteSet(P \ {k}) /\ Cardinality(P \ {k}) = Cardinality(P) - 1
        BY FS_RemoveElement
    <2>3. IsFiniteSet(Below(k)) /\ Cardinality(Below(k)) <= Cardinality(P \ {k})
        BY <2>1, <2>2, FS_Subset
    <2>4. Cardinality(Below(k)) \in Nat
        BY <2>3, FS_CardinalityType
    <2> QED
        BY <1>1, <2>2, <2>3, <2>4
<1>3. ASSUME NEW k \in P, NEW l \in P, k < l PROVE Cardinality(Below(k)) < Cardinality(Below(l))
    <2>10. k \in Nat /\ l \in Nat /\ \A j \in P : j \in Nat
        OBVIOUS
    <2>1. ASSUME NEW j \in Below(k) \cup {k} PROVE j \in Below(l)
        <3>1. j \in P /\ j <= k
            BY <2>10
        <3> QED
            BY <1>3, <2>10, <3>1
    <2>2. k \notin Below(k)
        OBVIOUS
    <2>3. Cardinality(Below(k) \cup {k}) = Cardinality(Below(k)) + 1
        BY <1>2, <2>2, FS_AddElement
    <2>4. Cardinality(Below(k) \cup {k}) <= Cardinality(Below(l))
        <3>1. Below(k) \cup {k} \in SUBSET Below(l)
            BY <2>1, Zenon
        <3> HIDE DEF Below
        <3> QED
            BY <1>2, <3>1, FS_Subset
    <2> QED
        BY <1>2, <2>3, <2>4
<1> HIDE DEF Below
<1>4. f \in [P -> 1 .. Cardinality(P)]
    BY <1>1, <1>2
<1>5. ASSUME NEW k \in P, NEW l \in P, f[k] = f[l] PROVE k = l
    <2>1. Cardinality(Below(k)) = Cardinality(Below(l))
        BY <1>2, <1>5
    <2> QED
        BY <1>2, <1>3, <2>1
<1> HIDE DEF f
<1>6. f \in Injection(P, 1 .. Cardinality(P))
    BY <1>4, <1>5 DEF Injection, IsInjective
<1>7. IsFiniteSet(1 .. Cardinality(P)) /\ Cardinality(1 .. Cardinality(P)) = Cardinality(P)
    BY <1>1, FS_Interval
<1>8. f \in Surjection(P, 1 .. Cardinality(P))
    BY <1>6, <1>7, FS_Injection
<1>9. \A i \in 1 .. Cardinality(P) : \E k \in P : f[k] = i
    BY <1>8 DEF Surjection
<1> QED
    <2> SUFFICES ASSUME NEW i \in 1 .. Cardinality(P) PROVE \E k \in P : Cardinality(Below(k)) = i - 1
        BY DEF Below
    <2>1. PICK k \in P : f[k] = i
        BY <1>9
    <2>2. Cardinality(Below(k)) + 1 = i /\ Cardinality(Below(k)) \in Nat
        BY <1>2, <2>1 DEF f
    <2> QED
        BY <2>2

(* SetToSeq lists a finite set, each element once.                         *)
LEMMA SetListed ==
    ASSUME NEW S, IsFiniteSet(S)
    PROVE  /\ DOMAIN SetToSeq(S) = 1 .. Cardinality(S) /\ Cardinality(S) \in Nat
           /\ \A x \in S : \E i \in DOMAIN SetToSeq(S) : SetToSeq(S)[i] = x
           /\ \A i, j \in DOMAIN SetToSeq(S) : SetToSeq(S)[i] = SetToSeq(S)[j] => i = j
<1>1. Cardinality(S) \in Nat /\ ExistsBijection(1 .. Cardinality(S), S)
    BY FS_CardinalityType
<1>2. PICK g : g \in Bijection(1 .. Cardinality(S), S)
    BY <1>1 DEF ExistsBijection
<1>3. \E f \in [1 .. Cardinality(S) -> S] : IsInjective(f)
    BY <1>2 DEF Bijection, Injection
<1>4. SetToSeq(S) \in [1 .. Cardinality(S) -> S] /\ IsInjective(SetToSeq(S))
    BY <1>3, Zenon DEF SetToSeq
<1>5. SetToSeq(S) \in Injection(1 .. Cardinality(S), S)
    BY <1>4 DEF Injection
<1>6. IsFiniteSet(1 .. Cardinality(S)) /\ Cardinality(1 .. Cardinality(S)) = Cardinality(S)
    BY <1>1, FS_Interval
<1>7. SetToSeq(S) \in Surjection(1 .. Cardinality(S), S)
    BY <1>5, <1>6, FS_Injection
<1> QED
    BY <1>1, <1>4, <1>7 DEF Surjection, IsInjective

EntryOf(b) ==
    [name |-> b.name, version |-> b.version, type |-> b.type, body |-> b.body, fns |-> b.fns, sha |-> b.wasm]

(* The plugins of the manifest are those of the bundles, each once.        *)
LEMMA BundledOnce ==
    ASSUME Bundling
    PROVE  /\ DOMAIN BundledPlugins(bundles) = DOMAIN bundles
           /\ \A i \in DOMAIN bundles : \E k \in DOMAIN bundles : BundledPlugins(bundles)[i] = EntryOf(bundles[k])
           /\ \A i, j \in DOMAIN bundles :
                 BundledPlugins(bundles)[i].name = BundledPlugins(bundles)[j].name => i = j
<1> DEFINE order == SetToSeq(DOMAIN Declared)
           places == {k \in DOMAIN order : order[k] \in {b.name : b \in Range(bundles)}}
           Nth(i) == CHOOSE k \in places : Cardinality({j \in places : j < k}) = i - 1
           At(i) == CHOOSE b \in Range(bundles) : b.name = order[Nth(i)]
<1>1. BundledPlugins(bundles) = [i \in DOMAIN bundles |-> EntryOf(At(i))]
    BY DEF BundledPlugins, EntryOf
<1>2. /\ DOMAIN order = 1 .. Cardinality(DOMAIN Declared) /\ Cardinality(DOMAIN Declared) \in Nat
      /\ \A x \in DOMAIN Declared : \E i \in DOMAIN order : order[i] = x
      /\ \A i, j \in DOMAIN order : order[i] = order[j] => i = j
    BY SetListed, CompilerAssumption
<1> HIDE DEF order
<1>3. Len(bundles) \in Nat /\ DOMAIN bundles = 1 .. Len(bundles)
    BY AppendList DEF Bundling
<1>4. places \in SUBSET Nat /\ IsFiniteSet(places)
    <2>1. places \in SUBSET (1 .. Cardinality(DOMAIN Declared))
        BY <1>2
    <2>2. IsFiniteSet(1 .. Cardinality(DOMAIN Declared))
        BY <1>2, FS_Interval
    <2>3. IsFiniteSet(places)
        BY <2>1, <2>2, FS_Subset
    <2> QED
        BY <2>1, <2>3, <1>2
<1>5. \A i \in DOMAIN bundles : bundles[i].name \in DOMAIN Declared /\ bundles[i] \in Range(bundles)
    BY DEF Bundling, Range
<1>6. Cardinality(places) = Len(bundles)
    <2> DEFINE f == [i \in 1 .. Len(bundles) |-> CHOOSE k \in DOMAIN order : order[k] = bundles[i].name]
    <2>1. ASSUME NEW i \in 1 .. Len(bundles) PROVE f[i] \in places /\ order[f[i]] = bundles[i].name
        <3>1. \E k \in DOMAIN order : order[k] = bundles[i].name
            BY <1>2, <1>3, <1>5
        <3>2. f[i] = CHOOSE k \in DOMAIN order : order[k] = bundles[i].name
            OBVIOUS
        <3>3. f[i] \in DOMAIN order /\ order[f[i]] = bundles[i].name
            BY <3>1, <3>2, Zenon
        <3> QED
            BY <1>3, <1>5, <3>3
    <2>2. f = [i \in 1 .. Len(bundles) |-> f[i]]
        OBVIOUS
    <2> HIDE DEF f
    <2>3. f \in [1 .. Len(bundles) -> places]
        BY <2>1, <2>2
    <2>4. IsInjective(f)
        BY <1>3, <2>1, <2>3 DEF IsInjective, Bundling
    <2>5. ASSUME NEW k \in places PROVE \E i \in 1 .. Len(bundles) : f[i] = k
        <3>1. PICK i \in DOMAIN bundles : order[k] = bundles[i].name
            BY DEF Range
        <3> QED
            BY <1>2, <1>3, <2>1, <3>1
    <2>6. f \in Bijection(1 .. Len(bundles), places)
        BY <2>3, <2>4, <2>5 DEF Bijection, Injection, Surjection
    <2>7. IsFiniteSet(1 .. Len(bundles)) /\ Cardinality(1 .. Len(bundles)) = Len(bundles)
        <3> DEFINE n == Len(bundles)
        <3>1. n \in Nat
            BY <1>3
        <3> HIDE DEF n
        <3>2. IsFiniteSet(1 .. n) /\ Cardinality(1 .. n) = n
            BY <3>1, FS_Interval
        <3> QED
            BY <3>2 DEF n
    <2> QED
        BY <2>6, <2>7, FS_Bijection DEF ExistsBijection
<1>7. ASSUME NEW i \in DOMAIN bundles
      PROVE  Nth(i) \in places /\ Cardinality({j \in places : j < Nth(i)}) = i - 1
    <2>1. \E k \in places : Cardinality({j \in places : j < k}) = i - 1
        <3> HIDE DEF places
        <3> QED
            BY <1>3, <1>4, <1>6, Places
    <2> HIDE DEF places
    <2> QED
        BY <2>1, Zenon
<1>8. ASSUME NEW i \in DOMAIN bundles
      PROVE  At(i) \in Range(bundles) /\ At(i).name = order[Nth(i)]
    <2>1. \E b \in Range(bundles) : b.name = order[Nth(i)]
        BY <1>7, Zenon
    <2> HIDE DEF Nth
    <2> QED
        BY <2>1, Zenon
<1> HIDE DEF At, Nth, places
<1>9. \A i \in DOMAIN bundles : \E k \in DOMAIN bundles : BundledPlugins(bundles)[i] = EntryOf(bundles[k])
    BY <1>1, <1>8 DEF Range
<1>10. ASSUME NEW i \in DOMAIN bundles, NEW j \in DOMAIN bundles,
              BundledPlugins(bundles)[i].name = BundledPlugins(bundles)[j].name
       PROVE  i = j
    <2>1. order[Nth(i)] = order[Nth(j)]
        BY <1>1, <1>8, <1>10 DEF EntryOf
    <2>2. Nth(i) = Nth(j)
        BY <1>2, <1>7, <2>1 DEF places
    <2>3. i - 1 = j - 1
        BY <1>7, <2>2
    <2> QED
        BY <1>3, <2>3
<1>11. DOMAIN BundledPlugins(bundles) = DOMAIN bundles
    BY <1>1
<1> QED
    BY <1>9, <1>10, <1>11

(* The order in which plugins were resolved does not show in the manifest. *)
LEMMA OrderIsHidden ==
    ASSUME NEW bs, NEW cs, DOMAIN bs = DOMAIN cs, Range(bs) = Range(cs), NEW routes
    PROVE  BuildManifest(routes, bs) = BuildManifest(routes, cs)
<1> DEFINE order == SetToSeq(DOMAIN Declared)
           Plc(R) == {k \in DOMAIN order : order[k] \in {b.name : b \in R}}
           Nth(R, i) == CHOOSE k \in Plc(R) : Cardinality({j \in Plc(R) : j < k}) = i - 1
           Of(R, D) == [i \in D |-> EntryOf(CHOOSE b \in R : b.name = order[Nth(R, i)])]
           Sums(R) == [n \in {b.name : b \in R} |-> (CHOOSE b \in R : b.name = n).wasm]
           SumsOf(s) == [n \in {s[i].name : i \in DOMAIN s} |-> (CHOOSE b \in Range(s) : b.name = n).wasm]
<1>1. \A s : BundledPlugins(s) = Of(Range(s), DOMAIN s)
    BY DEF BundledPlugins, EntryOf
<1>2. \A s : {s[i].name : i \in DOMAIN s} = {b.name : b \in Range(s)}
    BY DEF Range
<1>3. \A s : SumsOf(s) = Sums(Range(s))
    BY <1>2, Zenon
<1> HIDE DEF Of, Sums, SumsOf
<1>4. BundledPlugins(bs) = BundledPlugins(cs)
    BY <1>1, Zenon
<1>5. SumsOf(bs) = SumsOf(cs)
    BY <1>3, Zenon
<1> DEFINE m(plugins, sums) ==
               [specs |-> SourceSpecs(contents), mcp |-> ManifestMcp, enforced |-> TRUE,
                checksums |-> [routes |-> routes, plugins |-> sums],
                plugins |-> plugins, hash |-> <<>>, signature |-> {}]
           Manifest(plugins, sums) ==
               sign_manifest_from_env([m(plugins, sums) EXCEPT !.hash = compute_artifact_hash(m(plugins, sums))])
<1>6. \A s : BuildManifest(routes, s) = Manifest(BundledPlugins(s), SumsOf(s))
    BY Zenon DEF BuildManifest, SumsOf
<1> HIDE DEF Manifest
<1> QED
    BY <1>4, <1>5, <1>6, Zenon

-----------------------------------------------------------------------------
(* The archive *)

(* The .bca file as Seal writes it. *)
SealedFrom(routes) ==
    [state |-> "written", manifest |-> BuildManifest(routes, bundles), routes |-> routes,
     specs |-> EmbeddedSpecs,
     plugins |-> [n \in {bundles[i].name : i \in DOMAIN bundles} |->
        (CHOOSE b \in Range(bundles) : b.name = n).wasm]]

ManifestFields == {"specs", "mcp", "enforced", "checksums", "plugins", "hash", "signature"}
EntryFields == {"name", "version", "type", "body", "fns", "sha"}

\* A list of entries.
Listed(ps) ==
    /\ ps = [i \in DOMAIN ps |-> ps[i]]
    /\ \A i \in DOMAIN ps : ps[i] = [f \in EntryFields |-> ps[i][f]]

(* What Seal establishes: the hash is that of the manifest, capabilities   *)
(* are enforced, and each entry has the checksum of its member.            *)
WellSealed(a) ==
    /\ a = [f \in {"state", "manifest", "routes", "specs", "plugins"} |-> a[f]]
    /\ a.manifest = [f \in ManifestFields |-> a.manifest[f]]
    /\ a.manifest.hash = compute_artifact_hash(a.manifest) /\ a.manifest.enforced = TRUE
    /\ a.manifest.checksums.plugins = a.plugins
    /\ Listed(a.manifest.plugins)
    /\ \A i \in DOMAIN a.manifest.plugins :
          /\ a.manifest.plugins[i].name \in DOMAIN a.plugins
          /\ a.manifest.plugins[i].sha = a.plugins[a.manifest.plugins[i].name]
    /\ \A i, j \in DOMAIN a.manifest.plugins :
          a.manifest.plugins[i].name = a.manifest.plugins[j].name => i = j

(* The checksum of each member by its name. *)
Sums(bs) == [n \in {bs[i].name : i \in DOMAIN bs} |-> (CHOOSE b \in Range(bs) : b.name = n).wasm]

(* BuildManifest: the hash is computed before it is stored and signed.     *)
LEMMA ManifestBuilt ==
    ASSUME NEW routes, NEW bs
    PROVE  LET m == BuildManifest(routes, bs)
           IN /\ m = [f \in ManifestFields |-> m[f]]
              /\ m.hash = compute_artifact_hash(m) /\ m.enforced = TRUE /\ m.plugins = BundledPlugins(bs)
              /\ m.checksums.plugins = Sums(bs)
<1> DEFINE sums == Sums(bs)
           m0 == [specs |-> SourceSpecs(contents), mcp |-> ManifestMcp, enforced |-> TRUE,
                  checksums |-> [routes |-> routes, plugins |-> sums],
                  plugins |-> BundledPlugins(bs), hash |-> <<>>, signature |-> {}]
           m1 == [m0 EXCEPT !.hash = compute_artifact_hash(m0)]
           m == BuildManifest(routes, bs)
<1>1. m = sign_manifest_from_env(m1)
    BY Zenon DEF BuildManifest, Sums
<1>2. m = [m1 EXCEPT !.signature = {[key |-> k, over |-> m1.hash] : k \in SigningKey}]
    BY <1>1, Zenon DEF sign_manifest_from_env
<1> HIDE DEF m, sums
<1>3. /\ m = [f \in ManifestFields |-> m[f]] /\ m.enforced = TRUE
      /\ m.plugins = m0.plugins /\ m.specs = m0.specs /\ m.checksums = m0.checksums
      /\ m.enforced = m0.enforced /\ m.mcp = m0.mcp /\ m.hash = compute_artifact_hash(m0)
    BY <1>2 DEF ManifestFields
<1>4. m0.plugins = BundledPlugins(bs) /\ m0.checksums.plugins = sums
    OBVIOUS
<1> HIDE DEF m0
<1>5. compute_artifact_hash(m) = compute_artifact_hash(m0)
    BY <1>3 DEF compute_artifact_hash
<1> QED
    BY <1>3, <1>4, <1>5 DEF m, sums

(* The archive is sound when it is written.                                *)
LEMMA SealIsSound ==
    ASSUME Bundling, NEW routes PROVE WellSealed(SealedFrom(routes))
<1> DEFINE a == SealedFrom(routes)
           M == BuildManifest(routes, bundles)
           sums == Sums(bundles)
<1>1. /\ a = [f \in {"state", "manifest", "routes", "specs", "plugins"} |-> a[f]]
      /\ a.manifest = M /\ a.plugins = sums
    <2> HIDE DEF M, sums
    <2>1. a = [state |-> "written", manifest |-> M, routes |-> routes, specs |-> EmbeddedSpecs, plugins |-> sums]
        BY Zenon DEF SealedFrom, M, sums, Sums
    <2> HIDE DEF a
    <2> QED
        BY <2>1
<1>2. /\ M = [f \in ManifestFields |-> M[f]]
      /\ M.hash = compute_artifact_hash(M) /\ M.enforced = TRUE /\ M.plugins = BundledPlugins(bundles)
      /\ M.checksums.plugins = sums
    BY ManifestBuilt, Zenon
<1>3. ASSUME NEW k \in DOMAIN bundles
      PROVE  bundles[k].name \in DOMAIN sums /\ sums[bundles[k].name] = bundles[k].wasm
    <2>1. bundles[k] \in Range(bundles) /\ bundles[k].name \in DOMAIN sums
        BY DEF Range, Sums
    <2>2. \A b \in Range(bundles) : b.name = bundles[k].name => b = bundles[k]
        BY DEF Range, Bundling
    <2>3. (CHOOSE b \in Range(bundles) : b.name = bundles[k].name) = bundles[k]
        BY <2>1, <2>2, Zenon
    <2>4. sums[bundles[k].name] = (CHOOSE b \in Range(bundles) : b.name = bundles[k].name).wasm
        BY <2>1, Zenon DEF Sums
    <2> QED
        BY <2>1, <2>3, <2>4
<1> HIDE DEF a, M, sums
<1>4. DOMAIN M.plugins = DOMAIN bundles /\ M.plugins = [i \in DOMAIN M.plugins |-> M.plugins[i]]
    BY <1>2, BundledOnce DEF BundledPlugins
<1>5. ASSUME NEW i \in DOMAIN M.plugins
      PROVE  /\ M.plugins[i] = [f \in EntryFields |-> M.plugins[i][f]]
             /\ M.plugins[i].name \in DOMAIN sums /\ M.plugins[i].sha = sums[M.plugins[i].name]
    <2>1. PICK k \in DOMAIN bundles : M.plugins[i] = EntryOf(bundles[k])
        <3>1. \A j \in DOMAIN bundles : \E k \in DOMAIN bundles : M.plugins[j] = EntryOf(bundles[k])
            BY <1>2, BundledOnce, Zenon
        <3> QED
            BY <1>4, <3>1, Zenon
    <2>2. M.plugins[i].name = bundles[k].name /\ M.plugins[i].sha = bundles[k].wasm
        BY <2>1 DEF EntryOf
    <2>3. M.plugins[i] = [f \in EntryFields |-> M.plugins[i][f]]
        BY <2>1 DEF EntryOf, EntryFields
    <2> QED
        BY <1>3, <2>2, <2>3
<1>6. \A i, j \in DOMAIN M.plugins : M.plugins[i].name = M.plugins[j].name => i = j
    BY <1>2, <1>4, BundledOnce
<1>8. Listed(M.plugins)
    BY <1>4, <1>5 DEF Listed
<1>7. WellSealed(a)
    <2>1. a.manifest.checksums.plugins = a.plugins
        BY <1>1, <1>2
    <2>2. \A i \in DOMAIN a.manifest.plugins :
              /\ a.manifest.plugins[i].name \in DOMAIN a.plugins
              /\ a.manifest.plugins[i].sha = a.plugins[a.manifest.plugins[i].name]
        BY <1>1, <1>5, Zenon
    <2>3. \A i, j \in DOMAIN a.manifest.plugins :
              a.manifest.plugins[i].name = a.manifest.plugins[j].name => i = j
        BY <1>1, <1>6, Zenon
    <2>4. /\ a.manifest = [f \in ManifestFields |-> a.manifest[f]]
          /\ a.manifest.hash = compute_artifact_hash(a.manifest) /\ a.manifest.enforced = TRUE
          /\ Listed(a.manifest.plugins)
        BY <1>1, <1>2, <1>8, Zenon
    <2> QED
        BY <1>1, <2>1, <2>2, <2>3, <2>4, Zenon DEF WellSealed
<1> QED
    BY <1>7 DEF a

(* The same manifest, or the same but for one field, with the hash of the  *)
(* sealed one: what the hash covers has not changed.                       *)
LEMMA HashCovers ==
    ASSUME NEW a, WellSealed(a), NEW m, verify_artifact_hash(m), m.hash = a.manifest.hash
    PROVE  /\ m.specs = a.manifest.specs /\ m.checksums = a.manifest.checksums
           /\ m.enforced = a.manifest.enforced /\ m.mcp = a.manifest.mcp
           /\ DOMAIN m.plugins = DOMAIN a.manifest.plugins
           /\ \A i \in DOMAIN m.plugins : \A f \in EntryFields \ {"sha"} :
                 m.plugins[i][f] = a.manifest.plugins[i][f]
<1> DEFINE M == a.manifest
           Covered(x) == [i \in DOMAIN x.plugins |->
               [name |-> x.plugins[i].name, type |-> x.plugins[i].type, version |-> x.plugins[i].version,
                body |-> x.plugins[i].body, fns |-> x.plugins[i].fns]]
<1>1. compute_artifact_hash(m) = compute_artifact_hash(M)
    BY DEF verify_artifact_hash, WellSealed
<1>2. \A x : compute_artifact_hash(x) = [specs |-> x.specs, checksums |-> x.checksums, enforced |-> x.enforced,
                                          mcp |-> x.mcp, plugins |-> Covered(x)]
    BY DEF compute_artifact_hash
<1> HIDE DEF Covered, M
<1>3. /\ m.specs = M.specs /\ m.checksums = M.checksums
      /\ m.enforced = M.enforced /\ m.mcp = M.mcp /\ Covered(m) = Covered(M)
    BY <1>1, <1>2
<1>4. DOMAIN m.plugins = DOMAIN M.plugins
    BY <1>3 DEF Covered
<1>5. ASSUME NEW i \in DOMAIN m.plugins
      PROVE  /\ m.plugins[i].name = M.plugins[i].name /\ m.plugins[i].type = M.plugins[i].type
             /\ m.plugins[i].version = M.plugins[i].version /\ m.plugins[i].body = M.plugins[i].body
             /\ m.plugins[i].fns = M.plugins[i].fns
    <2>1. Covered(m)[i] = Covered(M)[i]
        BY <1>3
    <2> QED
        BY <1>4, <2>1 DEF Covered
<1> QED
    BY <1>3, <1>4, <1>5 DEF EntryFields, M

(* What damage leaves of a manifest that fits its hash: the form, the hash *)
(* and the signature.                                                      *)
Intact(a, b) ==
    /\ b.manifest = [f \in ManifestFields |-> b.manifest[f]]
    /\ b.manifest.hash = a.manifest.hash /\ b.manifest.signature = a.manifest.signature
    /\ Listed(b.manifest.plugins)

(* A field is damaged: the hash itself is not hashed, so a manifest that   *)
(* fits its hash has the sealed one.                                       *)
LEMMA FieldDamage ==
    ASSUME NEW a, WellSealed(a), NEW b, verify_artifact_hash(b.manifest),
           NEW f \in {"enforced", "mcp", "hash", "checksums"}, NEW x,
           b.manifest = [a.manifest EXCEPT ![f] = x]
    PROVE  Intact(a, b)
<1>1. a.manifest = [g \in ManifestFields |-> a.manifest[g]]
    BY DEF WellSealed
<1>2. /\ b.manifest = [g \in ManifestFields |-> b.manifest[g]]
      /\ b.manifest.signature = a.manifest.signature /\ b.manifest.plugins = a.manifest.plugins
    BY <1>1 DEF ManifestFields
<1>3. CASE f = "hash"
    <2>1. compute_artifact_hash(b.manifest) = compute_artifact_hash(a.manifest)
        BY <1>1, <1>3 DEF compute_artifact_hash, ManifestFields
    <2>2. b.manifest.hash = a.manifest.hash
        BY <2>1 DEF WellSealed, verify_artifact_hash
    <2> QED
        BY <1>2, <2>2 DEF WellSealed, Intact
<1>4. CASE f # "hash"
    <2>1. b.manifest.hash = a.manifest.hash
        BY <1>1, <1>4 DEF ManifestFields
    <2> QED
        BY <1>2, <2>1 DEF WellSealed, Intact
<1> QED
    BY <1>3, <1>4

(* A field of a plugin's entry is damaged.                                 *)
LEMMA EntryDamage ==
    ASSUME NEW a, WellSealed(a), NEW b,
           NEW i \in DOMAIN a.manifest.plugins, NEW f \in EntryFields, NEW x,
           b.manifest = [a.manifest EXCEPT !.plugins = [a.manifest.plugins EXCEPT ![i] =
                            [a.manifest.plugins[i] EXCEPT ![f] = x]]]
    PROVE  Intact(a, b)
<1> DEFINE M == a.manifest
           m == b.manifest
           P == [M.plugins EXCEPT ![i] = [M.plugins[i] EXCEPT ![f] = x]]
<1>1. /\ M = [g \in ManifestFields |-> M[g]]
      /\ M.plugins = [j \in DOMAIN M.plugins |-> M.plugins[j]] /\ i \in DOMAIN M.plugins
      /\ \A j \in DOMAIN M.plugins : M.plugins[j] = [g \in EntryFields |-> M.plugins[j][g]]
    BY DEF WellSealed, Listed
<1>2. m = [M EXCEPT !.plugins = P]
    OBVIOUS
<1> HIDE DEF m, M
<1>3. /\ P = [j \in DOMAIN M.plugins |-> P[j]] /\ P[i] = [M.plugins[i] EXCEPT ![f] = x]
      /\ \A j \in DOMAIN M.plugins : j # i => P[j] = M.plugins[j]
    BY <1>1
<1>4. P[i] = [g \in EntryFields |-> P[i][g]]
    BY <1>1, <1>3
<1> HIDE DEF P
<1>5. ASSUME NEW j \in DOMAIN M.plugins PROVE P[j] = [g \in EntryFields |-> P[j][g]]
    <2>1. CASE j = i
        BY <1>4, <2>1
    <2>2. CASE j # i
        BY <1>1, <1>3, <2>2
    <2> QED
        BY <2>1, <2>2
<1>7. DOMAIN P = DOMAIN M.plugins
    BY <1>3
<1>8. Listed(P)
    BY <1>3, <1>5, <1>7 DEF Listed
<1>6. /\ m = [g \in ManifestFields |-> m[g]] /\ m.plugins = P
      /\ m.hash = M.hash /\ m.signature = M.signature
    BY <1>1, <1>2 DEF ManifestFields
<1> QED
    BY <1>6, <1>8 DEF Intact, m, M

(* Of an archive that may have been damaged, a manifest that fits its hash *)
(* is intact.                                                              *)
LEMMA DamageLeaves ==
    ASSUME NEW a, WellSealed(a), NEW b \in {a} \cup Damaged(a), verify_artifact_hash(b.manifest)
    PROVE  Intact(a, b)
<1> DEFINE M == a.manifest
           New(f, x) == [M EXCEPT ![f] = x]
           Entry(i, f, x) == [M EXCEPT !.plugins = [M.plugins EXCEPT ![i] = [M.plugins[i] EXCEPT ![f] = x]]]
<1>1. a = [f \in {"state", "manifest", "routes", "specs", "plugins"} |-> a[f]]
    BY DEF WellSealed
<1>2. CASE b.manifest = M
    BY <1>2 DEF WellSealed, Intact
<1>3. CASE b \in DamagedPlugins(a)
    <2>1. \E x : b = [a EXCEPT !.plugins = x]
        BY <1>3 DEF DamagedPlugins
    <2>2. b.manifest = M
        BY <1>1, <2>1
    <2> QED
        BY <1>2, <2>2
<1>4. CASE b \in DamagedRoutes(a)
    <2>1. b.manifest = M
        BY <1>1, <1>4 DEF DamagedRoutes
    <2> QED
        BY <1>2, <2>1
<1>5. CASE b \in DamagedManifest(a)
    <2> DEFINE With(x) == [a EXCEPT !.manifest = x]
    <2>1. \/ \E x : b \in {With(New("enforced", x)), With(New("mcp", x)), With(New("hash", x)), With(New("checksums", x))}
          \/ \E i \in DOMAIN M.plugins : \E x :
                b \in {With(Entry(i, "fns", x)), With(Entry(i, "body", x)), With(Entry(i, "sha", x))}
        BY <1>5 DEF DamagedManifest
    <2>4. \A x : With(x).manifest = x
        BY <1>1
    <2> HIDE DEF With, New, Entry
    <2>5. \/ \E x : b.manifest \in {New("enforced", x), New("mcp", x), New("hash", x), New("checksums", x)}
          \/ \E i \in DOMAIN M.plugins : \E x :
                b.manifest \in {Entry(i, "fns", x), Entry(i, "body", x), Entry(i, "sha", x)}
        BY <2>1, <2>4
    <2> USE DEF New, Entry
    <2>2. ASSUME NEW x, b.manifest \in {New("enforced", x), New("mcp", x), New("hash", x), New("checksums", x)}
          PROVE  Intact(a, b)
        BY <2>2, FieldDamage
    <2>3. ASSUME NEW i \in DOMAIN M.plugins, NEW x,
                 b.manifest \in {Entry(i, "fns", x), Entry(i, "body", x), Entry(i, "sha", x)}
          PROVE  Intact(a, b)
        BY <2>3, EntryDamage DEF EntryFields
    <2> HIDE DEF New, Entry
    <2> QED
        BY <2>2, <2>3, <2>5
<1>6. ASSUME NEW i \in DOMAIN M.plugins, b \in ReplacedPlugin(a, i) PROVE Intact(a, b)
    <2>1. PICK x : b = [a EXCEPT !.plugins[M.plugins[i].name] = x, !.manifest.plugins[i].sha = x]
        BY <1>6 DEF ReplacedPlugin
    <2>2. b.manifest = Entry(i, "sha", x)
        BY <1>1, <2>1
    <2> QED
        BY <2>2, EntryDamage DEF EntryFields
<1> QED
    BY <1>2, <1>3, <1>4, <1>5, <1>6 DEF Damaged

(* What load_plugins takes from an archive: the members that the manifest  *)
(* names, each with its entry.                                             *)
LEMMA LoadsEntry ==
    ASSUME NEW b, NEW n \in DOMAIN load_plugins(b),
           \A i, j \in DOMAIN b.manifest.plugins :
               b.manifest.plugins[i].name = b.manifest.plugins[j].name => i = j
    PROVE  \E i \in DOMAIN b.manifest.plugins :
               /\ b.manifest.plugins[i].name = n
               /\ load_plugins(b)[n].version = b.manifest.plugins[i].version
               /\ load_plugins(b)[n].body = b.manifest.plugins[i].body
<1> DEFINE P == b.manifest.plugins
           known == {i \in DOMAIN P : P[i].name \in DOMAIN b.plugins}
           names == {P[i].name : i \in known}
           Entry(m) == CHOOSE q \in Range(P) : q.name = m
           Load1(m) == [wasm |-> b.plugins[m], version |-> Entry(m).version, body |-> Entry(m).body]
<1>1. load_plugins(b) = [m \in names |-> Load1(m)]
    BY Zenon DEF load_plugins
<1>2. n \in names /\ load_plugins(b)[n] = Load1(n)
    BY <1>1, Zenon
<1>3. PICK i \in DOMAIN P : P[i].name = n
    BY <1>2
<1>4. P[i] \in Range(P) /\ \A q \in Range(P) : q.name = n => q = P[i]
    BY <1>3 DEF Range
<1>5. Entry(n) = P[i]
    BY <1>3, <1>4, Zenon
<1> HIDE DEF Entry
<1>6. load_plugins(b)[n].version = P[i].version /\ load_plugins(b)[n].body = P[i].body
    BY <1>2, <1>5
<1> QED
    BY <1>3, <1>6

(* What a gateway accepts of such an archive: the manifest but for the     *)
(* checksums in the entries, and members that fit those.                   *)
LEMMA AcceptedIsSealed ==
    ASSUME NEW a, WellSealed(a), NEW b, Intact(a, b), Acceptable(b)
    PROVE  /\ WithoutSha(b.manifest) = WithoutSha(a.manifest)
           /\ \A n \in DOMAIN load_plugins(b) : \E i \in DOMAIN a.manifest.plugins :
                 LET p == a.manifest.plugins[i]
                     module == load_plugins(b)[n]
                 IN /\ p.name = n /\ module.version = p.version /\ module.body = p.body
                    /\ module.wasm.imports \subseteq CoreImports \cup p.fns
                    /\ module.wasm # p.sha => /\ b.manifest.plugins[i].sha = module.wasm
                                              /\ b.manifest.checksums.plugins[n] # module.wasm
<1> DEFINE M == a.manifest
           m == b.manifest
<1>1. verify_artifact_hash(m) /\ m.hash = M.hash
    BY DEF Acceptable, Intact
<1>2. /\ m.specs = M.specs /\ m.checksums = M.checksums /\ m.enforced = M.enforced /\ m.mcp = M.mcp
      /\ DOMAIN m.plugins = DOMAIN M.plugins
      /\ \A i \in DOMAIN m.plugins : \A f \in EntryFields \ {"sha"} : m.plugins[i][f] = M.plugins[i][f]
    BY <1>1, HashCovers
<1>3. /\ M = [f \in ManifestFields |-> M[f]]
      /\ \A i \in DOMAIN M.plugins : M.plugins[i] = [f \in EntryFields |-> M.plugins[i][f]]
    BY DEF WellSealed, Listed
<1>4. /\ m = [f \in ManifestFields |-> m[f]] /\ m.signature = M.signature
      /\ \A i \in DOMAIN m.plugins : m.plugins[i] = [f \in EntryFields |-> m.plugins[i][f]]
    BY DEF Intact, Listed
<1>5. \A i \in DOMAIN m.plugins :
          /\ m.plugins[i].name = M.plugins[i].name /\ m.plugins[i].version = M.plugins[i].version
          /\ m.plugins[i].body = M.plugins[i].body /\ m.plugins[i].fns = M.plugins[i].fns
    BY <1>2 DEF EntryFields
<1>6. WithoutSha(m) = WithoutSha(M)
    <2> HIDE DEF m, M
    <2> DEFINE Bare(x) == [i \in DOMAIN x.plugins |-> [x.plugins[i] EXCEPT !.sha = {}]]
    <2>1. ASSUME NEW i \in DOMAIN m.plugins
          PROVE  [m.plugins[i] EXCEPT !.sha = {}] = [M.plugins[i] EXCEPT !.sha = {}]
        <3>1. m.plugins[i] = [f \in EntryFields |-> m.plugins[i][f]] /\ M.plugins[i] = [f \in EntryFields |-> M.plugins[i][f]]
            BY <1>2, <1>3, <1>4
        <3>2. \A f \in EntryFields \ {"sha"} : m.plugins[i][f] = M.plugins[i][f]
            BY <1>2
        <3> QED
            BY <3>1, <3>2
    <2>2. Bare(m) = Bare(M)
        BY <1>2, <2>1
    <2> HIDE DEF Bare
    <2>3. [m EXCEPT !.plugins = Bare(m)] = [M EXCEPT !.plugins = Bare(M)]
        BY <1>1, <1>2, <1>3, <1>4, <2>2 DEF ManifestFields
    <2> QED
        BY <2>3 DEF WithoutSha, Bare
<1>7. /\ \A i, j \in DOMAIN M.plugins : M.plugins[i].name = M.plugins[j].name => i = j
      /\ \A i \in DOMAIN M.plugins : M.plugins[i].sha = M.checksums.plugins[M.plugins[i].name]
      /\ M.enforced = TRUE
    <2>1. /\ \A i, j \in DOMAIN M.plugins : M.plugins[i].name = M.plugins[j].name => i = j
          /\ \A i \in DOMAIN M.plugins : M.plugins[i].sha = a.plugins[M.plugins[i].name]
          /\ M.checksums.plugins = a.plugins /\ M.enforced = TRUE
        BY DEF WellSealed
    <2> HIDE DEF M
    <2> QED
        BY <2>1
<1>8. \A i, j \in DOMAIN m.plugins : m.plugins[i].name = m.plugins[j].name => i = j
    BY <1>2, <1>5, <1>7
<1>9. ASSUME NEW n \in DOMAIN load_plugins(b)
      PROVE  \E i \in DOMAIN M.plugins :
                 /\ M.plugins[i].name = n /\ load_plugins(b)[n].version = M.plugins[i].version
                 /\ load_plugins(b)[n].body = M.plugins[i].body
                 /\ load_plugins(b)[n].wasm.imports \subseteq CoreImports \cup M.plugins[i].fns
                 /\ load_plugins(b)[n].wasm # M.plugins[i].sha =>
                       /\ m.plugins[i].sha = load_plugins(b)[n].wasm
                       /\ m.checksums.plugins[n] # load_plugins(b)[n].wasm
    <2> DEFINE wasm == load_plugins(b)[n].wasm
    <2>1. PICK i \in DOMAIN m.plugins :
              /\ m.plugins[i].name = n /\ load_plugins(b)[n].version = m.plugins[i].version
              /\ load_plugins(b)[n].body = m.plugins[i].body
        BY <1>8, <1>9, LoadsEntry
    <2>2. verify_plugin_checksum(m, n, wasm) /\ validate_imports(m, n, wasm)
        BY <1>2, <1>7, <1>9 DEF Acceptable
    <2> HIDE DEF m, M, wasm
    <2>3. m.plugins[i].sha = wasm
        BY <1>8, <2>1, <2>2 DEF verify_plugin_checksum
    <2>4. {j \in DOMAIN m.plugins : m.plugins[j].name = n} = {i}
        BY <1>8, <2>1
    <2>5. UNION {m.plugins[j].fns : j \in {k \in DOMAIN m.plugins : m.plugins[k].name = n}} = m.plugins[i].fns
        BY <2>4, Zenon
    <2>6. wasm.imports \subseteq CoreImports \cup m.plugins[i].fns
        BY <2>2, <2>5, Zenon DEF validate_imports
    <2>7. M.plugins[i].sha = m.checksums.plugins[n]
        BY <1>2, <1>5, <1>7, <2>1
    <2> QED
        BY <1>2, <1>5, <2>1, <2>3, <2>6, <2>7 DEF wasm
<1> QED
    BY <1>6, <1>9

-----------------------------------------------------------------------------
(* The whole *)

(* The archive is what was sealed but for one damage, and a gateway that   *)
(* serves has accepted it and serves what was in it.                       *)
Sealing ==
    /\ pc # "sealed" => gw = None
    /\ pc = "sealed" =>
          /\ sealed = SealedFrom(sealed.routes)
          /\ archive \in {sealed} \cup Damaged(sealed)
          /\ Serving => /\ Acceptable(archive) /\ gw.manifest = archive.manifest /\ gw.ops = archive.routes
                        /\ gw.modules = load_plugins(archive) /\ gw.scopes = SecretScopes(archive.routes)

ArtifactInv == CompilerInv /\ Sealing

(* At the start there is no archive.                                       *)
LEMMA ArtifactStarts == Init => ArtifactInv
    BY CompilerStarts DEF Init, ArtifactInv, Sealing, CompilerInit

(* Steps once the artifact is sealed change nothing it was made of.        *)
LEMMA SealKept ==
    ASSUME UNCHANGED <<contents, parsed, bundles>>
    PROVE  \A r : SealedFrom(r)' = SealedFrom(r)
<1>1. ManifestMcp' = ManifestMcp
    BY DEF ManifestMcp
<1>2. EmbeddedSpecs' = EmbeddedSpecs
    BY DEF EmbeddedSpecs
<1>3. \A r : BuildManifest(r, bundles)' = BuildManifest(r, bundles)
    BY <1>1 DEF BuildManifest
<1> QED
    BY <1>2, <1>3 DEF SealedFrom

(* Every step keeps the invariant.                                         *)
LEMMA ArtifactStep == ArtifactInv /\ [Next]_vars => ArtifactInv'
<1> SUFFICES ASSUME ArtifactInv, [Next]_vars PROVE ArtifactInv'
    OBVIOUS
<1>1. CompilerInv /\ Sealing
    BY DEF ArtifactInv
<1>2. ASSUME UNCHANGED compilerVars PROVE CompilerInv'
    <2>1. UNCHANGED <<disk, pc, contents, parsed, torn, cache, fetch, bundles>>
        BY <1>2 DEF compilerVars
    <2> QED
        BY <1>1, <2>1, ReadingKept, ResolvingKept, BundlingKept DEF CompilerInv
<1>3. ASSUME CompilerNext, UNCHANGED <<archive, sealed, gw>> PROVE ArtifactInv'
    <2>1. CompilerInv' /\ pc' # "sealed" /\ pc # "sealed"
        BY <1>1, <1>3, CompilerStep
    <2> QED
        BY <1>1, <1>3, <2>1 DEF ArtifactInv, Sealing
<1>4. CASE Seal
    <2>1. /\ pc = "seal" /\ pc' = "sealed" /\ archive' = sealed'
          /\ UNCHANGED <<disk, contents, parsed, torn, cache, fetch, bundles, gw>>
        BY <1>4 DEF Seal
    <2> DEFINE routes == SortedOperations(ops)
    <2>2. sealed' = SealedFrom(routes)
        BY <1>4, Zenon DEF Seal, SealedFrom
    <2> HIDE DEF routes
    <2>3. sealed'.routes = routes
        BY <2>2 DEF SealedFrom
    <2>4. SealedFrom(sealed.routes)' = SealedFrom(routes)
        BY <2>1, <2>3, SealKept
    <2>5. fetch = NoFetch
        BY <1>1, <2>1, FetchOnlyResolving DEF CompilerInv
    <2>6. CompilerInv'
        BY <1>1, <2>1, <2>5, ReadingKept, ResolvingKept, BundlingKept DEF CompilerInv
    <2>7. gw' = None /\ ~Serving'
        BY <1>1, <2>1 DEF Sealing, Serving, None
    <2> QED
        BY <2>1, <2>2, <2>4, <2>6, <2>7 DEF ArtifactInv, Sealing
<1>5. CASE Damage
    <2>1. /\ pc = "sealed" /\ archive = sealed /\ gw = None /\ UNCHANGED <<compilerVars, sealed, gw>>
          /\ archive' \in Damaged(archive)
        BY <1>5 DEF Damage
    <2>2. UNCHANGED <<pc, contents, parsed, bundles, sealed>>
        BY <2>1 DEF compilerVars
    <2>3. sealed' = SealedFrom(sealed.routes)'
        BY <1>1, <2>1, <2>2, SealKept DEF Sealing
    <2>4. archive' \in {sealed'} \cup Damaged(sealed')
        BY <2>1, Zenon
    <2>5. ~Serving'
        BY <2>1 DEF Serving, None
    <2> QED
        BY <1>2, <2>1, <2>2, <2>3, <2>4, <2>5 DEF ArtifactInv, Sealing
<1>6. CASE Load
    <2>1. pc = "sealed" /\ UNCHANGED <<compilerVars, archive, sealed>>
        BY <1>6 DEF Load
    <2>2. UNCHANGED <<pc, contents, parsed, bundles, sealed>>
        BY <2>1 DEF compilerVars
    <2>3. sealed' = SealedFrom(sealed.routes)'
        BY <1>1, <2>1, <2>2, SealKept DEF Sealing
    <2>4. archive' \in {sealed'} \cup Damaged(sealed')
        BY <1>1, <2>1, Zenon DEF Sealing
    <2>5. CASE ~Acceptable(archive)
        <3>1. ~Serving'
            BY <1>6, <2>5 DEF Load, Refused, Serving
        <3> QED
            BY <1>2, <2>1, <2>2, <2>3, <2>4, <3>1 DEF ArtifactInv, Sealing
    <2>6. CASE Acceptable(archive)
        <3>1. /\ gw'.manifest = archive.manifest /\ gw'.ops = archive.routes
              /\ gw'.modules = load_plugins(archive) /\ gw'.scopes = SecretScopes(archive.routes)
            BY <1>6, <2>6 DEF Load
        <3> QED
            BY <1>2, <2>1, <2>2, <2>3, <2>4, <2>6, <3>1 DEF ArtifactInv, Sealing
    <2> QED
        BY <2>5, <2>6
<1>7. ASSUME UNCHANGED vars PROVE ArtifactInv'
    <2>1. UNCHANGED <<compilerVars, archive, sealed, gw>>
        BY <1>7 DEF vars
    <2>2. UNCHANGED <<pc, contents, parsed, bundles, sealed>>
        BY <2>1 DEF compilerVars
    <2>3. SealedFrom(sealed.routes)' = SealedFrom(sealed.routes)
        BY <2>2, SealKept
    <2> QED
        BY <1>1, <1>2, <2>1, <2>2, <2>3 DEF ArtifactInv, Sealing, Serving
<1> QED
    BY <1>3, <1>4, <1>5, <1>6, <1>7 DEF Next, Terminated

(* The invariant holds in every behaviour of compiler, archive and         *)
(* gateway.                                                                *)
THEOREM ArtifactInvHolds == Spec => []ArtifactInv
<1>1. Init => ArtifactInv
    BY ArtifactStarts
<1>2. ArtifactInv /\ [Next]_vars => ArtifactInv'
    BY ArtifactStep
<1> QED
    BY <1>1, <1>2, PTL DEF Spec

(* What Gateway::load accepts of a damaged archive runs under the          *)
(* manifest, the capabilities and the enforcement that were sealed, and    *)
(* runs the sealed bytes unless they were replaced together with the       *)
(* sha256 of their entry: for any specs, plugins and keys.                 *)
THEOREM OnlySealedIsLoaded == Spec => []LoadedIsSealed
<1>1. ASSUME ArtifactInv PROVE LoadedIsSealed
    <2> SUFFICES ASSUME Serving PROVE LoadedIsSealed
        BY DEF LoadedIsSealed
    <2>1. pc = "sealed"
        BY <1>1 DEF ArtifactInv, Sealing, Serving, None
    <2>2. WellSealed(sealed)
        BY <1>1, <2>1, SealIsSound DEF ArtifactInv, CompilerInv, Sealing
    <2>3. /\ Acceptable(archive) /\ gw.manifest = archive.manifest /\ gw.modules = load_plugins(archive)
          /\ archive \in {sealed} \cup Damaged(sealed)
        BY <1>1, <2>1 DEF ArtifactInv, Sealing
    <2>4. Intact(sealed, archive)
        BY <2>2, <2>3, DamageLeaves DEF Acceptable
    <2> QED
        <3>1. /\ WithoutSha(archive.manifest) = WithoutSha(sealed.manifest)
              /\ \A n \in DOMAIN load_plugins(archive) : \E i \in DOMAIN sealed.manifest.plugins :
                    LET p == sealed.manifest.plugins[i]
                        module == load_plugins(archive)[n]
                    IN /\ p.name = n /\ module.version = p.version /\ module.body = p.body
                       /\ module.wasm.imports \subseteq CoreImports \cup p.fns
                       /\ module.wasm # p.sha => /\ archive.manifest.plugins[i].sha = module.wasm
                                                 /\ archive.manifest.checksums.plugins[n] # module.wasm
            BY <2>2, <2>3, <2>4, AcceptedIsSealed
        <3> QED
            BY <2>3, <3>1 DEF LoadedIsSealed
<1> QED
    BY <1>1, ArtifactInvHolds, PTL

(* The sealed artifact is what was compiled: pinned plugins with the       *)
(* pinned bytes whatever happens to cache and server, a hash that does not *)
(* depend on the order of resolution, and the specs that were parsed.      *)
THEOREM CompiledIsSealed == Spec => []SealedAsCompiled
<1>1. ASSUME ArtifactInv PROVE SealedAsCompiled
    <2>1. PinnedIsBundled
        BY <1>1 DEF ArtifactInv, CompilerInv, Bundling
    <2>2. ASSUME pc = "sealed", NEW p \in Bijection(DOMAIN bundles, DOMAIN bundles)
          PROVE  BuildManifest(sealed.routes, [i \in DOMAIN bundles |-> bundles[p[i]]]).hash = sealed.manifest.hash
        <3> DEFINE bs == [i \in DOMAIN bundles |-> bundles[p[i]]]
        <3>1. p \in [DOMAIN bundles -> DOMAIN bundles] /\ \A j \in DOMAIN bundles : \E i \in DOMAIN bundles : p[i] = j
            BY <2>2 DEF Bijection, Injection, Surjection
        <3>2. Range(bs) = Range(bundles)
            BY <3>1 DEF Range
        <3>3. DOMAIN bs = DOMAIN bundles
            OBVIOUS
        <3> HIDE DEF bs
        <3>4. BuildManifest(sealed.routes, bs) = BuildManifest(sealed.routes, bundles)
            BY <3>2, <3>3, OrderIsHidden
        <3>5. sealed.manifest = BuildManifest(sealed.routes, bundles)
            <4> DEFINE r == sealed.routes
            <4>1. sealed = SealedFrom(r)
                BY <1>1, <2>2 DEF ArtifactInv, Sealing
            <4> HIDE DEF r
            <4>2. sealed.manifest = BuildManifest(r, bundles)
                BY <4>1 DEF SealedFrom
            <4> QED
                BY <4>2 DEF r
        <3> QED
            BY <3>4, <3>5, Zenon DEF bs
    <2>3. ASSUME pc = "sealed", NEW i \in DOMAIN Files, \A j \in DOMAIN Files : j > i => Files[j] # Files[i]
          PROVE  Files[i] \in torn \/ parse_spec(sealed.specs[Files[i]]) = {parsed[i]}
        <3>1. sealed.specs = EmbeddedSpecs
            <4> DEFINE r == sealed.routes
            <4>1. sealed = SealedFrom(r)
                BY <1>1, <2>3 DEF ArtifactInv, Sealing
            <4> HIDE DEF r
            <4> QED
                BY <4>1 DEF SealedFrom
        <3>2. i \in 1 .. Len(parsed)
            BY <1>1, <2>3, CompilerAssumption DEF ArtifactInv, CompilerInv, Reading
        <3> DEFINE same == {k \in DOMAIN Files : Files[k] = Files[i]}
        <3>3. i \in same /\ \A k \in same : k \in Nat /\ k <= i
            BY <2>3, CompilerAssumption
        <3>4. \A k \in same : (\A j \in same : k >= j) => k = i
            BY <3>3
        <3>5. i \in same /\ \A j \in same : i >= j
            BY <3>3
        <3> HIDE DEF same
        <3>6. Max(same) = i
            BY <3>4, <3>5, Zenon DEF Max
        <3>7. EmbeddedSpecs[Files[i]] = contents[i]
            <4>1. Files[i] \in Range(Files)
                BY DEF Range
            <4>2. EmbeddedSpecs[Files[i]] = contents[Max(same)]
                BY <4>1, Zenon DEF EmbeddedSpecs, same
            <4> QED
                BY <3>6, <4>2
        <3> QED
            BY <1>1, <3>1, <3>2, <3>7 DEF ArtifactInv, CompilerInv, Reading
    <2> QED
        BY <2>1, <2>2, <2>3 DEF SealedAsCompiled, HashIgnoresOrder, EmbeddedIsCompiled
<1> QED
    BY <1>1, ArtifactInvHolds, PTL

(* Secrets share one store, but a plugin is handed only those that a       *)
(* configuration of the same reference names (secrets.rs, pool.rs), for    *)
(* any artifact that is loaded.                                            *)
THEOREM SecretsStayApart == Spec => []SecretsAreOwn
<1>1. ASSUME ArtifactInv PROVE SecretsAreOwn
    <2> SUFFICES ASSUME Serving, NEW o \in Range(gw.ops), NEW e \in EntriesOf(o),
                        NEW inst \in get_instance(e), NEW s \in inst.secrets
                 PROVE  \E q \in Range(gw.ops) : \E x \in EntriesOf(q) : x.name = e.name /\ s \in x.config.secrets
        BY Zenon DEF SecretsAreOwn
    <2>1. gw.scopes = SecretScopes(gw.ops)
        BY <1>1 DEF ArtifactInv, Sealing, Serving, None
    <2>2. s \in scoped(e.name)
        <3>1. inst = [wasm |-> gw.modules[e.name.base].wasm, config |-> e.config, secrets |-> scoped(e.name)]
            BY Zenon DEF get_instance
        <3> QED
            BY <3>1
    <2> DEFINE named == UNION {{x.config : x \in {y \in EntriesOf(q) : y.name = e.name}} : q \in Range(gw.ops)}
               names == UNION {{x.name : x \in EntriesOf(q)} : q \in Range(gw.ops)}
    <2>3. e.name \in names
        <3>1. e.name \in {x.name : x \in EntriesOf(o)}
            BY Zenon
        <3> QED
            BY <3>1, Zenon
    <2>4. DOMAIN gw.scopes = names /\ gw.scopes[e.name] = collect_secret_references(named)
        BY <2>1, <2>3, Zenon DEF SecretScopes
    <2>5. s \in collect_secret_references(named)
        BY <2>2, <2>3, <2>4, Zenon DEF scoped
    <2>6. PICK c \in named : s \in c.secrets
        BY <2>5, Zenon DEF collect_secret_references
    <2>7. PICK q \in Range(gw.ops) : c \in {x.config : x \in {y \in EntriesOf(q) : y.name = e.name}}
        BY <2>6, Zenon
    <2>8. PICK x \in EntriesOf(q) : x.name = e.name /\ x.config = c
        BY <2>7, Zenon
    <2> QED
        BY <2>6, <2>8, Zenon
<1> QED
    BY <1>1, ArtifactInvHolds, PTL

=============================================================================
