------------------------------ MODULE Project ------------------------------
(***************************************************************************)
(* Manifests, lockfiles and the resolution of dependencies, as the compiler*)
(* does it (project_resolver.rs) and as the bootstrap builder mxpkg0 does  *)
(* it (tools/mxpkg0).                                                      *)
(*                                                                         *)
(* A manifest is a sequence of lines [t, k, v]: a section header (t = "sec"*)
(* or, for [cc.feature.k], "feature"), a bare dependency name ("bare"), or *)
(* key k with its words v ("kv"); a dependency key has v = <<"path:", dir>>*)
(* for a local one.  The world w the resolvers see has the fields          *)
(*   toml    package directory that exists -> lines of its m2.toml, or     *)
(*           NoFile                                                        *)
(*   lock    lines of the project's m2.lock, or NoFile                     *)
(*   dirs    the directories <<p, s>> (s below package p) that exist       *)
(*   home    dependency name -> its directory under ~/.mx/lib              *)
(*   up      directory -> its parent, for the directories below the root   *)
(*   cfiles  <<package, name>> -> text, for the C files that exist         *)
(* Paths are canonical; the five lists of a [cc] section behave alike      *)
(* except for extra-c, whose files are resolved against the package: flags *)
(* stands for the other four.                                              *)
(***************************************************************************)
EXTENDS Integers, Sequences, FiniteSets, SequencesExt

NoFile == <<[t |-> "no file"]>>
NoManifest == [none |-> TRUE]
NoDir == "no dir"

AppendNew(s, x) == IF x \in Range(s) THEN s ELSE Append(s, x)
AppendAllNew(s, xs) == FoldLeft(AppendNew, s, xs)

NoCc == [flags |-> <<>>, extraC |-> <<>>]

EmptyManifest ==
    [name |-> "", entry |-> "", m2plus |-> FALSE, backend |-> "c", includes |-> <<>>,
     deps |-> <<>>, cc |-> NoCc, featureCc |-> <<>>,
     test |-> [entry |-> "tests/Main.mod", includes |-> <<>>]]

DepEntry(l) ==
    [name |-> l.k, path |-> IF Len(l.v) = 2 /\ l.v[1] = "path:" THEN l.v[2] ELSE NoDir]

----------------------------------------------------------------------------
(* Manifest::parse.  A repeated key replaces the earlier value.            *)

PackageKey(m, l) ==
    CASE l.k = "name"     -> [m EXCEPT !.name = l.v[1]]
      [] l.k = "entry"    -> [m EXCEPT !.entry = l.v[1]]
      [] l.k = "m2plus"   -> [m EXCEPT !.m2plus = (l.v[1] \in {"true", "1"})]
      [] l.k = "backend"  -> [m EXCEPT !.backend = l.v[1]]
      [] l.k = "includes" -> [m EXCEPT !.includes = l.v]
      [] l.k = "edition"  -> [m EXCEPT !.m2plus = @ \/ l.v[1] = "m2plus"]
      [] OTHER            -> m

CcKey(cc, l) ==
    CASE l.k = "cflags"  -> [cc EXCEPT !.flags = l.v]
      [] l.k = "extra-c" -> [cc EXCEPT !.extraC = l.v]
      [] OTHER           -> cc

TestKey(t, l) ==
    CASE l.k = "entry"    -> [t EXCEPT !.entry = l.v[1]]
      [] l.k = "includes" -> [t EXCEPT !.includes = l.v]
      [] OTHER            -> t

\* A feature's section: the list of [feature, cc] has one entry per feature.
FeatureAt(m, f) == SelectInSeq(m.featureCc, LAMBDA e : e.feature = f)

OpenFeature(m, f) ==
    IF FeatureAt(m, f) # 0 THEN m
    ELSE [m EXCEPT !.featureCc = Append(@, [feature |-> f, cc |-> NoCc])]

ParseLine(st, l) ==
    CASE l.t = "feature" -> [sec |-> "cc_feature", feat |-> l.k, m |-> OpenFeature(st.m, l.k)]
      [] l.t = "sec" ->
            [st EXCEPT !.feat = "",
                       !.sec = IF l.k \in {"deps", "cc", "test", "features", "registry"}
                               THEN l.k ELSE "other"]
      [] l.t = "bare" ->
            IF st.sec = "deps"
            THEN [st EXCEPT !.m.deps = Append(@, [name |-> l.k, path |-> NoDir])] ELSE st
      [] l.t = "kv" ->
            CASE st.sec = "package"    -> [st EXCEPT !.m = PackageKey(@, l)]
              [] st.sec = "deps"       -> [st EXCEPT !.m.deps = Append(@, DepEntry(l))]
              [] st.sec = "cc"         -> [st EXCEPT !.m.cc = CcKey(@, l)]
              [] st.sec = "cc_feature" ->
                    [st EXCEPT !.m.featureCc[FeatureAt(st.m, st.feat)].cc = CcKey(@, l)]
              [] st.sec = "test"       -> [st EXCEPT !.m.test = TestKey(@, l)]
              [] OTHER                 -> st

ParseManifest(lines) ==
    LET m == FoldLeft(ParseLine, [sec |-> "package", feat |-> "", m |-> EmptyManifest], lines).m
    IN  IF m.name = "" THEN NoManifest ELSE m

ManifestAt(w, d) == IF w.toml[d] = NoFile THEN NoManifest ELSE ParseManifest(w.toml[d])

\* Manifest::merged_cc: the base section and those of the active features.
MergedCc(m, features) ==
    LET add(cc, f) ==
            IF FeatureAt(m, f) = 0 THEN cc
            ELSE LET g == m.featureCc[FeatureAt(m, f)].cc
                 IN  [flags |-> AppendAllNew(cc.flags, g.flags),
                      extraC |-> AppendAllNew(cc.extraC, g.extraC)]
    IN  FoldLeft(add, m.cc, features)

\* Lockfile::parse: the packages with their paths, when [package] has a name.
ParseLock(lines) ==
    LET step(st, l) ==
            CASE l.t = "sec" -> [st EXCEPT !.sec = l.k]
              [] l.t = "dep" -> [st EXCEPT !.sec = "dep",
                                           !.deps = Append(@, [name |-> l.k, path |-> NoDir])]
              [] l.t = "kv" /\ st.sec = "package" /\ l.k = "name" -> [st EXCEPT !.name = l.v[1]]
              [] l.t = "kv" /\ st.sec = "dep" /\ l.k = "path" ->
                    [st EXCEPT !.deps[Len(st.deps)].path = l.v[1]]
              [] OTHER -> st
        r == FoldLeft(step, [sec |-> "none", name |-> "", deps |-> <<>>], lines)
    IN  IF r.name = "" THEN NoFile ELSE r.deps

\* find_project_root: up from d to the first directory with an m2.toml.
RECURSIVE FindProjectRoot(_, _)
FindProjectRoot(w, d) ==
    IF d \in DOMAIN w.toml /\ w.toml[d] # NoFile THEN d
    ELSE IF d \in DOMAIN w.up THEN FindProjectRoot(w, w.up[d]) ELSE NoDir

----------------------------------------------------------------------------
(* Dependencies of the manifest, when there is no lockfile.                *)

ExistingDirs(w, d, includes) ==
    SelectSeq([i \in DOMAIN includes |-> <<d, includes[i]>>], LAMBDA p : p \in w.dirs)

\* add_dep_includes: the includes of the manifest, or src without one.
AddDepIncludes(w, d, paths) ==
    LET m == ManifestAt(w, d)
    IN  AppendAllNew(paths, ExistingDirs(w, d, IF m = NoManifest THEN <<"src">> ELSE m.includes))

ResolveInstalledDep(w, name) ==
    IF name \in DOMAIN w.home THEN w.home[name] ELSE NoDir

DepRoot(w, dep) ==
    IF dep.path = NoDir THEN ResolveInstalledDep(w, dep.name)
    ELSE IF dep.path \in DOMAIN w.toml THEN dep.path ELSE NoDir

\* Mutant: only the project's own dependencies.
ResolveDirectDeps(w, m, acc) ==
    FoldLeft(LAMBDA a, dep : IF DepRoot(w, dep) = NoDir THEN a
                             ELSE [a EXCEPT !.paths = AddDepIncludes(w, DepRoot(w, dep), @)], acc, m.deps)

\* A visited directory is not entered again: manifests may form a cycle.
RECURSIVE ResolveDepsFromManifest(_, _, _)
ResolveDepsFromManifest(w, m, acc) ==
    LET visit(a, dep) ==
            LET d == DepRoot(w, dep)
            IN  IF d = NoDir \/ d \in a.visited THEN a
                ELSE LET b == [paths |-> AddDepIncludes(w, d, a.paths),
                               visited |-> a.visited \cup {d}]
                     IN  IF ManifestAt(w, d) = NoManifest THEN b
                         ELSE ResolveDepsFromManifest(w, ManifestAt(w, d), b)
    IN  FoldLeft(visit, acc, m.deps)

AddCc(acc, d, cc) ==
    [acc EXCEPT !.flags = AppendAllNew(@, cc.flags),
                !.extraC = AppendAllNew(@, [i \in DOMAIN cc.extraC |-> <<d, cc.extraC[i]>>])]

RECURSIVE CollectDepCc(_, _, _, _)
CollectDepCc(w, m, features, acc) ==
    LET visit(a, dep) ==
            LET d == DepRoot(w, dep)
                dm == ManifestAt(w, d)
            IN  IF d = NoDir \/ d \in a.visited THEN a
                ELSE IF dm = NoManifest THEN [a EXCEPT !.visited = @ \cup {d}]
                ELSE CollectDepCc(w, dm, features,
                         [AddCc(a, d, MergedCc(dm, features)) EXCEPT !.visited = @ \cup {d}])
    IN  FoldLeft(visit, acc, m.deps)

----------------------------------------------------------------------------
(* With a lockfile its packages are taken as they are listed.              *)

LockedDirs(lock) ==
    LET located == SelectSeq(lock, LAMBDA d : d.path # NoDir)
    IN  [i \in DOMAIN located |-> located[i].path]

HasManifest(w, d) == d \in DOMAIN w.toml /\ ManifestAt(w, d) # NoManifest

CollectTransitiveCc(w, m, lock, features) ==
    IF lock # NoFile
    THEN FoldLeft(LAMBDA a, d : AddCc(a, d, MergedCc(ManifestAt(w, d), features)), NoCc,
                  SelectSeq(LockedDirs(lock), LAMBDA d : HasManifest(w, d)))
    ELSE LET r == CollectDepCc(w, m, features, [flags |-> <<>>, extraC |-> <<>>, visited |-> {}])
         IN  [flags |-> r.flags, extraC |-> r.extraC]

ResolveIncludePaths(w, root, m, lock, cli) ==
    LET own == ExistingDirs(w, root, m.includes)
        deps == IF lock # NoFile
                THEN FoldLeft(LAMBDA ps, d : AddDepIncludes(w, d, ps), own,
                              SelectSeq(LockedDirs(lock), LAMBDA d : d \in DOMAIN w.toml))
                ELSE ResolveDepsFromManifest(w, m, [paths |-> own, visited |-> {}]).paths
    IN  AppendAllNew(deps, cli)

\* ProjectContext::load
LoadContext(w, root, cli) ==
    LET m == ManifestAt(w, root)
        lock == IF w.lock = NoFile THEN NoFile ELSE ParseLock(w.lock)
    IN  IF m = NoManifest THEN NoManifest
        ELSE [root |-> root, manifest |-> m, lock |-> lock,
              includes |-> ResolveIncludePaths(w, root, m, lock, cli)]

----------------------------------------------------------------------------
(* mxpkg0: its own parser and resolver, which follow local dependencies    *)
(* only and tell dependencies apart by name.                               *)

Platform == "LINUX"

\* A repeated key adds to the list; bare names and unknown sections count
\* for nothing, sections of inactive features neither.
ParseLine0(st, l) ==
    CASE l.t = "sec"     -> [st EXCEPT !.sec = l.k]
      [] l.t = "feature" -> [st EXCEPT !.sec = IF l.k = Platform THEN "cc" ELSE "other"]
      [] l.t = "bare"    -> st
      [] l.t = "kv" ->
            CASE st.sec = "" /\ l.k = "entry"    -> [st EXCEPT !.m.entry = l.v[1]]
              [] st.sec = "" /\ l.k = "includes" -> [st EXCEPT !.m.includes = @ \o l.v]
              [] st.sec = "" /\ l.k = "m2plus"   -> [st EXCEPT !.m.m2plus = @ \/ l.v[1] \in {"true", "1"}]
              [] st.sec = "" /\ l.k = "edition"  -> [st EXCEPT !.m.m2plus = @ \/ l.v[1] = "m2plus"]
              [] st.sec = "" /\ l.k = "extra-c"  -> [st EXCEPT !.m.ownC = Append(@, l.v)]
              [] st.sec = "deps"                 -> [st EXCEPT !.m.deps = Append(@, DepEntry(l))]
              [] st.sec = "cc" /\ l.k = "extra-c" -> [st EXCEPT !.m.cc.extraC = Append(@, l.v)]
              [] st.sec = "cc" /\ l.k = "cflags"  -> [st EXCEPT !.m.cc.flags = @ \o l.v]
              [] OTHER -> st

ParseManifest0(lines) ==
    FoldLeft(ParseLine0,
             [sec |-> "", m |-> [entry |-> "src/Main.mod", m2plus |-> FALSE, includes |-> <<>>,
                                 deps |-> <<>>, cc |-> NoCc, ownC |-> <<>>]], lines).m

\* An extra-c value is one path, blanks included: only one word can exist.
CFile(w, d, v) == Len(v) = 1 /\ <<d, v[1]>> \in DOMAIN w.cfiles

ExtraC0(w, d, values) ==
    LET found == SelectSeq(values, LAMBDA v : CFile(w, d, v))
    IN  [i \in DOMAIN found |-> <<d, found[i][1]>>]

DepDirs0(w, d) ==
    ExistingDirs(w, d, IF w.toml[d] = NoFile THEN <<"src">> ELSE ParseManifest0(w.toml[d]).includes)

RECURSIVE ResolveDeps0(_, _, _)
ResolveDeps0(w, m, acc) ==
    LET visit(a, dep) ==
            IF dep.name \in a.visited THEN a
            ELSE LET b == [a EXCEPT !.visited = @ \cup {dep.name}]
                     d == dep.path
                 IN  IF d = NoDir \/ d \notin DOMAIN w.toml THEN b
                     ELSE IF w.toml[d] = NoFile
                     THEN [b EXCEPT !.paths = AppendAllNew(@, DepDirs0(w, d))]
                     ELSE ResolveDeps0(w, ParseManifest0(w.toml[d]),
                             [b EXCEPT !.paths = AppendAllNew(@, DepDirs0(w, d)),
                                       !.extraC = AppendAllNew(@, ExtraC0(w, d, ParseManifest0(w.toml[d]).cc.extraC))])
    IN  FoldLeft(visit, acc, m.deps)

\* The command line of build_mxpkg: the package's includes first, then those
\* of its dependencies.  A file of the package that is missing is an error.
BuildMxpkg(w, root) ==
    LET m == ParseManifest0(w.toml[root])
        r == ResolveDeps0(w, m, [paths |-> <<>>, extraC |-> <<>>, visited |-> {}])
    IN  [ok |-> \A v \in Range(m.ownC) : CFile(w, root, v),
         m2plus |-> m.m2plus, entry |-> m.entry, cflags |-> m.cc.flags,
         includes |-> [i \in DOMAIN m.includes |-> <<root, m.includes[i]>>] \o r.paths,
         extraC |-> AppendAllNew(ExtraC0(w, root, m.ownC), r.extraC)]
=============================================================================
