------------------------------- MODULE Build -------------------------------
(***************************************************************************)
(* The mx command: build, run, test, clean and init (main.rs, build.rs),   *)
(* direct compilation and build plans (driver.rs), as processes that share *)
(* a project directory with each other and with its author's editor.       *)
(*                                                                         *)
(* world is the input side of the file system (modules Project and         *)
(* Driver), mtime the modification times; out is what builds leave: the    *)
(* programs, .mx/build_state.json and the intermediate files.  A program   *)
(* is recorded as the texts and options it was made from.  raced is a      *)
(* history: the programs that a command worked on while another command    *)
(* compiled the same entry, and wrote the same intermediate files.         *)
(***************************************************************************)
EXTENDS Driver

CONSTANTS Procs,        \* concurrent invocations of mx
          Commands,     \* [Procs -> set of command lines]
          Root,         \* the project directory
          Worlds,       \* file systems before the first command
          Texts,        \* [source paths -> texts the author may give a file]
          CTexts,       \* texts the author may give a C file
          Manifests,    \* manifests the author may write
          PathOrder,    \* the stampable paths, sorted
          MapOrders,    \* iteration orders of the driver's hash map
          MaxEdits,     \* bound: files the author writes
          MaxCommands,  \* bound: commands
          MaxCrashes    \* bound: commands killed

VARIABLES world, mtime, out, proc, budget, raced

vars == <<world, mtime, out, proc, budget, raced>>

None == [none |-> TRUE]
Bad == [bad |-> TRUE]

----------------------------------------------------------------------------
(* Command lines: a sequence of words.                                     *)

TakesValue == {"--cc", "--feature", "--target"}
Switches == {"-v", "--release", "-g", "--debug", "--llvm", "--sanitize"}

Switch(o, s) ==
    CASE s = "--release" -> [o EXCEPT !.release = TRUE]
      [] s \in {"-g", "--debug"} -> [o EXCEPT !.debug = TRUE]
      [] s = "--llvm"    -> [o EXCEPT !.useLlvm = TRUE, !.emitLlvm = TRUE]
      [] s = "--sanitize" -> [o EXCEPT !.sanitize = TRUE]
      [] OTHER           -> o

SetValue(o, s, v) ==
    CASE s = "--cc"      -> [o EXCEPT !.cc = v]
      [] s = "--target"  -> [o EXCEPT !.target = v]
      [] s = "--feature" -> [o EXCEPT !.features = Append(@, v)]

\* The flags of a subcommand; what follows -- goes to the program.
RECURSIVE ParseFlags(_, _)
ParseFlags(args, o) ==
    IF args = <<>> \/ Head(args) = "--" THEN o
    ELSE IF Head(args) \in Switches THEN ParseFlags(Tail(args), Switch(o, Head(args)))
    ELSE IF Head(args) \in TakesValue /\ Len(args) > 1
    THEN ParseFlags(Tail(Tail(args)), SetValue(o, Head(args), args[2]))
    ELSE Bad

CompileSwitch(o, s) ==
    CASE s = "-c"          -> [o EXCEPT !.compileOnly = TRUE]
      [] s = "--emit-c"    -> [o EXCEPT !.emitC = TRUE]
      [] s = "--emit-llvm" -> [o EXCEPT !.emitLlvm = TRUE]
      [] s = "--cfg"       -> [o EXCEPT !.emitCfg = TRUE]
      [] s = "--emit-per-module" -> [o EXCEPT !.perModule = TRUE, !.emitC = TRUE]
      [] s = "-O2"         -> [o EXCEPT !.release = TRUE]
      [] OTHER             -> Switch(o, s)

CompileSwitches ==
    {"-c", "--emit-c", "--emit-llvm", "--cfg", "--emit-per-module", "-O2"} \cup (Switches \ {"--release"})

\* mx [options] file: the last word that is no option is the input.
RECURSIVE ParseCompile(_, _)
ParseCompile(args, r) ==
    IF args = <<>> THEN (IF r.input = NoFile THEN Bad ELSE r)
    ELSE IF Head(args) \in CompileSwitches
    THEN ParseCompile(Tail(args), [r EXCEPT !.opts = CompileSwitch(@, Head(args))])
    ELSE IF Head(args) \in {"-o", "-I"} \cup TakesValue
    THEN IF Len(args) = 1 THEN Bad
         ELSE ParseCompile(Tail(Tail(args)),
                           IF Head(args) \notin TakesValue THEN r
                           ELSE [r EXCEPT !.opts = SetValue(@, Head(args), args[2])])
    ELSE IF Head(args) = "src/Main.mod"
    THEN ParseCompile(Tail(args), [r EXCEPT !.input = <<<<Root, "src">>, "Main", "mod">>])
    ELSE Bad

Subcommands == {"build", "run", "test", "clean", "init"}

----------------------------------------------------------------------------
(* Stamps.                                                                 *)

Toml == <<Root, "m2.toml">>
LockPath == <<Root, "m2.lock">>
Exe == <<"mx", "exe">>

TextId(p) ==
    IF p \in DOMAIN world.src THEN <<[id |-> world.src[p].id]>>
    ELSE IF p = Toml THEN world.toml[Root]
    ELSE IF p = LockPath THEN world.lock ELSE <<[id |-> "mx"]>>

Exists(p) ==
    \/ p \in DOMAIN world.src \/ p = Exe
    \/ p = Toml /\ world.toml[Root] # NoFile
    \/ p = LockPath /\ world.lock # NoFile

FileStamp(p) == [hash |-> TextId(p), mtime |-> mtime[p]]

\* The entry, the sources below the include paths, the manifest, the
\* lockfile and the compiler.
CollectSourceFiles(entry, includes) ==
    {p \in {entry, Toml, LockPath, Exe}
            \cup {q \in DOMAIN world.src : q[1] \in Range(includes)} : Exists(p)}

Stamps(entry, includes) == [p \in CollectSourceFiles(entry, includes) |-> FileStamp(p)]

\* The combined hash runs over the stamps in the order of their paths; the
\* paths themselves are not part of it.
CombinedHash(stamps) ==
    LET paths == SelectSeq(PathOrder, LAMBDA p : p \in DOMAIN stamps)
    IN  [i \in DOMAIN paths |-> stamps[paths[i]]]

NoState == <<"no state">>
Torn == <<"torn">>

\* A state file that is missing or does not parse is an empty state.
LoadState(st) == IF st = Torn THEN NoState ELSE st

----------------------------------------------------------------------------
(* A command.                                                              *)

Idle == [pc |-> "idle"]

EntryOf(m, isTest) ==
    LET e == IF isTest THEN m.test.entry ELSE IF m.entry = "" THEN "src/Main.mod" ELSE m.entry
    IN  IF e = "tests/Main.mod" THEN <<<<Root, "tests">>, "Main", "mod">>
        ELSE <<<<Root, "src">>, "Main", "mod">>

TestIncludes(ctx) ==
    AppendAllNew(ctx.includes, ExistingDirs(world, Root, ctx.manifest.test.includes))

\* The options of build_project: the manifest's backend and the platform, the
\* target's when one is named.
BuildOptions(o, m) ==
    LET llvm == o.useLlvm \/ m.backend = "llvm"
        features == AppendNew(o.features, IF o.target = "darwin" THEN "MACOS" ELSE Platform)
    IN  [o EXCEPT !.useLlvm = llvm, !.emitLlvm = llvm, !.features = features]

BuildConfig(ctx, o, isTest, run) ==
    [pc |-> "stamp", run |-> run, opts |-> BuildOptions(o, ctx.manifest),
     artifact |-> IF isTest THEN "app_test" ELSE "app", entry |-> EntryOf(ctx.manifest, isTest),
     includes |-> IF isTest THEN TestIncludes(ctx) ELSE ctx.includes,
     manifest |-> ctx.manifest, lock |-> ctx.lock, stamps |-> NoState, seen |-> {},
     effects |-> <<>>, code |-> {}, log |-> <<>>, jobs |-> <<>>, upToDate |-> FALSE]

\* Direct compilation: no stamps, and the output beside the input.
CompileConfig(r) ==
    [pc |-> "compile", run |-> FALSE, opts |-> r.opts, artifact |-> "direct", entry |-> r.input,
     includes |-> <<>>, manifest |-> EmptyManifest, lock |-> NoFile, stamps |-> NoState,
     seen |-> {}, effects |-> <<>>, code |-> {}, log |-> <<>>, jobs |-> <<>>, upToDate |-> FALSE]

CleanProject == [out EXCEPT !.exe = [a \in DOMAIN @ |-> IF a = "direct" THEN @[a] ELSE None],
                            !.state = NoState]

Spend(what) == budget' = [budget EXCEPT ![what] = @ - 1]

\* Bounds: commands, and none begins once two have collided on a program, of
\* which nothing is claimed from then on.
Command(p, args) ==
    /\ proc[p] = Idle /\ budget.commands > 0 /\ raced = {}
    /\ args \in Commands[p]
    /\ Spend("commands")

\* init: refused when there is a manifest.
InitToml ==
    <<[t |-> "kv", k |-> "name", v |-> <<"app">>], [t |-> "kv", k |-> "entry", v |-> <<"src/Main.mod">>],
      [t |-> "kv", k |-> "m2plus", v |-> <<"true">>], [t |-> "kv", k |-> "includes", v |-> <<"src">>],
      [t |-> "sec", k |-> "deps", v |-> <<>>], [t |-> "sec", k |-> "cc", v |-> <<>>],
      [t |-> "sec", k |-> "test", v |-> <<>>], [t |-> "kv", k |-> "entry", v |-> <<"tests/Main.mod">>],
      [t |-> "kv", k |-> "includes", v |-> <<"tests">>]>>

Skeleton == {<<<<Root, "src">>, "Main", "mod">>, <<<<Root, "tests">>, "Main", "mod">>}
InitText == [id |-> "init", kind |-> "program", ok |-> TRUE, foreign |-> FALSE, imports |-> <<>>]

RunInit(p, args) ==
    /\ Command(p, args) /\ args[1] = "init"
    /\ world' = IF world.toml[Root] # NoFile THEN world
                ELSE [world EXCEPT !.toml[Root] = InitToml,
                                   !.dirs = @ \cup {<<Root, "src">>, <<Root, "tests">>},
                                   !.src = [q \in Skeleton |-> InitText] @@ @]
    /\ mtime' = IF world.toml[Root] # NoFile THEN mtime
                ELSE [q \in DOMAIN mtime |-> IF q \in Skeleton \cup {Toml} THEN budget.clock ELSE mtime[q]]
    /\ UNCHANGED <<out, proc>>

RunClean(p, args) ==
    /\ Command(p, args) /\ args[1] = "clean"
    /\ out' = IF FindProjectRoot(world, Root) = NoDir THEN out ELSE CleanProject
    /\ UNCHANGED <<world, mtime, proc>>

\* build, run and test: flags, then the project.  Errors end the command.
RunSubcommand(p, args) ==
    LET o == ParseFlags(Tail(args), DefaultOptions)
        ctx == LoadContext(world, FindProjectRoot(world, Root), <<>>)
        config == BuildConfig(ctx, o, args[1] = "test", args[1] # "build")
    IN  /\ Command(p, args) /\ args[1] \in {"build", "run", "test"}
        /\ proc' = IF o = Bad \/ FindProjectRoot(world, Root) = NoDir \/ ctx = NoManifest THEN proc
                   ELSE IF ~Exists(config.entry) THEN proc
                   ELSE [proc EXCEPT ![p] = config]
        /\ UNCHANGED <<world, mtime, out>>

RunCompile(p, args) ==
    LET r == ParseCompile(args, [input |-> NoFile, opts |-> DefaultOptions])
    IN  /\ Command(p, args) /\ args[1] \notin Subcommands \cup {"compile"}
        /\ proc' = IF r = Bad \/ ~Exists(r.input) THEN proc ELSE [proc EXCEPT ![p] = CompileConfig(r)]
        /\ UNCHANGED <<world, mtime, out>>

\* compile --plan: one compilation per step [entry, emitC, compileOnly], up to
\* the first that fails.
PlanStep(step) ==
    [input |-> step.entry,
     opts |-> [DefaultOptions EXCEPT !.emitC = step.emitC, !.compileOnly = step.compileOnly]]

StepConfig(steps) ==
    IF steps = <<>> \/ ~Exists(Head(steps).entry) THEN Idle
    ELSE [CompileConfig(PlanStep(Head(steps))) EXCEPT !.jobs = Tail(steps)]

CompilePlan(p, args) ==
    /\ Command(p, args) /\ args[1] = "compile"
    /\ proc' = [proc EXCEPT ![p] = StepConfig(SubSeq(args, 3, Len(args)))]
    /\ UNCHANGED <<world, mtime, out>>

----------------------------------------------------------------------------
(* The steps of build_project and compile.                                 *)

SourceTexts(w) ==
    {<<q, w.src[q].id>> : q \in DOMAIN w.src} \cup {<<c, w.cfiles[c]>> : c \in DOMAIN w.cfiles}

Goto(p, pc) == proc' = [proc EXCEPT ![p].pc = pc]

Stamp(p) ==
    /\ proc[p].pc = "stamp"
    /\ proc' = [proc EXCEPT ![p].pc = "check", ![p].seen = SourceTexts(world),
                            ![p].stamps = CombinedHash(Stamps(proc[p].entry, proc[p].includes))]
    /\ UNCHANGED <<world, mtime, out, budget>>


UpToDate(hash) == LoadState(out.state) = hash

Check(p) ==
    /\ proc[p].pc = "check"
    /\ IF UpToDate(proc[p].stamps) /\ out.exe[proc[p].artifact] # None
       THEN proc' = [proc EXCEPT ![p].pc = "run", ![p].upToDate = TRUE]
       ELSE Goto(p, "compile")
    /\ UNCHANGED <<world, mtime, out, budget>>

\* The [cc] files of the project and of its dependencies.
ExtraCFiles(q) ==
    LET m == q.manifest
        cc == MergedCc(m, q.opts.features)
        own == [i \in DOMAIN cc.extraC |-> <<Root, cc.extraC[i]>>]
    IN  AppendAllNew(own, CollectTransitiveCc(world, m, q.lock, q.opts.features).extraC)

\* The front end reads every source; an error ends the command.
Compile(p) ==
    /\ proc[p].pc = "compile"
    /\ \E order \in MapOrders :
          LET c == FrontEnd(world, proc[p].entry, proc[p].includes, order)
          IN  proc' = IF c.ok
                      THEN [proc EXCEPT ![p].pc = "emit", ![p].effects = Effects(proc[p].opts),
                                        ![p].log = c.log,
                                        ![p].code = {<<q, world.src[q].id>> : q \in c.reads}]
                      ELSE [proc EXCEPT ![p] = Idle]
    /\ UNCHANGED <<world, mtime, out, budget>>

Temp(p, x) == <<proc[p].entry[1], x>>

\* What the C compiler finds in the file x.
Content(p, x) ==
    IF x = "extra" THEN {<<q, world.cfiles[q]>> : q \in Range(ExtraCFiles(proc[p]))}
    ELSE out.temp[Temp(p, x)].texts

Inputs(p, e) == {x \in e.in : x # "extra"}

Ready(p, e) ==
    /\ \A x \in Inputs(p, e) : out.temp[Temp(p, x)] # None
    /\ "extra" \in e.in => Range(ExtraCFiles(proc[p])) \subseteq DOMAIN world.cfiles

Made(p, e) == [texts |-> UNION {Content(p, x) : x \in e.in}, opts |-> proc[p].opts]

Produce(p, e) ==
    IF e.out = "exe" THEN [out EXCEPT !.exe[proc[p].artifact] = Made(p, e)]
    ELSE [out EXCEPT !.temp[Temp(p, e.out)] = Made(p, e)]

AfterCc(p, ok) == IF ok THEN [proc EXCEPT ![p].effects = Tail(@)] ELSE [proc EXCEPT ![p] = Idle]

\* One effect of the backend.  The C compiler fails on a missing file, and
\* may fail on its own account; the intermediate files then stay.
Effect(p) ==
    /\ proc[p].pc = "emit" /\ proc[p].effects # <<>>
    /\ LET e == Head(proc[p].effects)
       IN  \/ /\ e.op = "write"
              /\ out' = LET code == [texts |-> proc[p].code, opts |-> proc[p].opts]
                        IN  IF e.out = "exe" THEN [out EXCEPT !.exe[proc[p].artifact] = code]
                            ELSE [out EXCEPT !.temp[Temp(p, e.out)] = code]
              /\ proc' = AfterCc(p, TRUE)
           \/ /\ e.op = "remove"
              /\ out' = [out EXCEPT !.temp[Temp(p, e.out)] = None]
              /\ proc' = AfterCc(p, TRUE)
           \/ /\ e.op = "cc" /\ Ready(p, e)
              /\ out' = Produce(p, e)
              /\ proc' = AfterCc(p, TRUE)
           \/ /\ e.op = "cc"
              /\ out' = out
              /\ proc' = AfterCc(p, FALSE)
    /\ UNCHANGED <<world, mtime, budget>>

\* The state is written after the program; a direct compilation has none.
Save(p) ==
    /\ proc[p].pc = "emit" /\ proc[p].effects = <<>> /\ proc[p].stamps # NoState
    /\ out' = [out EXCEPT !.state = proc[p].stamps]
    /\ Goto(p, "run")
    /\ UNCHANGED <<world, mtime, budget>>

NextJob(p) ==
    /\ proc[p].pc = "emit" /\ proc[p].effects = <<>> /\ proc[p].stamps = NoState
    /\ proc' = [proc EXCEPT ![p] = StepConfig(proc[p].jobs)]
    /\ UNCHANGED <<world, mtime, out, budget>>

\* run_artifact, or the end of a build.
Finish(p) ==
    /\ proc[p].pc = "run"
    /\ proc' = [proc EXCEPT ![p] = Idle]
    /\ UNCHANGED <<world, mtime, out, budget>>

\* The command is killed; while it saves, the state file may be torn.
Crash(p) ==
    /\ proc[p] # Idle /\ budget.crashes > 0
    /\ proc' = [proc EXCEPT ![p] = Idle]
    /\ out' \in {out} \cup (IF proc[p].pc = "emit" /\ proc[p].effects = <<>>
                               /\ proc[p].stamps # NoState
                            THEN {[out EXCEPT !.state = Torn]} ELSE {})
    /\ Spend("crashes")
    /\ UNCHANGED <<world, mtime>>

----------------------------------------------------------------------------
(* The author.  Two writes are more than a second apart.                   *)

Edited(w) ==
    /\ budget.edits > 0
    /\ world' = w
    /\ budget' = [budget EXCEPT !.edits = @ - 1, !.clock = @ + 1]
    /\ proc' = [p \in Procs |->
                  IF proc[p] = Idle THEN Idle
                  ELSE [proc[p] EXCEPT !.seen = IF @ = {} THEN @ ELSE @ \cup SourceTexts(w)]]
    /\ UNCHANGED out

EditSource ==
    \E q \in DOMAIN Texts \cap DOMAIN world.src : \E t \in Texts[q] \ {world.src[q]} :
        /\ Edited([world EXCEPT !.src[q] = t])
        /\ mtime' = [mtime EXCEPT ![q] = budget.clock]

\* A C file is stamped by nobody.
EditC ==
    \E c \in DOMAIN world.cfiles : \E t \in CTexts \ {world.cfiles[c]} :
        /\ Edited([world EXCEPT !.cfiles[c] = t])
        /\ UNCHANGED mtime

EditManifest ==
    /\ world.toml[Root] # NoFile
    /\ \E m \in Manifests \ {world.toml[Root]} : Edited([world EXCEPT !.toml[Root] = m])
    /\ mtime' = [mtime EXCEPT ![Toml] = budget.clock]

----------------------------------------------------------------------------
Init ==
    /\ world \in Worlds
    /\ mtime = [p \in Range(PathOrder) |-> 0]
    /\ out = [exe |-> [a \in {"app", "app_test", "direct"} |-> None], state |-> NoState,
              temp |-> [t \in {<<Root, "src">>, <<Root, "tests">>} \X
                              {"c", "obj", "ll", "rt", "rtobj", "common.h", "modules", "main", "manifest"}
                          |-> None]]
    /\ proc = [p \in Procs |-> Idle]
    /\ budget = [edits |-> MaxEdits, commands |-> MaxCommands, crashes |-> MaxCrashes, clock |-> 1]
    /\ raced = {}

Step(p) ==
    \/ Stamp(p) \/ Check(p) \/ Compile(p) \/ Effect(p) \/ Save(p) \/ NextJob(p) \/ Finish(p)

\* The programs of commands at work on one entry at the same time.
Contended ==
    {proc[p].artifact : p \in {p \in Procs : proc[p] # Idle /\ \E r \in Procs \ {p} :
                                   proc[r] # Idle /\ proc[r].entry = proc[p].entry}}

Next ==
    /\ \/ \E p \in Procs :
             \/ Step(p) \/ Crash(p)
             \/ \E args \in Commands[p] :
                   \/ RunInit(p, args) \/ RunClean(p, args) \/ RunSubcommand(p, args)
                   \/ RunCompile(p, args) \/ CompilePlan(p, args)
       \/ EditSource \/ EditC \/ EditManifest
    /\ raced' = raced \cup Contended'

Spec == Init /\ [][Next]_vars

----------------------------------------------------------------------------
(* Properties.                                                             *)


\* Position of a call in the log, 0 when it is not there.
CallAt(log, op, m) == SelectInSeq(log, LAMBDA e : e.op = op /\ e.m = m)

DefText(p, m) == FindDefFile(world, m, proc[p].entry[1], proc[p].includes)

RECURSIVE DefReaches(_, _, _)
DefReaches(p, S, n) ==
    LET T == S \cup UNION {IF DefText(p, m) = NoFile THEN {} ELSE Range(world.src[DefText(p, m)].imports) : m \in S}
    IN  IF n = 0 THEN S ELSE DefReaches(p, T, n - 1)

DefCycle(p, m) ==
    DefText(p, m) # NoFile /\ m \in DefReaches(p, Range(world.src[DefText(p, m)].imports), 4)

Unchanged(p) == \A t \in proc[p].code : t[1] \in DOMAIN world.src /\ world.src[t[1]].id = t[2]

\* Definition modules are registered once each, after the definitions they
\* import unless these import them back, and every implementation is analysed
\* once, after its own definition and the definitions it imports.
DefsBeforeUse ==
    \A p \in Procs :
        (proc[p].pc = "emit" /\ proc[p].effects = Effects(proc[p].opts) /\ Unchanged(p)) =>
        LET log == proc[p].log
            before(m, i) == DefText(p, m) = NoFile \/ m \in Builtin
                              \/ (CallAt(log, "def", m) # 0 /\ CallAt(log, "def", m) < i)
        IN  \A i \in DOMAIN log :
                /\ CallAt(log, log[i].op, log[i].m) = i
                /\ log[i].op = "def" =>
                      \A n \in Range(world.src[DefText(p, log[i].m)].imports) :
                          DefCycle(p, n) \/ before(n, i)
                /\ log[i].op = "impl" =>
                      /\ before(log[i].m, i)
                      /\ LET f == FindModFileCandidates(world, log[i].m, proc[p].entry[1], proc[p].includes)
                         IN  \A n \in Range(world.src[f[1]].imports) : before(n, i)

\* The packages a manifest's dependencies lead to.
RECURSIVE Reached(_, _)
Reached(S, n) ==
    IF n = 0 THEN S
    ELSE Reached(S \cup {d \in DOMAIN world.toml \ {Root} :
                     \E s \in S : ManifestAt(world, s) # NoManifest /\
                        \E dep \in Range(ManifestAt(world, s).deps) : DepRoot(world, dep) = d}, n - 1)

\* Without a lockfile a build starts with the include paths of the packages
\* reachable through dependencies, each once and whatever the cycles; and
\* mxpkg0, with its own parser and its own notion of a visited dependency,
\* arrives at the same directories and C files in the same order.
DepsResolved ==
    \A p \in Procs :
        (proc[p].pc = "stamp" /\ proc[p].artifact = "app" /\ proc[p].manifest = ManifestAt(world, Root)
            /\ proc[p].lock = NoFile) =>
        LET m == proc[p].manifest
            paths == proc[p].includes
            boot == BuildMxpkg(world, Root)
            want == UNION {Range(AddDepIncludes(world, d, <<>>)) : d \in Reached({Root}, 3) \ {Root}}
        IN  /\ Range(paths) = want \cup Range(ExistingDirs(world, Root, m.includes))
            /\ Len(paths) = Cardinality(Range(paths))
            /\ boot.includes = paths
            /\ boot.extraC = CollectTransitiveCc(world, m, NoFile, <<Platform>>).extraC
=============================================================================
