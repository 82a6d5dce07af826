------------------------------- MODULE Startup -------------------------------
(***************************************************************************)
(* From a command line to an accepted run (cli.py, config.py, the head of  *)
(* run_benchmark): the TOML file is found and loaded, argparse reads the   *)
(* command, the file fills what the command left open, the defaults fill   *)
(* the rest, the catalogue rules are applied, the solvers and the log      *)
(* level are checked, the benchmark selects its cases, and the matrix and  *)
(* the solvers' provenance are validated.  Every stage may end the program *)
(* instead.                                                                *)
(*                                                                         *)
(* A situation is what the program meets: the command, the TOML files by   *)
(* path, the corpus, and the solvers whose provenance is complete.  The    *)
(* command is what the user wrote, before argparse: the benchmark, the     *)
(* --config words in order (each spelled in full or abbreviated, after the *)
(* benchmark), and the other options.                                      *)
(***************************************************************************)
EXTENDS Selection, BenchmarkMatrix

CONSTANTS Situations, AvailableSolvers, DefaultSolvers, DefaultLimits,
          LogLevels     \* the levels the logging package has, in any case

(* The files a tuple is loaded from are there. *)
HasFiles(emp, t) ==
    /\ t.family \in Range(emp.families)
    /\ t.history \in Range(emp.histories[t.family])
    /\ HasWeeks(emp, t.family, t.weeks)
IsList(seq) == seq \in Seq(Range(seq))

Benchmarks == {"cvrp", "employee-scheduling", "job-shop-scheduling"}
RunKindChoices == {"quick", "candidate", "tag"}

(* nightly stands for the options that are taken as they come: the          *)
(* tolerance, the output and log paths and the two output flags.  The       *)
(* watchdog's two (in hundredths and in seconds) are looked at in the       *)
(* loops only, and may end the run there: WatchdogRaises of RunLifecycle.   *)
SharedKeys == {"solver", "time_limits", "run_kind", "nightly", "release_tag",
               "save_postgres", "postgres_url", "log_level",
               "watchdog_multiplier", "watchdog_grace_seconds"}
BenchmarkKeys(b) == IF b = "cvrp" THEN {"num_instances", "instances"}
                    ELSE {"dataset_set", "datasets"}
Keys == SharedKeys \cup UNION {BenchmarkKeys(b) : b \in Benchmarks}
KeysOf(b) == SharedKeys \cup BenchmarkKeys(b)

ASSUME DefaultsAreSound ==
    /\ Accepts([cases |-> <<1>>, limits |-> DefaultLimits,
                solvers |-> DefaultSolvers])
    /\ Range(DefaultSolvers) \subseteq AvailableSolvers

(* An option has one value at most, whichever way it is given. *)
ASSUME CommandsAreWellFormed ==
    \A s \in Situations :
        /\ s.command.given = [k \in Keys |-> s.command.given[k]]
        /\ \A a, b \in s.command.benchmark : a = b
ASSUME FilesAreWellFormed ==
    \A s \in Situations : \A p \in DOMAIN s.files :
        \A a, b \in s.files[p].benchmark : a = b

(* The employee corpus is a directory: its families differ.  An entry of    *)
(* the manifest that has the form of a tuple names one case, an entry of    *)
(* another form names none the corpus has the files of.                     *)
WellFormed(emp) ==
    /\ IsList(emp.families) /\ HasNoDuplicates(emp.families)
    /\ \A f \in Range(emp.families) :
          /\ IsList(emp.histories[f]) /\ IsList(emp.weeks[f])
          /\ IsList(emp.shipped[f])
          /\ emp.length[f] \in Nat
    /\ \A a, b \in emp.declared : a = b
    /\ IsList(Entries(emp))
    /\ \A e \in Range(Entries(emp)) :
          /\ e.name = [family |-> e.name.family, history |-> e.name.history,
                       weeks |-> e.name.weeks]
          /\ e.form # "tuple" => ~ HasFiles(emp, e.name)
ASSUME CorporaAreWellFormed ==
    \A s \in Situations : WellFormed(s.corpus.employee)

VARIABLES situation, config, args, stage, cases
vars == <<situation, config, args, stage, cases>>

None == [k \in Keys |-> {}]
NoConfig == [path |-> {}, benchmark |-> {}, root |-> None,
             tables |-> [b \in Benchmarks |-> None]]
NoArgs == [benchmark |-> {}, config |-> {}, option |-> None]

command == situation.command
SpecName == Value(args.benchmark)

(* The option as the command gives it: argparse's value when it is given.   *)
Given(k) == command.given[k]

-----------------------------------------------------------------------------
Init ==
    /\ situation \in Situations
    /\ config = NoConfig
    /\ args = NoArgs
    /\ stage = "load"
    /\ cases = <<>>

(* config_path_from_argv: the first --config spelled in full. *)
ConfigPath ==
    LET words == command.configs
    IN  {words[i].path :
            i \in {n \in DOMAIN words :
                    /\ words[n].spelling = "full"
                    /\ \A m \in 1 .. (n - 1) : words[m].spelling # "full"}}

(* No key or table of the file is one no list names (unknown stands for     *)
(* those outside the model's), and [benchmarks] keeps each key to its own.  *)
KnownKeys(file) ==
    /\ ~ file.unknown
    /\ \A k \in Keys \ SharedKeys : file.root[k] = {}
    /\ \A b \in Benchmarks : \A k \in Keys :
            file.tables[b][k] # {} => k \in BenchmarkKeys(b)

(* Every value has its TOML type, and the run kind is one of the three.     *)
ValidValues(file) ==
    ~ file.illTyped /\ file.root["run_kind"] \subseteq RunKindChoices

Loads(file) ==
    /\ file.benchmark \subseteq Benchmarks
    /\ KnownKeys(file)
    /\ ValidValues(file)

LoadConfig ==
    /\ stage = "load"
    /\ IF ConfigPath = {}
       THEN config' = NoConfig /\ stage' = "parse"
       ELSE LET file == situation.files[Value(ConfigPath)]
            IN  IF Value(ConfigPath) \in DOMAIN situation.files /\ Loads(file)
                THEN /\ config' = [path |-> ConfigPath,
                                   benchmark |-> file.benchmark,
                                   root |-> file.root,
                                   tables |-> file.tables]
                     /\ stage' = "parse"
                ELSE stage' = "refused" /\ UNCHANGED config
    /\ UNCHANGED <<situation, args, cases>>

(* The benchmark of the command, or else the file's, put in front of argv.  *)
ChosenBenchmark ==
    IF command.benchmark # {} THEN command.benchmark ELSE config.benchmark

(* argparse keeps the last --config and takes an abbreviation for it. *)
ParsedConfig ==
    IF command.configs = <<>> THEN {} ELSE {Last(command.configs).path}

ParseArguments ==
    /\ stage = "parse"
    /\ IF /\ ChosenBenchmark # {} /\ ChosenBenchmark \subseteq Benchmarks
          /\ \A k \in Keys \ KeysOf(Value(ChosenBenchmark)) : Given(k) = {}
          /\ Given("run_kind") \subseteq RunKindChoices
       THEN /\ args' = [benchmark |-> ChosenBenchmark,
                        config |-> ParsedConfig,
                        option |-> command.given]
            /\ stage' = "apply"
       ELSE stage' = "refused" /\ UNCHANGED args
    /\ UNCHANGED <<situation, config, cases>>

(* {**config.values, **config.benchmark_values}: the two have no key in     *)
(* common once the file is loaded.                                          *)
FileValue(k) ==
    IF config.tables[SpecName][k] # {}
    THEN config.tables[SpecName][k] ELSE config.root[k]

(* Mutant: the file overrides the command line. *)
AppliedFileFirst(k) == IF FileValue(k) # {} THEN FileValue(k) ELSE args.option[k]

Applied(k) == IF args.option[k] # {} THEN args.option[k] ELSE FileValue(k)

ApplyConfig ==
    /\ stage = "apply"
    /\ args' = [args EXCEPT
                    !.option = [k \in Keys |-> Applied(k)],
                    !.config = IF config.path # {} THEN config.path ELSE @]
    /\ stage' = "defaults"
    /\ UNCHANGED <<situation, config, cases>>

Default ==
    [None EXCEPT !["run_kind"] = {"candidate"}, !["nightly"] = {FALSE},
                 !["save_postgres"] = {FALSE}, !["log_level"] = {"INFO"},
                 !["watchdog_multiplier"] = {125},
                 !["watchdog_grace_seconds"] = {5}]

(* Mutant: any URL enables saving, the file's as well. *)
UrlEnablesSaveAnyUrl == HasValue(args.option["postgres_url"], "")

UrlEnablesSave ==
    /\ Given("postgres_url") # {} /\ Given("save_postgres") = {}
    /\ HasValue(args.option["postgres_url"], "")

FinalizeDefaults ==
    /\ stage = "defaults"
    /\ args' = [args EXCEPT !.option =
                    [k \in Keys |->
                        IF k = "save_postgres" /\ UrlEnablesSave THEN {TRUE}
                        ELSE IF args.option[k] # {} THEN args.option[k]
                        ELSE Default[k]]]
    /\ stage' = "catalog"
    /\ UNCHANGED <<situation, config, cases>>

(* Mutant: the file's tag outlives a run kind given on the command line. *)
EffectiveTagKept == args.option["release_tag"]

(* A non-tag kind on the command line drops the file's tag. *)
EffectiveTag ==
    IF /\ Given("run_kind") # {}
       /\ args.option["run_kind"] # {"tag"}
       /\ Given("release_tag") = {}
    THEN {} ELSE args.option["release_tag"]

Blank == {"", "  "}

(* Mutant: a tag of another kind of run is let through. *)
TagIsAllowedAnywhere ==
    /\ EffectiveTag \cap Blank = {}
    /\ args.option["run_kind"] = {"tag"} => EffectiveTag # {}

TagIsAllowed ==
    /\ EffectiveTag \cap Blank = {}
    /\ args.option["run_kind"] = {"tag"} => EffectiveTag # {}
    /\ args.option["run_kind"] # {"tag"} => EffectiveTag = {}

FinalizeRunCatalog ==
    /\ stage = "catalog"
    /\ IF TagIsAllowed
       THEN /\ args' = [args EXCEPT !.option["release_tag"] = EffectiveTag]
            /\ stage' = "solvers"
       ELSE stage' = "refused" /\ UNCHANGED args
    /\ UNCHANGED <<situation, config, cases>>

(* args.solver or spec.default_solvers; args.time_limits likewise. *)
Solvers == IF HasValue(args.option["solver"], <<>>)
           THEN Value(args.option["solver"]) ELSE DefaultSolvers
Limits == IF HasValue(args.option["time_limits"], <<>>)
          THEN Value(args.option["time_limits"]) ELSE DefaultLimits

ValidateSolvers ==
    /\ stage = "solvers"
    /\ stage' = IF /\ HasNoDuplicates(Solvers)
                   /\ Range(Solvers) \subseteq AvailableSolvers
                THEN "logging" ELSE "refused"
    /\ UNCHANGED <<situation, config, args, cases>>

(* configure_run_logging knows the level. *)
ConfigureLogging ==
    /\ stage = "logging"
    /\ stage' = IF args.option["log_level"] \subseteq LogLevels
                THEN "select" ELSE "refused"
    /\ UNCHANGED <<situation, config, args, cases>>

SelectCases ==
    /\ stage = "select"
    /\ IF CasesRaise(situation.corpus, SpecName, args.option)
       THEN stage' = "refused" /\ UNCHANGED cases
       ELSE /\ cases' = Cases(situation.corpus, SpecName, args.option)
            /\ stage' = "matrix"
    /\ UNCHANGED <<situation, config, args>>

BuildMatrix ==
    /\ stage = "matrix"
    /\ stage' = IF Accepts([cases |-> [i \in DOMAIN cases |-> cases[i].instance],
                            limits |-> Limits, solvers |-> Solvers])
                THEN "versions" ELSE "refused"
    /\ UNCHANGED <<situation, config, args, cases>>

(* validate_solver_versions, over the metadata of solver_versions. *)
ValidateVersions ==
    /\ stage = "versions"
    /\ stage' = IF Range(Solvers) \subseteq situation.proven
                THEN "started" ELSE "refused"
    /\ UNCHANGED <<situation, config, args, cases>>

Next ==
    \/ LoadConfig \/ ParseArguments \/ ApplyConfig \/ FinalizeDefaults
    \/ FinalizeRunCatalog \/ ValidateSolvers \/ ConfigureLogging
    \/ SelectCases \/ BuildMatrix \/ ValidateVersions

Spec == Init /\ [][Next]_vars

-----------------------------------------------------------------------------
(* The options are final: what is left decides cases and solvers only.      *)
Settled ==
    stage \in {"solvers", "logging", "select", "matrix", "versions", "started"}

(* The value of an option in a file, for the benchmark of this run. *)
WrittenIn(path, k) ==
    LET file == situation.files[path]
    IN  IF k \in SharedKeys THEN file.root[k] ELSE file.tables[SpecName][k]

InFile(k) == IF ConfigPath = {} THEN {} ELSE WrittenIn(Value(ConfigPath), k)

Asked(k) ==
    IF Given(k) # {} THEN Given(k)
    ELSE IF k = "save_postgres" /\ HasValue(Given("postgres_url"), "") THEN {TRUE}
    ELSE IF InFile(k) # {} THEN InFile(k)
    ELSE Default[k]

(* README.md 494 and 511-513: each option of a run is the command's, or     *)
(* else the file's, or else the default; a URL on the command line turns    *)
(* persistence on unless the command says otherwise, a URL in the file      *)
(* never does; and no option of another benchmark gets in.  (The tag is the *)
(* next property's.)                                                        *)
EveryOptionHasItsSource ==
    Settled =>
        \A k \in Keys \ {"release_tag"} :
            args.option[k] = IF k \in KeysOf(SpecName) THEN Asked(k) ELSE {}

(* README.md 494-498: a run has a tag exactly when its kind is tag, the tag *)
(* is not blank, one given on the command line is never replaced or         *)
(* dropped, and one from the file comes with that file's kind or with a tag *)
(* kind from the command line.                                              *)
TagsAreTruthful ==
    Settled =>
        LET tag == args.option["release_tag"]
        IN  /\ args.option["run_kind"] = {"tag"} <=> tag # {}
            /\ tag \cap Blank = {}
            /\ Given("release_tag") # {} => tag = Given("release_tag")
            /\ tag \subseteq Given("release_tag") \cup InFile("release_tag")

(* README.md 496-498: a file written for a tag can be run with another kind *)
(* from the command line; the tag rules refuse only a command that gives a  *)
(* tag to a run of another kind, a tag run without a tag, a blank tag, or a *)
(* file that is at odds with itself.                                        *)
TagFileFitsOtherKinds ==
    [][stage = "catalog" /\ stage' = "refused" =>
            LET tag == Asked("release_tag")
                kind == Asked("run_kind")
            IN  \/ tag \cap Blank # {}
                \/ kind = {"tag"} /\ tag = {}
                \/ /\ kind # {"tag"} /\ tag # {}
                   /\ Given("release_tag") # {} \/ Given("run_kind") = {}]_vars

-----------------------------------------------------------------------------
(* What a run ought to grade, in sets. *)
Loadable(emp, t) == t.family \in emp.scenarios /\ HasFiles(emp, t)

Declared(emp) == {e.name : e \in {d \in Range(Entries(emp)) : d.form = "tuple"}}

Offered(emp) ==
    (UNION {{[family |-> f, history |-> d.history, weeks |-> d.weeks] :
                 d \in {s \in Range(emp.shipped[f]) : s.parsed}} :
             f \in Range(emp.families)})
    \cup {[family |-> f, history |-> h,
           weeks |-> SubSeq(emp.weeks[f], 1, emp.length[f])] :
            f \in {g \in Range(emp.families) :
                    emp.shipped[g] = <<>> /\ Len(emp.weeks[g]) >= emp.length[g]},
            h \in UNION {Range(emp.histories[g]) : g \in Range(emp.families)}}

WantedTuples(emp, option) ==
    {t \in IF emp.declared = {} THEN Offered(emp) ELSE Declared(emp) :
        /\ Loadable(emp, t)
        /\ HasValue(option["dataset_set"], "") =>
                t.family \in emp.groups[Value(option["dataset_set"])]
        /\ HasValue(option["datasets"], <<>>) =>
                \E w \in Range(Value(option["datasets"])) : t.family \in emp.starts[w]}

ShipsTwice(emp) ==
    \E f \in Range(emp.families) : \E i, j \in DOMAIN emp.shipped[f] :
        /\ i # j
        /\ emp.shipped[f][i].history = emp.shipped[f][j].history
        /\ emp.shipped[f][i].weeks = emp.shipped[f][j].weeks

(* The manifest's provenance ("canonical grades exactly the tuples the      *)
(* competition published a result for") and spec.py 211-219: the cases of   *)
(* an employee run are the declared tuples the corpus can load (without a   *)
(* declaration, the shipped ones and, where nothing is shipped, the leading *)
(* weeks), within the group and the datasets asked for, each once unless    *)
(* two solution directories name one tuple.                                 *)
SelectionIsExact ==
    /\ stage \in {"matrix", "versions", "started"}
    /\ SpecName = "employee-scheduling"
    => LET emp == situation.corpus.employee
           names == [i \in DOMAIN cases |-> cases[i].instance]
       IN  /\ Range(names) = WantedTuples(emp, args.option)
           /\ HasNoDuplicates(names) \/ ShipsTwice(emp)
=============================================================================
