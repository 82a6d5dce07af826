------------------------------ MODULE MCStartup ------------------------------
(* Five families of situations, each varying what one property is about:    *)
(* the tag rules, persistence, the log level and the watchdog, the          *)
(* benchmark tables, and the corpora.                                       *)
EXTENDS Startup

With(k, v) == [None EXCEPT ![k] = v]
And(o, k, v) == [o EXCEPT ![k] = v]

EmptyFile == [unknown |-> FALSE, illTyped |-> FALSE,
              benchmark |-> {}, root |-> None,
              tables |-> [b \in Benchmarks |-> None]]

Full(p) == [spelling |-> "full", path |-> p]
Short(p) == [spelling |-> "abbreviated", path |-> p]

(* Week files 0..2 and 1..2 of two families of two weeks; a third directory *)
(* without a scenario.                                                      *)
Tuple(f, h, w) == [family |-> f, history |-> h, weeks |-> w]
Entry(f, h, w) == [form |-> "tuple", name |-> Tuple(f, h, w)]
Odd(form) == [form |-> form, name |-> Tuple("n005", 0, <<9>>)]
Dir(h, w) == [parsed |-> TRUE, history |-> h, weeks |-> w]
OddDir == [parsed |-> FALSE, history |-> 9, weeks |-> <<>>]

Families == {"n005", "n030", "notes"}
Employee(shipped, weeks, declared, catalogue) ==
    [families |-> <<"n005", "n030", "notes">>, scenarios |-> {"n005", "n030"},
     histories |-> [f \in Families |-> IF f = "n030" THEN <<0>> ELSE <<0, 1>>],
     weeks |-> [f \in Families |-> IF f = "n030" THEN weeks ELSE <<0, 1, 2>>],
     length |-> [f \in Families |-> 2],
     shipped |-> [f \in Families |-> IF f = "n005" THEN shipped ELSE <<>>],
     declared |-> declared,
     groups |-> [g \in {"quick", "canonical"} |->
                    IF g = "quick" THEN {"n005"} ELSE {"n005", "n030"}],
     starts |-> [w \in {"n005", "n0", "n9"} |->
                    IF w = "n005" THEN {"n005"}
                    ELSE IF w = "n0" THEN {"n005", "n030"} ELSE {}],
     catalogue |-> catalogue]

Valid(names) == [valid |-> TRUE, names |-> names]
Corpus(emp, catalogue) ==
    [employee |-> emp,
     cvrp |-> [instances |-> <<"x1", "x2", "x3">>, catalogue |-> catalogue],
     jobshop |-> [instances |-> <<"ft06", "la01">>,
                  groups |-> [g \in {"quick"} |-> {"ft06"}],
                  catalogue |-> catalogue]]
AnyEmployee == Employee(<<>>, <<1, 2>>, {}, Valid({}))
AnyCorpus == Corpus(AnyEmployee, Valid({"x1", "x2", "x3", "ft06", "la01"}))

Situation(benchmark, configs, given, files, corpus, proven) ==
    [command |-> [benchmark |-> benchmark, configs |-> configs, given |-> given],
     files |-> files, corpus |-> corpus, proven |-> proven]

TwoFiles(a, b) == [p \in {"a", "b"} |-> IF p = "a" THEN a ELSE b]
Written(root) == [EmptyFile EXCEPT !.root = root]
NightlyFile == Written(And(With("nightly", {TRUE}), "log_level", {"DEBUG"}))

TagSituations ==
    {Situation(bench, configs, And(With("run_kind", kind), "release_tag", tag),
               TwoFiles([Written(And(With("run_kind", fkind), "release_tag", ftag))
                            EXCEPT !.benchmark = fbench], NightlyFile),
               AnyCorpus, AvailableSolvers) :
        bench \in {{}, {"cvrp"}, {"tsp"}}, fbench \in {{}, {"job-shop-scheduling"}, {"tsp"}},
        configs \in {<<>>, <<Full("a")>>, <<Short("a")>>, <<Full("a"), Full("b")>>,
                     <<Short("b"), Full("a")>>},
        kind \in {{}, {"quick"}, {"tag"}}, tag \in {{}, {"v1"}, {"  "}},
        fkind \in {{}, {"quick"}, {"tag"}}, ftag \in {{}, {"v2"}}}

SaveSituations ==
    {Situation({"cvrp"}, configs, And(With("save_postgres", save), "postgres_url", url),
               TwoFiles(Written(And(With("save_postgres", fsave),
                                    "postgres_url", furl)), NightlyFile),
               AnyCorpus, AvailableSolvers) :
        configs \in {<<>>, <<Full("a")>>, <<Full("b"), Short("a")>>},
        save \in {{}, {TRUE}, {FALSE}}, url \in {{}, {"u"}, {""}},
        fsave \in {{}, {TRUE}, {FALSE}}, furl \in {{}, {"w"}}}

LevelSituations ==
    {Situation({"job-shop-scheduling"}, <<Full("a")>>,
               And(With("log_level", level), "watchdog_multiplier", multiplier),
               TwoFiles(Written(And(With("log_level", flevel),
                                    "watchdog_grace_seconds", {-1})), EmptyFile),
               AnyCorpus, AvailableSolvers) :
        level \in {{}, {"debug"}, {"LOUD"}}, flevel \in {{}, {"DEBUG"}, {""}},
        multiplier \in {{}, {99}}}

BadFiles ==
    {[EmptyFile EXCEPT !.unknown = TRUE],
     [EmptyFile EXCEPT !.illTyped = TRUE], Written(With("run_kind", {"nightly"})),
     [EmptyFile EXCEPT !.tables["cvrp"]["datasets"] = {<<"n005">>}]}

TableSituations ==
    {Situation({bench}, <<Full("a")>>, given,
               TwoFiles([EmptyFile EXCEPT
                            !.benchmark = {"cvrp"},
                            !.root["solver"] = fsolver,
                            !.tables["cvrp"]["num_instances"] = num,
                            !.tables["job-shop-scheduling"]["datasets"] = {<<"la01">>},
                            !.tables["employee-scheduling"]["dataset_set"] = {"quick"}],
                        EmptyFile),
               AnyCorpus, proven) :
        bench \in Benchmarks,
        given \in {None, With("instances", {<<"x3", "x2">>}), With("instances", {<<"x9">>}),
                   With("num_instances", {1}), With("datasets", {<<"ft06", "n0">>}),
                   With("dataset_set", {"quick"}), With("dataset_set", {"late"}),
                   With("solver", {<<"highs", "highs">>}), With("solver", {<<"gurobi">>}),
                   With("time_limits", {<<1, 1>>}), With("time_limits", {<<0>>})},
        fsolver \in {{}, {<<>>}, {<<"highs", "timefold">>}},
        num \in {{}, {0}, {2}, {-1}},
        proven \in {AvailableSolvers, {"solverforge"}}}
    \cup {Situation({"cvrp"}, <<Full(path)>>, None, TwoFiles(bad, EmptyFile),
                    AnyCorpus, AvailableSolvers) :
            path \in {"a", "missing"}, bad \in BadFiles}

CorpusSituations ==
    {Situation({"employee-scheduling"}, <<>>,
               And(With("dataset_set", set), "datasets", datasets), TwoFiles(EmptyFile, EmptyFile),
               Corpus(Employee(shipped, weeks, declared, catalogue), Valid({})),
               AvailableSolvers) :
        set \in {{}, {"quick"}, {"late"}},
        datasets \in {{}, {<<"n0">>}, {<<"n9", "n005">>}, {<<"n9">>}},
        weeks \in {<<1, 2>>, <<2>>},
        catalogue \in {Valid({Tuple("n005", 0, <<1, 2>>)}),
                       [valid |-> FALSE, names |-> {}]},
        shipped \in {<<>>, <<OddDir>>, <<Dir(0, <<1, 2>>)>>,
                     <<Dir(0, <<1, 2>>), Dir(7, <<1, 2>>), Dir(1, <<4, 1>>)>>,
                     <<Dir(0, <<1, 2>>), Dir(0, <<1, 2>>)>>},
        declared \in {{}, {<<>>}, {<<Entry("n005", 0, <<0, 1>>), Odd("other")>>},
                      {<<Entry("n005", 0, <<1, 2>>), Entry("n005", 0, <<1, 2>>),
                         Entry("n005", 1, <<2, 2>>), Entry("n030", 0, <<2, 2>>)>>},
                      {<<Entry("n005", 7, <<1, 2>>), Entry("n005", 1, <<8, 1>>),
                         Entry("n030", 0, <<2, 1>>), Entry("notes", 0, <<0, 1>>)>>},
                      {<<Entry("n005", 0, <<1, 2>>), Odd("dangling")>>}}}

MCSituations ==
    TagSituations \cup SaveSituations \cup LevelSituations
        \cup TableSituations \cup CorpusSituations
MCLogLevels == {"DEBUG", "debug", "INFO"}
MCAvailableSolvers == {"solverforge", "highs", "timefold"}
MCDefaultSolvers == <<"solverforge", "highs">>
MCDefaultLimits == <<1, 10, 60>>
=============================================================================
