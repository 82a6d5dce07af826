---------------------------- MODULE Launch_proofs ----------------------------
(***************************************************************************)
(* How a run gets going.  Where the options of an accepted run come from,  *)
(* and which cases an employee run grades, for every command, file and     *)
(* corpus (Startup); and one solver per core, for any number of runs,      *)
(* locks and rows, as long as runs that share a core are given the same    *)
(* lock (BenchLock): under every fault up to leftovers, and without        *)
(* exception when nobody presses Ctrl-C and no helper outlives its         *)
(* watchdog kill.                                                          *)
(***************************************************************************)
EXTENDS Startup, BenchLock, FoldTheorems, TLAPS

Written(b, k) ==
    IF ConfigPath = {} THEN {}
    ELSE LET file == situation.files[Value(ConfigPath)]
         IN  IF k \in SharedKeys THEN file.root[k] ELSE file.tables[b][k]

(* Once loaded, the configuration says what the file says, and the keys of  *)
(* one benchmark do not reach another.                                      *)
ConfigInv ==
    stage \notin {"load", "refused"} =>
        /\ \A a, b \in config.benchmark : a = b
        /\ \A b \in Benchmarks, k \in Keys :
            (IF config.tables[b][k] # {} THEN config.tables[b][k]
             ELSE config.root[k])
            = IF k \in KeysOf(b) THEN Written(b, k) ELSE {}

Read == stage \notin {"load", "parse", "refused"}

(* Once parsed, the arguments have their shape, one benchmark, and no       *)
(* option of another.                                                       *)
ShapeInv ==
    Read =>
        /\ \E b \in Benchmarks : args.benchmark = {b}
        /\ DOMAIN args = {"benchmark", "config", "option"}
        /\ args = [benchmark |-> args.benchmark, config |-> args.config,
                   option |-> args.option]
        /\ args.option = [k \in Keys |-> args.option[k]]
        /\ \A k \in Keys \ KeysOf(SpecName) : Given(k) = {}

(* What an option holds at each stage on the way to its final value. *)
OptionInv ==
    /\ stage = "apply" => \A k \in Keys : args.option[k] = Given(k)
    /\ stage = "defaults" => \A k \in Keys :
            args.option[k] = IF Given(k) # {} THEN Given(k)
                             ELSE IF k \in KeysOf(SpecName)
                             THEN Written(SpecName, k) ELSE {}
    /\ stage = "catalog" => \A k \in Keys :
            args.option[k] = IF k \in KeysOf(SpecName) THEN Asked(k) ELSE {}

SourceInv == ConfigInv /\ ShapeInv /\ OptionInv /\ EveryOptionHasItsSource

LEMMA ValueOfSingleton == ASSUME NEW b PROVE Value({b}) = b
BY DEF Value

LEMMA KeyFacts ==
    /\ "save_postgres" \in SharedKeys /\ "postgres_url" \in SharedKeys
    /\ "release_tag" \in SharedKeys /\ "run_kind" \in SharedKeys
    /\ SharedKeys \subseteq Keys
    /\ \A b \in Benchmarks : KeysOf(b) \subseteq Keys /\ SharedKeys \subseteq KeysOf(b)
    /\ \A b \in Benchmarks : BenchmarkKeys(b) \cap SharedKeys = {}
    /\ \A k \in Keys \ SharedKeys : Default[k] = {}
    /\ Default["release_tag"] = {}
    /\ "release_tag" # "save_postgres"
BY DEF SharedKeys, Keys, KeysOf, BenchmarkKeys, Benchmarks, Default, None

LEMMA WrittenIsInFile ==
    \A k \in Keys : Written(SpecName, k) = InFile(k)
BY DEF Written, InFile, WrittenIn

LEMMA LoadedFile ==
    ASSUME NEW file, Loads(file), NEW b \in Benchmarks, NEW k \in Keys
    PROVE  (IF file.tables[b][k] # {} THEN file.tables[b][k] ELSE file.root[k])
           = IF k \in KeysOf(b)
             THEN IF k \in SharedKeys THEN file.root[k] ELSE file.tables[b][k]
             ELSE {}
<1>1. CASE k \in SharedKeys
  <2>1. k \notin BenchmarkKeys(b) /\ k \in KeysOf(b)
    BY <1>1, KeyFacts DEF KeysOf
  <2> QED  BY <1>1, <2>1 DEF Loads, KnownKeys, ValidValues
<1>2. CASE k \notin SharedKeys
  <2>1. file.root[k] = {}
    BY <1>2 DEF Loads, KnownKeys, ValidValues
  <2>2. k \in KeysOf(b) <=> k \in BenchmarkKeys(b)
    BY <1>2 DEF KeysOf
  <2>3. file.tables[b][k] # {} => k \in BenchmarkKeys(b)
    BY DEF Loads, KnownKeys, ValidValues
  <2> QED  BY <1>2, <2>1, <2>2, <2>3
<1> QED  BY <1>1, <1>2

(* Only LoadConfig touches the configuration. *)
LEMMA LoadKeepsConfigInv ==
    ASSUME situation \in Situations, LoadConfig PROVE ConfigInv'
<1>0. stage = "load" /\ situation' = situation /\ ConfigPath' = ConfigPath
  <2>1. stage = "load" /\ situation' = situation
    BY DEF LoadConfig
  <2>2. command' = command
    BY <2>1 DEF command
  <2> QED  BY <2>1, <2>2 DEF ConfigPath
<1>1. CASE ConfigPath = {}
  <2>1. config' = NoConfig
    BY <1>1 DEF LoadConfig
  <2>2. \A b \in Benchmarks, k \in Keys :
            config'.tables[b][k] = {} /\ config'.root[k] = {}
    BY <2>1 DEF NoConfig, None
  <2>3. config'.benchmark = {}
    BY <2>1 DEF NoConfig
  <2>4. \A b, k : Written(b, k)' = {}
    BY <1>0, <1>1 DEF Written
  <2> QED  BY <2>2, <2>3, <2>4 DEF ConfigInv
<1>2. CASE ConfigPath # {}
  <2> DEFINE file == situation.files[Value(ConfigPath)]
  <2> DEFINE ok == Value(ConfigPath) \in DOMAIN situation.files /\ Loads(file)
  <2>1. CASE ~ ok
    <3>1. stage' = "refused"
      BY <1>2, <2>1 DEF LoadConfig
    <3> QED  BY <3>1 DEF ConfigInv
  <2>2. CASE ok
    <3>1. config' = [path |-> ConfigPath, benchmark |-> file.benchmark,
                     root |-> file.root, tables |-> file.tables]
      BY <1>2, <2>2 DEF LoadConfig
    <3>2. /\ config'.benchmark = file.benchmark
          /\ config'.root = file.root /\ config'.tables = file.tables
      BY <3>1
    <3>3. \A b, k : Written(b, k)' = IF k \in SharedKeys THEN file.root[k]
                                     ELSE file.tables[b][k]
      BY <1>0, <1>2 DEF Written
    <3>4. \A a, b \in file.benchmark : a = b
      BY <2>2, FilesAreWellFormed DEF Loads, KnownKeys, ValidValues
    <3>5. \A b \in Benchmarks, k \in Keys :
            (IF file.tables[b][k] # {} THEN file.tables[b][k] ELSE file.root[k])
            = IF k \in KeysOf(b)
              THEN IF k \in SharedKeys THEN file.root[k] ELSE file.tables[b][k]
              ELSE {}
      BY <2>2, LoadedFile
    <3> HIDE DEF file
    <3> QED  BY <3>2, <3>3, <3>4, <3>5 DEF ConfigInv
  <2> QED  BY <2>1, <2>2
<1> QED  BY <1>1, <1>2

(* No later action touches the situation or the configuration. *)
LEMMA LaterKeepsConfigInv ==
    ASSUME ConfigInv, stage # "load", stage # "refused",
           UNCHANGED <<situation, config>>
    PROVE  ConfigInv'
<1>1. command' = command
  BY DEF command
<1>2. ConfigPath' = ConfigPath
  BY <1>1 DEF ConfigPath
<1>3. \A b, k : Written(b, k)' = Written(b, k)
  BY <1>2 DEF Written
<1> QED  BY <1>3 DEF ConfigInv

(* The command's words and the file's values do not change. *)
LEMMA SourcesStay ==
    ASSUME situation' = situation
    PROVE  /\ \A k : Given(k)' = Given(k)
           /\ \A b, k : Written(b, k)' = Written(b, k)
           /\ args.benchmark' = args.benchmark =>
                /\ SpecName' = SpecName
                /\ \A k : Asked(k)' = Asked(k)
<1>1. command' = command
  BY DEF command
<1>2. ConfigPath' = ConfigPath
  BY <1>1 DEF ConfigPath
<1>3. \A k : Given(k)' = Given(k)
  BY <1>1 DEF Given
<1>4. \A b, k : Written(b, k)' = Written(b, k)
  BY <1>2 DEF Written
<1>5. ASSUME args.benchmark' = args.benchmark
      PROVE  SpecName' = SpecName /\ \A k : Asked(k)' = Asked(k)
  <2>1. SpecName' = SpecName
    BY <1>5 DEF SpecName
  <2>2. \A k : InFile(k)' = InFile(k)
    BY <1>2, <2>1 DEF InFile, WrittenIn
  <2> QED  BY <1>3, <2>1, <2>2 DEF Asked
<1> QED  BY <1>3, <1>4, <1>5

LEMMA ParseKeeps ==
    ASSUME situation \in Situations, SourceInv, ParseArguments
    PROVE  ShapeInv' /\ OptionInv' /\ EveryOptionHasItsSource'
<1>0. situation' = situation /\ stage = "parse"
  BY DEF ParseArguments
<1>1. CASE stage' = "refused"
  BY <1>1 DEF ShapeInv, Read, OptionInv, EveryOptionHasItsSource, Settled
<1>2. CASE stage' = "apply"
  <2>1. /\ ChosenBenchmark # {} /\ ChosenBenchmark \subseteq Benchmarks
        /\ \A k \in Keys \ KeysOf(Value(ChosenBenchmark)) : Given(k) = {}
        /\ args' = [benchmark |-> ChosenBenchmark, config |-> ParsedConfig,
                    option |-> command.given]
    BY <1>2 DEF ParseArguments
  <2>2. \A a, b \in ChosenBenchmark : a = b
    BY <1>0, CommandsAreWellFormed DEF ChosenBenchmark, SourceInv, ConfigInv, command
  <2>3. PICK b \in Benchmarks : ChosenBenchmark = {b}
    BY <2>1, <2>2
  <2>4. /\ args'.benchmark = {b} /\ args'.option = command.given
        /\ DOMAIN args' = {"benchmark", "config", "option"}
        /\ args' = [benchmark |-> args'.benchmark, config |-> args'.config,
                    option |-> args'.option]
    BY <2>1, <2>3
  <2>5. SpecName' = b /\ Value(ChosenBenchmark) = b
    BY <2>3, <2>4, ValueOfSingleton DEF SpecName
  <2>6. command.given = [k \in Keys |-> command.given[k]]
    BY CommandsAreWellFormed DEF command
  <2>7. \A k : Given(k)' = Given(k)
    BY <1>0, SourcesStay
  <2>8. ShapeInv'
    BY <2>1, <2>4, <2>5, <2>6, <2>7 DEF ShapeInv
  <2>9. OptionInv'
    BY <1>2, <2>4, <2>7 DEF OptionInv, Given
  <2>10. EveryOptionHasItsSource'
    BY <1>2 DEF EveryOptionHasItsSource, Settled
  <2> QED  BY <2>8, <2>9, <2>10
<1>3. stage' = "apply" \/ stage' = "refused"
  BY DEF ParseArguments
<1> QED  BY <1>1, <1>2, <1>3

LEMMA ApplyKeeps ==
    ASSUME SourceInv, ApplyConfig
    PROVE  ShapeInv' /\ OptionInv' /\ EveryOptionHasItsSource'
<1>0. situation' = situation /\ stage = "apply" /\ stage' = "defaults" /\ Read
  BY DEF ApplyConfig, Read
<1>1. ShapeInv /\ ConfigInv /\ OptionInv
  BY DEF SourceInv
<1>2. PICK b \in Benchmarks : args.benchmark = {b}
  BY <1>0, <1>1 DEF ShapeInv
<1>3. /\ args'.benchmark = args.benchmark
      /\ args'.option = [k \in Keys |-> Applied(k)]
      /\ DOMAIN args' = {"benchmark", "config", "option"}
      /\ args' = [benchmark |-> args'.benchmark, config |-> args'.config,
                  option |-> args'.option]
  <2>1. args' = [args EXCEPT !.option = [k \in Keys |-> Applied(k)],
                    !.config = IF config.path # {} THEN config.path ELSE args.config]
    BY DEF ApplyConfig
  <2>2. args = [benchmark |-> args.benchmark, config |-> args.config,
                option |-> args.option]
    BY <1>0, <1>1 DEF ShapeInv
  <2> QED  BY <2>1, <2>2
<1>4. SpecName = b /\ SpecName' = SpecName /\ (\A k : Given(k)' = Given(k))
      /\ (\A c, k : Written(c, k)' = Written(c, k))
  BY <1>0, <1>2, <1>3, SourcesStay, ValueOfSingleton DEF SpecName
<1>5. \A k \in Keys : args'.option[k] = Applied(k)
  BY <1>3
<1>6. \A k \in Keys : FileValue(k) =
            IF k \in KeysOf(b) THEN Written(b, k) ELSE {}
  BY <1>0, <1>1, <1>4 DEF ConfigInv, FileValue
<1>7. \A k \in Keys : args.option[k] = Given(k)
  BY <1>0, <1>1 DEF OptionInv
<1>8. OptionInv'
  BY <1>0, <1>4, <1>5, <1>6, <1>7 DEF OptionInv, Applied
<1>9. ShapeInv'
  <2>1. \A k \in Keys \ KeysOf(SpecName) : Given(k) = {}
    BY <1>0, <1>1 DEF ShapeInv
  <2>2. args'.option = [k \in Keys |-> args'.option[k]]
    BY <1>3
  <2> QED  BY <1>2, <1>3, <1>4, <2>1, <2>2 DEF ShapeInv
<1>10. EveryOptionHasItsSource'
  BY <1>0 DEF EveryOptionHasItsSource, Settled
<1> QED  BY <1>8, <1>9, <1>10

LEMMA DefaultsKeep ==
    ASSUME SourceInv, FinalizeDefaults
    PROVE  ShapeInv' /\ OptionInv' /\ EveryOptionHasItsSource'
<1>0. situation' = situation /\ stage = "defaults" /\ stage' = "catalog" /\ Read
  BY DEF FinalizeDefaults, Read
<1>1. ShapeInv /\ OptionInv
  BY DEF SourceInv
<1>2. PICK b \in Benchmarks : args.benchmark = {b}
  BY <1>0, <1>1 DEF ShapeInv
<1> DEFINE filled == [k \in Keys |->
                        IF k = "save_postgres" /\ UrlEnablesSave THEN {TRUE}
                        ELSE IF args.option[k] # {} THEN args.option[k]
                        ELSE Default[k]]
<1>3. /\ args'.benchmark = args.benchmark /\ args'.option = filled
      /\ DOMAIN args' = {"benchmark", "config", "option"}
      /\ args' = [benchmark |-> args'.benchmark, config |-> args'.config,
                  option |-> args'.option]
  <2>1. args' = [args EXCEPT !.option = filled]
    BY DEF FinalizeDefaults
  <2>2. args = [benchmark |-> args.benchmark, config |-> args.config,
                option |-> args.option]
    BY <1>0, <1>1 DEF ShapeInv
  <2> HIDE DEF filled
  <2> QED  BY <2>1, <2>2
<1>4. SpecName = b /\ SpecName' = SpecName /\ (\A k : Given(k)' = Given(k))
      /\ (\A k : Asked(k)' = Asked(k))
  BY <1>0, <1>2, <1>3, SourcesStay, ValueOfSingleton DEF SpecName
<1>5. \A k \in Keys : args.option[k] =
            IF Given(k) # {} THEN Given(k)
            ELSE IF k \in KeysOf(b) THEN InFile(k) ELSE {}
  BY <1>0, <1>1, <1>4, WrittenIsInFile DEF OptionInv
<1>6. \A k \in Keys \ KeysOf(b) : Given(k) = {}
  BY <1>0, <1>1, <1>4 DEF ShapeInv
<1>7. UrlEnablesSave <=> /\ Given("save_postgres") = {}
                         /\ HasValue(Given("postgres_url"), "")
  BY <1>5, KeyFacts DEF UrlEnablesSave, HasValue
<1>8. ASSUME NEW k \in Keys
      PROVE  filled[k] = IF k \in KeysOf(b) THEN Asked(k) ELSE {}
  <2>1. CASE k \in KeysOf(b)
    BY <1>5, <1>7, <2>1 DEF Asked
  <2>2. CASE k \notin KeysOf(b)
    <3>1. k \notin SharedKeys /\ k # "save_postgres"
      BY <2>2, KeyFacts
    <3> QED  BY <1>5, <1>6, <2>2, <3>1, KeyFacts
  <2> QED  BY <2>1, <2>2
<1>9. OptionInv'
  <2> HIDE DEF filled
  <2> QED  BY <1>0, <1>3, <1>4, <1>8 DEF OptionInv
<1>10. ShapeInv'
  <2>1. args'.option = [k \in Keys |-> args'.option[k]]
    BY <1>3
  <2> HIDE DEF filled
  <2> QED  BY <1>2, <1>3, <1>4, <1>6, <2>1 DEF ShapeInv
<1>11. EveryOptionHasItsSource'
  BY <1>0 DEF EveryOptionHasItsSource, Settled
<1> QED  BY <1>9, <1>10, <1>11

LEMMA CatalogKeeps ==
    ASSUME SourceInv, FinalizeRunCatalog
    PROVE  ShapeInv' /\ OptionInv' /\ EveryOptionHasItsSource'
<1>0. situation' = situation /\ stage = "catalog" /\ Read
      /\ stage' \in {"solvers", "refused"}
  BY DEF FinalizeRunCatalog, Read
<1>1. ShapeInv /\ OptionInv
  BY DEF SourceInv
<1>2. CASE stage' = "refused"
  BY <1>2 DEF ShapeInv, Read, OptionInv, EveryOptionHasItsSource, Settled
<1>3. CASE stage' = "solvers"
  <2>1. PICK b \in Benchmarks : args.benchmark = {b}
    BY <1>0, <1>1 DEF ShapeInv
  <2>2. args' = [args EXCEPT !.option["release_tag"] = EffectiveTag]
    BY <1>3 DEF FinalizeRunCatalog
  <2>3. /\ args = [benchmark |-> args.benchmark, config |-> args.config,
                   option |-> args.option]
        /\ args.option = [k \in Keys |-> args.option[k]]
    BY <1>0, <1>1 DEF ShapeInv
  <2>4. /\ args'.benchmark = args.benchmark
        /\ args'.option = [args.option EXCEPT !["release_tag"] = EffectiveTag]
        /\ DOMAIN args' = {"benchmark", "config", "option"}
        /\ args' = [benchmark |-> args'.benchmark, config |-> args'.config,
                    option |-> args'.option]
    BY <2>2, <2>3
  <2>5. args'.option = [k \in Keys |-> args'.option[k]]
    BY <2>3, <2>4
  <2>6. \A k \in Keys \ {"release_tag"} : args'.option[k] = args.option[k]
    BY <2>3, <2>4
  <2>7. SpecName = b /\ SpecName' = SpecName /\ (\A k : Given(k)' = Given(k))
        /\ (\A k : Asked(k)' = Asked(k))
    BY <1>0, <2>1, <2>4, SourcesStay, ValueOfSingleton DEF SpecName
  <2>8. EveryOptionHasItsSource'
    BY <1>0, <1>1, <2>6, <2>7 DEF EveryOptionHasItsSource, OptionInv
  <2>9. ShapeInv'
    <3>1. \A k \in Keys \ KeysOf(SpecName) : Given(k) = {}
      BY <1>0, <1>1 DEF ShapeInv
    <3> QED  BY <2>1, <2>4, <2>5, <2>7, <3>1 DEF ShapeInv
  <2> QED  BY <1>3, <2>8, <2>9 DEF OptionInv
<1> QED  BY <1>0, <1>2, <1>3

(* The stages after the catalogue rules leave the arguments alone. *)
Checking ==
    \/ ValidateSolvers \/ ConfigureLogging \/ SelectCases \/ BuildMatrix
    \/ ValidateVersions

LEMMA CheckingFrame ==
    ASSUME Checking
    PROVE  /\ situation' = situation /\ config' = config /\ args' = args
           /\ Settled /\ Read
           /\ stage' \in {"logging", "select", "matrix", "versions", "started", "refused"}
BY DEF Checking, ValidateSolvers, ConfigureLogging, SelectCases, BuildMatrix, ValidateVersions,
       Settled, Read

LEMMA SameArguments ==
    ASSUME SourceInv, situation' = situation, args' = args,
           stage' = stage \/ (Settled /\ Read /\ stage' \in
                {"logging", "select", "matrix", "versions", "started", "refused"})
    PROVE  ShapeInv' /\ OptionInv' /\ EveryOptionHasItsSource'
<1>1. SpecName' = SpecName /\ (\A k : Given(k)' = Given(k))
      /\ (\A b, k : Written(b, k)' = Written(b, k))
      /\ (\A k : Asked(k)' = Asked(k))
  BY SourcesStay
<1>2. (Read' => Read) /\ (Settled' => Settled)
  BY DEF Read, Settled
<1>3. ShapeInv'
  BY <1>1, <1>2 DEF SourceInv, ShapeInv
<1>4. EveryOptionHasItsSource'
  BY <1>1, <1>2 DEF SourceInv, EveryOptionHasItsSource
<1>5. OptionInv'
  <2>1. CASE stage' = stage
    BY <1>1, <2>1 DEF SourceInv, OptionInv
  <2>2. CASE stage' \in {"logging", "select", "matrix", "versions", "started", "refused"}
    BY <2>2 DEF OptionInv
  <2> QED  BY <2>1, <2>2
<1> QED  BY <1>3, <1>4, <1>5

LEMMA SourceInvStep ==
    ASSUME situation \in Situations, SourceInv, [Next]_vars
    PROVE  SourceInv' /\ situation' = situation
<1>1. CASE LoadConfig
  <2>1. stage = "load" /\ stage' \in {"parse", "refused"}
        /\ situation' = situation
    BY <1>1 DEF LoadConfig
  <2>2. ShapeInv' /\ OptionInv' /\ EveryOptionHasItsSource'
    BY <2>1 DEF ShapeInv, Read, OptionInv, EveryOptionHasItsSource, Settled
  <2> QED  BY <1>1, <2>1, <2>2, LoadKeepsConfigInv DEF SourceInv
<1>2. CASE ParseArguments \/ ApplyConfig \/ FinalizeDefaults \/ FinalizeRunCatalog
  <2>1. UNCHANGED <<situation, config>> /\ stage # "load" /\ stage # "refused"
    BY <1>2 DEF ParseArguments, ApplyConfig, FinalizeDefaults, FinalizeRunCatalog
  <2>2. ConfigInv'
    BY <2>1, LaterKeepsConfigInv DEF SourceInv
  <2> QED  BY <1>2, <2>1, <2>2, ParseKeeps, ApplyKeeps, DefaultsKeep, CatalogKeeps
              DEF SourceInv
<1>3. CASE Checking
  <2>1. stage # "load" /\ stage # "refused"
    BY <1>3, CheckingFrame DEF Settled
  <2>2. ConfigInv'
    BY <1>3, <2>1, CheckingFrame, LaterKeepsConfigInv DEF SourceInv
  <2> QED  BY <1>3, <2>2, CheckingFrame, SameArguments DEF SourceInv
<1>4. CASE UNCHANGED vars
  <2>1. situation' = situation /\ config' = config /\ args' = args /\ stage' = stage
    BY <1>4 DEF vars
  <2>2. command' = command
    BY <2>1 DEF command
  <2>3. ConfigPath' = ConfigPath
    BY <2>2 DEF ConfigPath
  <2>4. \A b, k : Written(b, k)' = Written(b, k)
    BY <2>1, <2>3 DEF Written
  <2>5. ConfigInv'
    BY <2>1, <2>4 DEF SourceInv, ConfigInv
  <2> QED  BY <2>1, <2>5, SameArguments DEF SourceInv
<1> QED  BY <1>1, <1>2, <1>3, <1>4 DEF Next, Checking

(* README.md 494, 511-513: for every command and file, an option of an      *)
(* accepted run is the command's, the file's or the default, in that order. *)
THEOREM OptionsHaveSources == Spec => []EveryOptionHasItsSource
<1> DEFINE Inv == situation \in Situations /\ SourceInv
<1>1. Init => Inv
  BY DEF Init, SourceInv, ConfigInv, ShapeInv, Read, OptionInv,
         EveryOptionHasItsSource, Settled
<1>2. Inv /\ [Next]_vars => Inv'
  BY SourceInvStep
<1>3. Inv => EveryOptionHasItsSource
  BY DEF SourceInv
<1> QED  BY <1>1, <1>2, <1>3, PTL DEF Spec

LEMMA TagStep ==
    ASSUME situation \in Situations, SourceInv, TagsAreTruthful, [Next]_vars
    PROVE  TagsAreTruthful'
<1>1. CASE FinalizeRunCatalog /\ stage' = "solvers"
  <2>1. stage = "catalog" /\ situation' = situation /\ TagIsAllowed /\ Read
        /\ args' = [args EXCEPT !.option["release_tag"] = EffectiveTag]
    BY <1>1 DEF FinalizeRunCatalog, Read
  <2>2. /\ args = [benchmark |-> args.benchmark, config |-> args.config,
                   option |-> args.option]
        /\ args.option = [k \in Keys |-> args.option[k]]
        /\ SpecName \in Benchmarks
    BY <2>1, ValueOfSingleton DEF SourceInv, ShapeInv, SpecName
  <2>3. /\ args'.benchmark = args.benchmark
        /\ args'.option = [args.option EXCEPT !["release_tag"] = EffectiveTag]
    BY <2>1, <2>2
  <2>4. /\ args'.option["release_tag"] = EffectiveTag
        /\ args'.option["run_kind"] = args.option["run_kind"]
    BY <2>2, <2>3, KeyFacts
  <2>5. args.option["release_tag"] =
            IF Given("release_tag") # {} THEN Given("release_tag")
            ELSE InFile("release_tag")
    BY <2>1, <2>2, KeyFacts DEF SourceInv, OptionInv, Asked
  <2>6. /\ Given("release_tag")' = Given("release_tag")
        /\ InFile("release_tag")' = InFile("release_tag")
    <3>1. command' = command
      BY <2>1 DEF command
    <3>2. ConfigPath' = ConfigPath /\ SpecName' = SpecName
      BY <2>3, <3>1 DEF ConfigPath, SpecName
    <3> QED  BY <2>1, <3>1, <3>2 DEF Given, InFile, WrittenIn
  <2>7. /\ EffectiveTag \cap Blank = {}
        /\ args.option["run_kind"] = {"tag"} <=> EffectiveTag # {}
    BY <2>1 DEF TagIsAllowed
  <2>8. /\ Given("release_tag") # {} => EffectiveTag = Given("release_tag")
        /\ EffectiveTag \subseteq Given("release_tag") \cup InFile("release_tag")
    BY <2>5 DEF EffectiveTag
  <2> QED  BY <2>4, <2>6, <2>7, <2>8 DEF TagsAreTruthful, Blank
<1>2. CASE Checking \/ UNCHANGED vars
  <2>1. situation' = situation /\ args' = args /\ (Settled' => Settled)
    BY <1>2, CheckingFrame DEF vars, Settled
  <2>2. command' = command
    BY <2>1 DEF command
  <2>3. ConfigPath' = ConfigPath /\ SpecName' = SpecName
    BY <2>1, <2>2 DEF ConfigPath, SpecName
  <2>4. /\ Given("release_tag")' = Given("release_tag")
        /\ InFile("release_tag")' = InFile("release_tag")
    BY <2>1, <2>2, <2>3 DEF Given, InFile, WrittenIn
  <2> QED  BY <2>1, <2>4 DEF TagsAreTruthful, Blank
<1>3. CASE ~ Settled'
  BY <1>3 DEF TagsAreTruthful
<1>4. LoadConfig \/ ParseArguments \/ ApplyConfig \/ FinalizeDefaults
        \/ (FinalizeRunCatalog /\ stage' # "solvers") => ~ Settled'
  BY DEF LoadConfig, ParseArguments, ApplyConfig, FinalizeDefaults,
         FinalizeRunCatalog, Settled
<1> QED  BY <1>1, <1>2, <1>3, <1>4 DEF Next, Checking

(* README.md 494-498: for every command and file, a run has a tag exactly   *)
(* when it is a tag run, and the tag is one that somebody gave.             *)
THEOREM RunTagsAreTruthful == Spec => []TagsAreTruthful
<1> DEFINE Inv == situation \in Situations /\ SourceInv /\ TagsAreTruthful
<1>1. Init => Inv
  BY DEF Init, SourceInv, ConfigInv, ShapeInv, Read, OptionInv,
         EveryOptionHasItsSource, TagsAreTruthful, Settled
<1>2. Inv /\ [Next]_vars => Inv'
  BY SourceInvStep, TagStep
<1>3. Inv => TagsAreTruthful
  OBVIOUS
<1> QED  BY <1>1, <1>2, <1>3, PTL DEF Spec

(* A refusal by the tag rules has a reason the README names. *)
LEMMA TagRefusalStep ==
    ASSUME situation \in Situations, SourceInv, Next,
           stage = "catalog", stage' = "refused"
    PROVE  LET tag == Asked("release_tag")
               kind == Asked("run_kind")
           IN  \/ tag \cap Blank # {}
               \/ kind = {"tag"} /\ tag = {}
               \/ /\ kind # {"tag"} /\ tag # {}
                  /\ Given("release_tag") # {} \/ Given("run_kind") = {}
<1>1. FinalizeRunCatalog
  BY DEF Next, LoadConfig, ParseArguments, ApplyConfig, FinalizeDefaults,
         ValidateSolvers, ConfigureLogging, SelectCases, BuildMatrix, ValidateVersions
<1>2. ~ TagIsAllowed
  BY <1>1 DEF FinalizeRunCatalog
<1>3. SpecName \in Benchmarks
  BY ValueOfSingleton DEF SourceInv, ShapeInv, Read, SpecName
<1>4. /\ args.option["release_tag"] = Asked("release_tag")
      /\ args.option["run_kind"] = Asked("run_kind")
  BY <1>3, KeyFacts DEF SourceInv, OptionInv
<1> QED  BY <1>2, <1>4 DEF TagIsAllowed, EffectiveTag

(* README.md 496-498: for every command and file, the tag rules refuse only *)
(* what the README says they refuse.                                        *)
THEOREM TagRulesRefuseOnlyMistakes == Spec => TagFileFitsOtherKinds
<1> DEFINE Inv == situation \in Situations /\ SourceInv
<1>1. Init => Inv
  BY DEF Init, SourceInv, ConfigInv, ShapeInv, Read, OptionInv,
         EveryOptionHasItsSource, Settled
<1>2. Inv /\ [Next]_vars => Inv'
  BY SourceInvStep
<1> DEFINE Reason ==
        LET tag == Asked("release_tag")
            kind == Asked("run_kind")
        IN  \/ tag \cap Blank # {}
            \/ kind = {"tag"} /\ tag = {}
            \/ /\ kind # {"tag"} /\ tag # {}
               /\ Given("release_tag") # {} \/ Given("run_kind") = {}
<1>3. Inv /\ [Next]_vars => [stage = "catalog" /\ stage' = "refused" => Reason]_vars
  BY TagRefusalStep DEF vars
<1> QED  BY <1>1, <1>2, <1>3, PTL DEF Spec, TagFileFitsOtherKinds

-----------------------------------------------------------------------------
(* The lists of Selection: what Keep and AddAll leave.                      *)
KeepStep(seq, S, f) ==
    [i \in 0 .. Len(seq) |->
        IF i = 0 THEN <<>>
        ELSE IF seq[i] \in S THEN Append(f[i - 1], seq[i]) ELSE f[i - 1]]

LEMMA KeepIsFixpoint ==
    ASSUME NEW seq, NEW S
    PROVE  Keep(seq, S) = (CHOOSE f : f = KeepStep(seq, S, f))[Len(seq)]
BY Zenon DEF Keep, KeepStep

LEMMA KeepDefined ==
    ASSUME NEW A, NEW seq \in Seq(A), NEW S
    PROVE  \E f \in [0 .. Len(seq) -> Seq(A)] : f = KeepStep(seq, S, f)
<1> DEFINE n == Len(seq)
           g == [p \in (1 .. n) \X Seq(A) |->
                    IF seq[p[1]] \in S THEN Append(p[2], seq[p[1]]) ELSE p[2]]
<1>1. n \in Nat /\ <<>> \in Seq(A) /\ \A i \in 1 .. n : seq[i] \in A
  OBVIOUS
<1>2. ASSUME NEW i \in 1 .. n, NEW s \in Seq(A)
      PROVE  g[<<i, s>>] = IF seq[i] \in S THEN Append(s, seq[i]) ELSE s
  OBVIOUS
<1>3. g \in [(1 .. n) \X Seq(A) -> Seq(A)]
  <2>1. \A p \in (1 .. n) \X Seq(A) : g[p] \in Seq(A)
    <3> SUFFICES ASSUME NEW i \in 1 .. n, NEW s \in Seq(A) PROVE g[<<i, s>>] \in Seq(A)
      OBVIOUS
    <3>1. Append(s, seq[i]) \in Seq(A)
      BY <1>1
    <3> HIDE DEF g
    <3> QED BY <1>2, <3>1
  <2> QED BY <2>1
<1> HIDE DEF g, n
<1>4. PICK f \in [0 .. n -> Seq(A)] :
         f[0] = <<>> /\ \A i \in 1 .. n : f[i] = g[<<i, f[i - 1]>>]
  <2>1. IsStepOn(g, Seq(A), n)
    BY <1>3 DEF IsStepOn
  <2>2. PICK f : IsTrace(f, g, <<>>, Seq(A), n)
    BY <1>1, <2>1, Iterates
  <2> QED BY <2>2 DEF IsTrace
<1>5. \A i \in 0 .. n : i = 0 \/ (i \in 1 .. n /\ i # 0 /\ i - 1 \in 0 .. n)
  BY <1>1, SMT
<1>6. \A i \in 0 .. n :
         f[i] = IF i = 0 THEN <<>>
                ELSE IF seq[i] \in S THEN Append(f[i - 1], seq[i]) ELSE f[i - 1]
  BY <1>2, <1>4, <1>5
<1>7. f = [i \in 0 .. n |-> f[i]]
  OBVIOUS
<1>8. f = KeepStep(seq, S, f)
  BY <1>6, <1>7, Zenon DEF KeepStep, n
<1> QED
  BY <1>8 DEF n

(* Where the entries of s come from: each from a place of its own among the *)
(* first i of seq, and every place with an entry of S is taken.             *)
Drawn(h, s, seq, S, i) ==
    /\ h \in [DOMAIN s -> 1 .. i]
    /\ \A p \in DOMAIN s : s[p] = seq[h[p]] /\ s[p] \in S
    /\ \A p, q \in DOMAIN s : h[p] = h[q] => p = q
    /\ \A j \in 1 .. i : seq[j] \in S => \E p \in DOMAIN s : h[p] = j

LEMMA OneMoreKept ==
    ASSUME NEW A, NEW s \in Seq(A), NEW seq, NEW S, NEW i \in Nat \ {0},
           seq[i] \in A, NEW h, Drawn(h, s, seq, S, i - 1)
    PROVE  /\ seq[i] \in S => \E g : Drawn(g, Append(s, seq[i]), seq, S, i)
           /\ seq[i] \notin S => Drawn(h, s, seq, S, i)
<1>1. /\ h \in [DOMAIN s -> 1 .. i - 1]
      /\ \A p \in DOMAIN s : s[p] = seq[h[p]] /\ s[p] \in S
      /\ \A p, q \in DOMAIN s : h[p] = h[q] => p = q
      /\ \A j \in 1 .. i - 1 : seq[j] \in S => \E p \in DOMAIN s : h[p] = j
  BY DEF Drawn
<1>2. /\ \A j \in 1 .. i : j = i \/ j \in 1 .. i - 1
      /\ \A j \in 1 .. i - 1 : j \in 1 .. i /\ j # i
      /\ i \in 1 .. i
  BY SMT
<1>3. ASSUME seq[i] \notin S PROVE Drawn(h, s, seq, S, i)
  BY <1>1, <1>2, <1>3 DEF Drawn
<1>4. ASSUME seq[i] \in S PROVE \E g : Drawn(g, Append(s, seq[i]), seq, S, i)
  <2> DEFINE t == Append(s, seq[i])
             n == Len(s)
             g == [p \in DOMAIN t |-> IF p = n + 1 THEN i ELSE h[p]]
  <2>1. /\ n \in Nat /\ DOMAIN s = 1 .. n /\ DOMAIN t = 1 .. n + 1
        /\ t[n + 1] = seq[i] /\ \A p \in 1 .. n : t[p] = s[p]
    OBVIOUS
  <2>2. /\ \A p \in 1 .. n + 1 : p = n + 1 \/ p \in 1 .. n
        /\ \A p \in 1 .. n : p \in 1 .. n + 1 /\ p # n + 1
        /\ n + 1 \in 1 .. n + 1
    BY <2>1, SMT
  <2>3. /\ g[n + 1] = i /\ \A p \in 1 .. n : g[p] = h[p]
        /\ g = [p \in DOMAIN t |-> g[p]]
    <3> HIDE DEF t, n
    <3> QED BY <2>1, <2>2
  <2> HIDE DEF t, n, g
  <2>4. \A p \in 1 .. n : h[p] \in 1 .. i - 1 /\ h[p] # i
    BY <1>1, <1>2, <2>1
  <2>5. \A p \in DOMAIN t : g[p] \in 1 .. i
    BY <1>2, <2>1, <2>2, <2>3, <2>4
  <2>6. \A p \in DOMAIN t : t[p] = seq[g[p]] /\ t[p] \in S
    BY <1>1, <1>4, <2>1, <2>2, <2>3
  <2>7. ASSUME NEW p \in DOMAIN t, NEW q \in DOMAIN t, g[p] = g[q] PROVE p = q
    <3>1. CASE p \in 1 .. n /\ q \in 1 .. n
      <4>1. h[p] = h[q]
        BY <2>3, <2>7, <3>1
      <4>2. p \in DOMAIN s /\ q \in DOMAIN s
        BY <2>1, <3>1
      <4> QED BY <1>1, <4>1, <4>2, Zenon
    <3>2. CASE p = n + 1 \/ q = n + 1
      <4>1. CASE p = n + 1 /\ q \in 1 .. n
        BY <2>3, <2>4, <2>7, <4>1
      <4>2. CASE q = n + 1 /\ p \in 1 .. n
        BY <2>3, <2>4, <2>7, <4>2
      <4> QED BY <2>1, <2>2, <3>2, <4>1, <4>2
    <3> QED BY <2>1, <2>2, <3>1, <3>2
  <2>8. ASSUME NEW j \in 1 .. i, seq[j] \in S PROVE \E p \in DOMAIN t : g[p] = j
    <3>1. CASE j = i
      BY <2>1, <2>2, <2>3, <3>1
    <3>2. CASE j \in 1 .. i - 1
      <4>1. PICK p \in DOMAIN s : h[p] = j
        BY <1>1, <2>8, <3>2
      <4> QED BY <2>1, <2>2, <2>3, <4>1
    <3> QED BY <1>2, <3>1, <3>2
  <2>9. g \in [DOMAIN t -> 1 .. i]
    BY <2>3, <2>5
  <2>10. Drawn(g, t, seq, S, i)
    BY <2>6, <2>7, <2>8, <2>9 DEF Drawn
  <2> QED BY <2>10 DEF t
<1> QED
  BY <1>3, <1>4

LEMMA KeepFacts ==
    ASSUME NEW A, NEW seq \in Seq(A), NEW S
    PROVE  /\ Keep(seq, S) \in Seq(A)
           /\ \E h : Drawn(h, Keep(seq, S), seq, S, Len(seq))
<1> DEFINE n == Len(seq)
           f == CHOOSE e : e = KeepStep(seq, S, e)
<1>1. n \in Nat /\ \A i \in 1 .. n : seq[i] \in A
  OBVIOUS
<1>2. f = KeepStep(seq, S, f)
  BY KeepDefined, Zenon
<1>3. Keep(seq, S) = f[n]
  BY KeepIsFixpoint
<1> HIDE DEF n, f
<1>4. \A i \in 0 .. n :
         f[i] = IF i = 0 THEN <<>>
                ELSE IF seq[i] \in S THEN Append(f[i - 1], seq[i]) ELSE f[i - 1]
  BY <1>2, Zenon DEF KeepStep, n
<1> DEFINE Fine(i) == f[i] \in Seq(A) /\ \E h : Drawn(h, f[i], seq, S, i)
           T == {i \in Nat : Fine(i)}
<1>5. Fine(0)
  <2>1. f[0] = <<>> /\ <<>> \in Seq(A)
    BY <1>1, <1>4
  <2> DEFINE h == [p \in {} |-> p]
  <2>2. DOMAIN <<>> = {} /\ 1 .. 0 = {}
    OBVIOUS
  <2>3. Drawn(h, <<>>, seq, S, 0)
    BY <2>2 DEF Drawn
  <2> HIDE DEF h
  <2> QED BY <2>1, <2>3
<1>6. ASSUME NEW i \in 1 .. n, Fine(i - 1) PROVE Fine(i)
  <2>1. i \in 0 .. n /\ i \in Nat \ {0}
    BY <1>1, SMT
  <2>2. f[i] = IF seq[i] \in S THEN Append(f[i - 1], seq[i]) ELSE f[i - 1]
    BY <1>4, <2>1
  <2>3. f[i - 1] \in Seq(A) /\ seq[i] \in A
    BY <1>1, <1>6
  <2>4. PICK h : Drawn(h, f[i - 1], seq, S, i - 1)
    BY <1>6
  <2>5. /\ seq[i] \in S => \E g : Drawn(g, Append(f[i - 1], seq[i]), seq, S, i)
        /\ seq[i] \notin S => Drawn(h, f[i - 1], seq, S, i)
    BY <2>1, <2>3, <2>4, OneMoreKept
  <2>6. Append(f[i - 1], seq[i]) \in Seq(A)
    BY <2>3
  <2> QED BY <2>2, <2>3, <2>5, <2>6
<1>7. n \in T
  <2>1. 0 \in T
    BY <1>5
  <2>2. \A i \in 1 .. n : i - 1 \in T => i \in T
    <3>1. \A i \in 1 .. n : i \in Nat
      BY SMT
    <3> HIDE DEF Fine
    <3> QED BY <1>6, <3>1
  <2> HIDE DEF T
  <2> QED BY <1>1, <2>1, <2>2, UpTo
<1> QED
  BY <1>3, <1>7 DEF n

(* What is kept is what is in S, and what does not repeat does not repeat.  *)
LEMMA KeepHolds ==
    ASSUME NEW A, NEW seq \in Seq(A), NEW S
    PROVE  /\ Keep(seq, S) \in Seq(A)
           /\ \A x : x \in Range(Keep(seq, S)) <=> x \in Range(seq) /\ x \in S
           /\ Distinct(seq) => Distinct(Keep(seq, S))
<1> DEFINE s == Keep(seq, S)
<1>1. PICK h : Drawn(h, s, seq, S, Len(seq))
  BY KeepFacts
<1>2. s \in Seq(A) /\ DOMAIN seq = 1 .. Len(seq)
  BY KeepFacts
<1> HIDE DEF s
<1>3. /\ \A p \in DOMAIN s : h[p] \in DOMAIN seq /\ s[p] = seq[h[p]] /\ s[p] \in S
      /\ \A p, q \in DOMAIN s : h[p] = h[q] => p = q
      /\ \A j \in DOMAIN seq : seq[j] \in S => \E p \in DOMAIN s : h[p] = j
  BY <1>1, <1>2 DEF Drawn
<1>4. ASSUME NEW e \in Range(seq), e \in S PROVE e \in Range(s)
  <2>1. PICK j \in DOMAIN seq : seq[j] = e
    BY DEF Range
  <2>2. PICK p \in DOMAIN s : h[p] = j
    BY <1>3, <1>4, <2>1
  <2> QED BY <1>3, <2>1, <2>2 DEF Range
<1>5. ASSUME NEW e \in Range(s) PROVE e \in Range(seq) /\ e \in S
  <2>1. PICK p \in DOMAIN s : s[p] = e
    BY DEF Range
  <2> QED BY <1>3, <2>1 DEF Range
<1>6. ASSUME Distinct(seq) PROVE Distinct(s)
  BY <1>3, <1>6 DEF Distinct
<1> QED
  BY <1>2, <1>4, <1>5, <1>6 DEF s

AddStep(base, seq, f) ==
    [i \in 0 .. Len(seq) |-> IF i = 0 THEN base ELSE AddNew(f[i - 1], seq[i])]

LEMMA AddIsFixpoint ==
    ASSUME NEW base, NEW seq
    PROVE  AddAll(base, seq) = (CHOOSE f : f = AddStep(base, seq, f))[Len(seq)]
BY Zenon DEF AddAll, AddStep

LEMMA AddNewFacts ==
    ASSUME NEW A, NEW s \in Seq(A), NEW e \in A
    PROVE  /\ AddNew(s, e) \in Seq(A)
           /\ \A a : a \in Range(AddNew(s, e)) <=> a \in Range(s) \/ a = e
           /\ Distinct(s) => Distinct(AddNew(s, e))
<1>1. CASE e \in Range(s)
  BY <1>1 DEF AddNew
<1>2. CASE e \notin Range(s)
  <2> DEFINE t == Append(s, e)
             n == Len(s)
  <2>1. /\ t \in Seq(A) /\ n \in Nat /\ DOMAIN s = 1 .. n /\ DOMAIN t = 1 .. n + 1
        /\ t[n + 1] = e /\ \A p \in 1 .. n : t[p] = s[p]
    OBVIOUS
  <2>2. AddNew(s, e) = t
    BY <1>2 DEF AddNew
  <2> HIDE DEF t, n
  <2>3. /\ \A p \in 1 .. n + 1 : p = n + 1 \/ p \in 1 .. n
        /\ \A p \in 1 .. n : p \in 1 .. n + 1
        /\ n + 1 \in 1 .. n + 1
    BY <2>1, SMT
  <2>4. \A p \in 1 .. n : s[p] # e
    BY <1>2, <2>1 DEF Range
  <2>5. ASSUME NEW a PROVE a \in Range(t) <=> a \in Range(s) \/ a = e
    <3>1. a \in Range(t) <=> \E p \in 1 .. n + 1 : t[p] = a
      BY <2>1 DEF Range
    <3>2. a \in Range(s) <=> \E p \in 1 .. n : s[p] = a
      BY <2>1 DEF Range
    <3> QED BY <2>1, <2>3, <3>1, <3>2
  <2>6. Distinct(s) => Distinct(t)
    BY <2>1, <2>3, <2>4 DEF Distinct
  <2> QED BY <2>1, <2>2, <2>5, <2>6
<1> QED BY <1>1, <1>2

LEMMA AddDefined ==
    ASSUME NEW A, NEW base \in Seq(A), NEW seq \in Seq(A)
    PROVE  \E f : f = AddStep(base, seq, f)
<1> DEFINE n == Len(seq)
           g == [p \in (1 .. n) \X Seq(A) |-> AddNew(p[2], seq[p[1]])]
<1>1. n \in Nat /\ \A i \in 1 .. n : seq[i] \in A
  OBVIOUS
<1>2. ASSUME NEW i \in 1 .. n, NEW s \in Seq(A)
      PROVE  g[<<i, s>>] = AddNew(s, seq[i])
  OBVIOUS
<1>3. g \in [(1 .. n) \X Seq(A) -> Seq(A)]
  <2>1. \A p \in (1 .. n) \X Seq(A) : g[p] \in Seq(A)
    <3> SUFFICES ASSUME NEW i \in 1 .. n, NEW s \in Seq(A) PROVE g[<<i, s>>] \in Seq(A)
      OBVIOUS
    <3>1. AddNew(s, seq[i]) \in Seq(A)
      BY <1>1, AddNewFacts
    <3> HIDE DEF g
    <3> QED BY <1>2, <3>1
  <2> QED BY <2>1
<1> HIDE DEF g, n
<1>4. PICK f \in [0 .. n -> Seq(A)] :
         f[0] = base /\ \A i \in 1 .. n : f[i] = g[<<i, f[i - 1]>>]
  <2>1. IsStepOn(g, Seq(A), n)
    BY <1>3 DEF IsStepOn
  <2>2. PICK f : IsTrace(f, g, base, Seq(A), n)
    BY <1>1, <2>1, Iterates
  <2> QED BY <2>2 DEF IsTrace
<1>5. \A i \in 0 .. n : i = 0 \/ (i \in 1 .. n /\ i # 0 /\ i - 1 \in 0 .. n)
  BY <1>1, SMT
<1>6. \A i \in 0 .. n : f[i] = IF i = 0 THEN base ELSE AddNew(f[i - 1], seq[i])
  BY <1>2, <1>4, <1>5
<1>7. f = [i \in 0 .. n |-> f[i]]
  OBVIOUS
<1>8. f = AddStep(base, seq, f)
  BY <1>6, <1>7, Zenon DEF AddStep, n
<1> QED
  BY <1>8

LEMMA AddAllFacts ==
    ASSUME NEW A, NEW base \in Seq(A), NEW seq \in Seq(A)
    PROVE  /\ AddAll(base, seq) \in Seq(A)
           /\ \A a : a \in Range(AddAll(base, seq)) <=> a \in Range(base) \/ a \in Range(seq)
           /\ Distinct(base) => Distinct(AddAll(base, seq))
<1> DEFINE n == Len(seq)
           f == CHOOSE e : e = AddStep(base, seq, e)
<1>1. n \in Nat /\ (\A i \in 1 .. n : seq[i] \in A) /\ DOMAIN seq = 1 .. n
  OBVIOUS
<1>2. f = AddStep(base, seq, f)
  BY AddDefined, Zenon
<1>3. AddAll(base, seq) = f[n]
  BY AddIsFixpoint
<1> HIDE DEF n, f
<1>4. \A i \in 0 .. n : f[i] = IF i = 0 THEN base ELSE AddNew(f[i - 1], seq[i])
  BY <1>2, Zenon DEF AddStep, n
<1> DEFINE Has(i) ==
               \A a : a \in Range(f[i]) <=> a \in Range(base) \/ \E j \in 1 .. i : seq[j] = a
           Fine(i) == f[i] \in Seq(A) /\ Has(i) /\ (Distinct(base) => Distinct(f[i]))
           T == {i \in Nat : Fine(i)}
<1>5. Fine(0)
  <2>1. f[0] = base
    BY <1>1, <1>4
  <2>2. 1 .. 0 = {}
    BY SMT
  <2> QED BY <2>1, <2>2
<1>6. ASSUME NEW i \in 1 .. n, Fine(i - 1) PROVE Fine(i)
  <2>1. i \in 0 .. n /\ i # 0
    BY <1>1, SMT
  <2>2. f[i] = AddNew(f[i - 1], seq[i])
    BY <1>4, <2>1
  <2>3. f[i - 1] \in Seq(A) /\ seq[i] \in A /\ Has(i - 1)
        /\ (Distinct(base) => Distinct(f[i - 1]))
    BY <1>1, <1>6
  <2>4. /\ f[i] \in Seq(A)
        /\ \A a : a \in Range(f[i]) <=> a \in Range(f[i - 1]) \/ a = seq[i]
        /\ Distinct(f[i - 1]) => Distinct(f[i])
    <3> DEFINE s == f[i - 1]
               e == seq[i]
    <3>1. f[i] = AddNew(s, e) /\ s \in Seq(A) /\ e \in A
      BY <2>2, <2>3
    <3> HIDE DEF s, e
    <3>2. /\ AddNew(s, e) \in Seq(A)
          /\ \A a : a \in Range(AddNew(s, e)) <=> a \in Range(s) \/ a = e
          /\ Distinct(s) => Distinct(AddNew(s, e))
      BY <3>1, AddNewFacts
    <3> QED BY <3>1, <3>2 DEF s, e
  <2>5. /\ \A j \in 1 .. i : j = i \/ j \in 1 .. i - 1
        /\ \A j \in 1 .. i - 1 : j \in 1 .. i
        /\ i \in 1 .. i
    BY <1>1, SMT
  <2>6. Has(i)
    BY <2>3, <2>4, <2>5
  <2> QED BY <2>3, <2>4, <2>6
<1>7. n \in T
  <2>1. 0 \in T
    BY <1>5
  <2>2. \A i \in 1 .. n : i - 1 \in T => i \in T
    <3>1. \A i \in 1 .. n : i \in Nat
      BY SMT
    <3> HIDE DEF Fine
    <3> QED BY <1>6, <3>1
  <2> HIDE DEF T
  <2> QED BY <1>1, <2>1, <2>2, UpTo
<1>8. \A a : a \in Range(seq) <=> \E j \in 1 .. n : seq[j] = a
  BY <1>1 DEF Range
<1> QED
  BY <1>3, <1>7, <1>8

(* The same, of lists without a type.                                       *)
LEMMA ListFacts ==
    ASSUME NEW s, IsList(s)
    PROVE  /\ Len(s) \in Nat /\ DOMAIN s = 1 .. Len(s)
           /\ \A A : Range(s) \subseteq A => s \in Seq(A)
           /\ HasNoDuplicates(s) <=> Distinct(s)
<1>1. Len(s) \in Nat /\ DOMAIN s = 1 .. Len(s)
  BY DEF IsList
<1>2. ASSUME NEW A, Range(s) \subseteq A PROVE s \in Seq(A)
  BY <1>2 DEF IsList
<1>3. HasNoDuplicates(s) <=> Distinct(s)
  BY <1>1 DEF HasNoDuplicates, Distinct
<1> QED BY <1>1, <1>2, <1>3

LEMMA ListIs ==
    ASSUME NEW A, NEW s \in Seq(A)
    PROVE  IsList(s)
BY DEF IsList, Range

LEMMA MapIsList ==
    ASSUME NEW s, IsList(s), NEW f, f = [i \in DOMAIN s |-> f[i]]
    PROVE  IsList(f)
<1>1. Len(s) \in Nat /\ DOMAIN s = 1 .. Len(s)
  BY ListFacts
<1>2. f \in [1 .. Len(s) -> Range(f)]
  BY <1>1 DEF Range
<1> QED BY <1>1, <1>2 DEF IsList

LEMMA KeepOfList ==
    ASSUME NEW s, IsList(s), NEW S
    PROVE  /\ IsList(Keep(s, S))
           /\ \A a : a \in Range(Keep(s, S)) <=> a \in Range(s) /\ a \in S
           /\ Distinct(s) => Distinct(Keep(s, S))
<1>1. s \in Seq(Range(s))
  BY DEF IsList
<1>2. /\ Keep(s, S) \in Seq(Range(s))
      /\ \A x : x \in Range(Keep(s, S)) <=> x \in Range(s) /\ x \in S
      /\ Distinct(s) => Distinct(Keep(s, S))
  BY <1>1, KeepHolds
<1> QED BY <1>2, ListIs

LEMMA AddAllOfLists ==
    ASSUME NEW s, IsList(s), NEW t, IsList(t)
    PROVE  /\ IsList(AddAll(s, t))
           /\ \A a : a \in Range(AddAll(s, t)) <=> a \in Range(s) \/ a \in Range(t)
           /\ Distinct(s) => Distinct(AddAll(s, t))
<1> DEFINE A == Range(s) \union Range(t)
<1>1. s \in Seq(A) /\ t \in Seq(A)
  BY ListFacts
<1>2. /\ AddAll(s, t) \in Seq(A)
      /\ \A a : a \in Range(AddAll(s, t)) <=> a \in Range(s) \/ a \in Range(t)
      /\ Distinct(s) => Distinct(AddAll(s, t))
  BY <1>1, AddAllFacts
<1> QED BY <1>2, ListIs

LEMMA ConcatOfLists ==
    ASSUME NEW s, IsList(s), NEW t, IsList(t)
    PROVE  /\ IsList(s \o t)
           /\ \A a : a \in Range(s \o t) <=> a \in Range(s) \/ a \in Range(t)
<1> DEFINE A == Range(s) \union Range(t)
           n == Len(s)
           m == Len(t)
           u == s \o t
<1>1. s \in Seq(A) /\ t \in Seq(A)
  BY ListFacts
<1>2. /\ u \in Seq(A) /\ n \in Nat /\ m \in Nat
      /\ DOMAIN s = 1 .. n /\ DOMAIN t = 1 .. m /\ DOMAIN u = 1 .. n + m
      /\ \A p \in 1 .. n : u[p] = s[p]
      /\ \A p \in 1 .. m : u[n + p] = t[p]
  <2> HIDE DEF A
  <2> QED BY <1>1
<1> HIDE DEF u, n, m
<1>3. IsList(u)
  BY <1>2, ListIs
<1>4. /\ \A p \in 1 .. n + m : p \in 1 .. n \/ (p - n \in 1 .. m /\ p = n + (p - n))
      /\ \A p \in 1 .. n : p \in 1 .. n + m
      /\ \A p \in 1 .. m : n + p \in 1 .. n + m
  BY <1>2, SMT
<1>5. ASSUME NEW a PROVE a \in Range(u) <=> a \in Range(s) \/ a \in Range(t)
  <2>1. /\ a \in Range(s) <=> \E p \in 1 .. n : s[p] = a
        /\ a \in Range(t) <=> \E p \in 1 .. m : t[p] = a
        /\ a \in Range(u) <=> \E p \in 1 .. n + m : u[p] = a
    BY <1>2 DEF Range
  <2>2. ASSUME a \in Range(u) PROVE a \in Range(s) \/ a \in Range(t)
    <3>1. PICK p \in 1 .. n + m : u[p] = a
      BY <2>1, <2>2
    <3>2. CASE p \in 1 .. n
      BY <1>2, <2>1, <3>1, <3>2
    <3>3. CASE p - n \in 1 .. m /\ p = n + (p - n)
      <4>1. u[n + (p - n)] = t[p - n]
        BY <1>2, <3>3
      <4> QED BY <2>1, <3>1, <3>3, <4>1
    <3> QED BY <1>4, <3>2, <3>3
  <2> QED BY <1>2, <1>4, <2>1, <2>2
<1> QED BY <1>3, <1>5 DEF u

LEMMA FlattenOfLists ==
    ASSUME NEW rows, IsList(rows), \A i \in DOMAIN rows : IsList(rows[i])
    PROVE  /\ IsList(FlattenSeq(rows))
           /\ \A a : a \in Range(FlattenSeq(rows))
                        <=> \E i \in DOMAIN rows : a \in Range(rows[i])
           /\ NoneTwice(rows) => Distinct(FlattenSeq(rows))
<1> DEFINE A == UNION {Range(rows[i]) : i \in DOMAIN rows}
<1>1. Len(rows) \in Nat /\ DOMAIN rows = 1 .. Len(rows)
  BY ListFacts
<1>2. rows \in Seq(Seq(A))
  <2>1. \A i \in DOMAIN rows : rows[i] \in Seq(A)
    BY ListFacts
  <2>2. Range(rows) \subseteq Seq(A)
    BY <2>1 DEF Range
  <2> QED BY <2>2, ListFacts
<1> HIDE DEF A
<1>3. CASE Len(rows) = 0
  <2>1. FlattenSeq(rows) = rows /\ DOMAIN rows = {}
    BY <1>1, <1>3 DEF FlattenSeq
  <2> QED BY <2>1 DEF Range, Distinct
<1>4. CASE Len(rows) # 0
  <2> DEFINE u == FlattenSeq(rows)
  <2>1. u \in Seq(A)
    BY <1>2, <1>4, FlattenFacts
  <2>2. /\ \A i \in DOMAIN rows : \A k \in DOMAIN rows[i] :
              \E p \in DOMAIN u : u[p] = rows[i][k]
        /\ \A p \in DOMAIN u : \E i \in DOMAIN rows : \E k \in DOMAIN rows[i] :
              u[p] = rows[i][k]
        /\ Distinct(u) <=> NoneTwice(rows)
    BY <1>2, <1>4, FlattenHolds
  <2> HIDE DEF u
  <2>3. ASSUME NEW a
        PROVE  a \in Range(u) <=> \E i \in DOMAIN rows : a \in Range(rows[i])
    <3>1. ASSUME a \in Range(u) PROVE \E i \in DOMAIN rows : a \in Range(rows[i])
      <4>1. PICK p \in DOMAIN u : u[p] = a
        BY <3>1 DEF Range
      <4>2. PICK i \in DOMAIN rows : \E k \in DOMAIN rows[i] : u[p] = rows[i][k]
        BY <2>2, <4>1
      <4> QED BY <4>1, <4>2 DEF Range
    <3>2. ASSUME NEW i \in DOMAIN rows, a \in Range(rows[i]) PROVE a \in Range(u)
      <4>1. PICK k \in DOMAIN rows[i] : rows[i][k] = a
        BY <3>2 DEF Range
      <4> QED BY <2>2, <4>1 DEF Range
    <3> QED BY <3>1, <3>2
  <2> QED BY <2>1, <2>2, <2>3, ListIs DEF u
<1> QED BY <1>3, <1>4

(* Which tuples the corpus enumerates, without the lists.                   *)
Leads(emp, f, w) == /\ emp.shipped[f] = <<>> /\ Len(emp.weeks[f]) >= emp.length[f]
                    /\ w = SubSeq(emp.weeks[f], 1, emp.length[f])
IsDeclared(emp, f, h, w) ==
    \E e \in Range(Entries(emp)) : /\ e.form = "tuple" /\ e.name.family = f
                                   /\ e.name.history = h /\ e.name.weeks = w
IsShipped(emp, f, t) ==
    \E d \in Range(emp.shipped[f]) :
        /\ d.parsed /\ d.history \in Range(emp.histories[f])
        /\ HasWeeks(emp, f, d.weeks)
        /\ t = [family |-> f, history |-> d.history, weeks |-> d.weeks]
IsListed(emp, f, h, t) ==
    \E w : /\ Leads(emp, f, w) \/ (IsDeclared(emp, f, h, w) /\ HasWeeks(emp, f, w))
           /\ t = [family |-> f, history |-> h, weeks |-> w]
IsOfFamily(emp, f, t) ==
    IsShipped(emp, f, t) \/ \E h \in Range(emp.histories[f]) : IsListed(emp, f, h, t)

LEMMA LeadingFacts ==
    ASSUME NEW emp, WellFormed(emp), NEW f \in Range(emp.families)
    PROVE  /\ IsList(LeadingWeeks(emp, f))
           /\ \A w : w \in Range(LeadingWeeks(emp, f)) <=> Leads(emp, f, w)
           /\ \A w : Leads(emp, f, w) => HasWeeks(emp, f, w)
<1> DEFINE lead == SubSeq(emp.weeks[f], 1, emp.length[f])
           leads == emp.shipped[f] = <<>> /\ Len(emp.weeks[f]) >= emp.length[f]
<1>1. LeadingWeeks(emp, f) = IF leads THEN <<lead>> ELSE <<>>
  BY DEF LeadingWeeks
<1>2. \A w : Leads(emp, f, w) <=> leads /\ w = lead
  BY DEF Leads
<1>3. ASSUME leads PROVE HasWeeks(emp, f, lead)
  <2>1. /\ emp.weeks[f] \in Seq(Range(emp.weeks[f])) /\ emp.length[f] \in Nat
        /\ Len(emp.weeks[f]) >= emp.length[f]
    BY <1>3 DEF WellFormed, IsList
  <2>2. lead \in Seq(Range(emp.weeks[f]))
    BY <2>1
  <2> HIDE DEF lead
  <2> QED BY <2>2 DEF HasWeeks, Range
<1> HIDE DEF lead, leads
<1>4. IsList(LeadingWeeks(emp, f))
  <2>1. <<lead>> \in Seq({lead}) /\ <<>> \in Seq({lead})
    OBVIOUS
  <2> QED BY <1>1, <2>1, ListIs
<1>5. /\ \A w : w \in Range(<<lead>>) <=> w = lead
      /\ Range(<<>>) = {}
  BY DEF Range
<1>6. \A w : w \in Range(LeadingWeeks(emp, f)) <=> Leads(emp, f, w)
  BY <1>1, <1>2, <1>5
<1> QED BY <1>2, <1>3, <1>4, <1>6

LEMMA DeclaredFacts ==
    ASSUME NEW emp, WellFormed(emp), NEW f, NEW h
    PROVE  /\ IsList(DeclaredWeeks(emp, f, h))
           /\ \A w : w \in Range(DeclaredWeeks(emp, f, h)) <=> IsDeclared(emp, f, h, w)
<1> DEFINE wanted == {e \in Range(Entries(emp)) : /\ e.form = "tuple"
                                                  /\ e.name.family = f
                                                  /\ e.name.history = h}
           named == Keep(Entries(emp), wanted)
           weeks == [i \in DOMAIN named |-> named[i].name.weeks]
<1>1. DeclaredWeeks(emp, f, h) = AddAll(<<>>, weeks)
  BY Zenon DEF DeclaredWeeks
<1>2. /\ IsList(named)
      /\ \A e : e \in Range(named) <=> e \in Range(Entries(emp)) /\ e \in wanted
  <2> HIDE DEF wanted
  <2> QED BY KeepOfList DEF WellFormed
<1>3. \A e : e \in wanted <=> /\ e \in Range(Entries(emp)) /\ e.form = "tuple"
                              /\ e.name.family = f /\ e.name.history = h
  OBVIOUS
<1> HIDE DEF wanted, named
<1>4. IsList(weeks)
  BY <1>2, MapIsList
<1>5. \A w : w \in Range(weeks) <=> \E e \in Range(named) : e.name.weeks = w
  BY DEF Range
<1> HIDE DEF weeks
<1>6. IsList(<<>>) /\ Range(<<>>) = {}
  BY DEF IsList, Range
<1>7. /\ IsList(AddAll(<<>>, weeks))
      /\ \A w : w \in Range(AddAll(<<>>, weeks)) <=> w \in Range(<<>>) \/ w \in Range(weeks)
  BY <1>4, <1>6, AddAllOfLists
<1>8. \A w : w \in Range(weeks) <=> IsDeclared(emp, f, h, w)
  BY <1>2, <1>3, <1>5 DEF IsDeclared
<1> QED BY <1>1, <1>6, <1>7, <1>8

LEMMA HistoryFacts ==
    ASSUME NEW emp, WellFormed(emp), NEW f \in Range(emp.families), NEW h
    PROVE  /\ IsList(HistoryTuples(emp, f, h))
           /\ \A t : t \in Range(HistoryTuples(emp, f, h)) <=> IsListed(emp, f, h, t)
<1> DEFINE declared == DeclaredWeeks(emp, f, h)
           loadable == {w \in Range(declared) : HasWeeks(emp, f, w)}
           seqs == WeekSequences(emp, f, h)
<1>1. seqs = LeadingWeeks(emp, f) \o Keep(declared, loadable)
  BY Zenon DEF WeekSequences
<1>2. /\ IsList(declared)
      /\ \A w : w \in Range(declared) <=> IsDeclared(emp, f, h, w)
  BY DeclaredFacts
<1>3. \A w : w \in loadable <=> w \in Range(declared) /\ HasWeeks(emp, f, w)
  OBVIOUS
<1> HIDE DEF declared, loadable, seqs
<1>4. /\ IsList(Keep(declared, loadable))
      /\ \A w : w \in Range(Keep(declared, loadable))
                   <=> w \in Range(declared) /\ w \in loadable
  BY <1>2, KeepOfList
<1>5. /\ IsList(seqs)
      /\ \A w : w \in Range(seqs) <=> \/ w \in Range(LeadingWeeks(emp, f))
                                      \/ w \in Range(Keep(declared, loadable))
  BY <1>1, <1>4, LeadingFacts, ConcatOfLists
<1>6. \A w : w \in Range(seqs) <=> \/ Leads(emp, f, w)
                                   \/ IsDeclared(emp, f, h, w) /\ HasWeeks(emp, f, w)
  BY <1>2, <1>3, <1>4, <1>5, LeadingFacts
<1> DEFINE tuples == [i \in DOMAIN seqs |-> [family |-> f, history |-> h, weeks |-> seqs[i]]]
<1>7. HistoryTuples(emp, f, h) = tuples
  BY Zenon DEF HistoryTuples, seqs
<1>8. IsList(tuples)
  BY <1>5, MapIsList
<1>9. \A t : t \in Range(tuples)
         <=> \E w \in Range(seqs) : t = [family |-> f, history |-> h, weeks |-> w]
  BY DEF Range
<1> HIDE DEF tuples
<1>10. \A t : t \in Range(tuples) <=> IsListed(emp, f, h, t)
  BY <1>6, <1>9 DEF IsListed
<1> QED BY <1>7, <1>8, <1>10

LEMMA ShippedFacts ==
    ASSUME NEW emp, WellFormed(emp), NEW f \in Range(emp.families)
    PROVE  /\ IsList(ShippedTuples(emp, f))
           /\ \A t : t \in Range(ShippedTuples(emp, f)) <=> IsShipped(emp, f, t)
           /\ ~ ShipsTwice(emp) => Distinct(ShippedTuples(emp, f))
<1> DEFINE dirs == emp.shipped[f]
           found == {d \in Range(dirs) : /\ d.parsed
                                         /\ d.history \in Range(emp.histories[f])
                                         /\ HasWeeks(emp, f, d.weeks)}
           whole == Keep(dirs, found)
           tuples == [i \in DOMAIN whole |-> [family |-> f, history |-> whole[i].history,
                                              weeks |-> whole[i].weeks]]
<1>1. ShippedTuples(emp, f) = tuples
  BY Zenon DEF ShippedTuples
<1>2. IsList(dirs)
  BY DEF WellFormed
<1>3. \A d : d \in found <=> /\ d \in Range(dirs) /\ d.parsed
                             /\ d.history \in Range(emp.histories[f])
                             /\ HasWeeks(emp, f, d.weeks)
  OBVIOUS
<1>4. ~ ShipsTwice(emp) =>
         \A i, j \in DOMAIN dirs : dirs[i].history = dirs[j].history
                                   /\ dirs[i].weeks = dirs[j].weeks => i = j
  BY DEF ShipsTwice
<1> HIDE DEF dirs, found, whole
<1>5. /\ IsList(whole)
      /\ \A d : d \in Range(whole) <=> d \in Range(dirs) /\ d \in found
  BY <1>2, KeepOfList DEF whole
<1>6. \E s : Drawn(s, whole, dirs, found, Len(dirs))
  <2>1. dirs \in Seq(Range(dirs))
    BY <1>2 DEF IsList
  <2> QED BY <2>1, KeepFacts DEF whole
<1>7. IsList(tuples)
  BY <1>5, MapIsList
<1>8. \A t : t \in Range(tuples)
         <=> \E d \in Range(whole) :
                t = [family |-> f, history |-> d.history, weeks |-> d.weeks]
  BY DEF Range
<1>9. \A t : t \in Range(tuples) <=> IsShipped(emp, f, t)
  <2> HIDE DEF tuples
  <2> QED BY <1>3, <1>5, <1>8 DEF IsShipped, dirs
<1>10. ASSUME ~ ShipsTwice(emp) PROVE Distinct(tuples)
  <2> SUFFICES ASSUME NEW k \in DOMAIN whole, NEW l \in DOMAIN whole,
                      tuples[k] = tuples[l]
               PROVE  k = l
    BY DEF Distinct
  <2>1. PICK s : Drawn(s, whole, dirs, found, Len(dirs))
    BY <1>6
  <2>2. DOMAIN dirs = 1 .. Len(dirs)
    BY <1>2, ListFacts
  <2>3. whole[k].history = whole[l].history /\ whole[k].weeks = whole[l].weeks
    <3>1. /\ tuples[k].history = whole[k].history /\ tuples[k].weeks = whole[k].weeks
          /\ tuples[l].history = whole[l].history /\ tuples[l].weeks = whole[l].weeks
      OBVIOUS
    <3> HIDE DEF tuples
    <3> QED BY <3>1
  <2>4. /\ s[k] \in DOMAIN dirs /\ whole[k] = dirs[s[k]]
        /\ s[l] \in DOMAIN dirs /\ whole[l] = dirs[s[l]]
        /\ s[k] = s[l] => k = l
    BY <2>1, <2>2 DEF Drawn
  <2> HIDE DEF tuples
  <2> QED BY <1>4, <1>10, <2>3, <2>4
<1> QED BY <1>1, <1>7, <1>9, <1>10

LEMMA FamilyFacts ==
    ASSUME NEW emp, WellFormed(emp), NEW f \in Range(emp.families)
    PROVE  /\ IsList(FamilyTuples(emp, f))
           /\ \A t : t \in Range(FamilyTuples(emp, f)) <=> IsOfFamily(emp, f, t)
           /\ ~ ShipsTwice(emp) => Distinct(FamilyTuples(emp, f))
<1> DEFINE hist == emp.histories[f]
           rows == [i \in DOMAIN hist |-> HistoryTuples(emp, f, hist[i])]
<1>1. FamilyTuples(emp, f) = AddAll(ShippedTuples(emp, f), FlattenSeq(rows))
  BY Zenon DEF FamilyTuples
<1>2. IsList(hist)
  BY DEF WellFormed
<1>3. IsList(rows)
  <2> HIDE DEF hist
  <2> QED BY <1>2, MapIsList
<1>4. /\ DOMAIN rows = DOMAIN hist
      /\ \A i \in DOMAIN hist : rows[i] = HistoryTuples(emp, f, hist[i])
  OBVIOUS
<1> HIDE DEF hist, rows
<1>5. \A i \in DOMAIN rows : /\ IsList(rows[i])
                             /\ \A t : t \in Range(rows[i]) <=> IsListed(emp, f, hist[i], t)
  BY <1>4, HistoryFacts
<1>6. /\ IsList(FlattenSeq(rows))
      /\ \A t : t \in Range(FlattenSeq(rows)) <=> \E i \in DOMAIN rows : t \in Range(rows[i])
  BY <1>3, <1>5, FlattenOfLists
<1>7. \A t : t \in Range(FlattenSeq(rows))
         <=> \E h \in Range(hist) : IsListed(emp, f, h, t)
  BY <1>4, <1>5, <1>6 DEF Range
<1>8. /\ IsList(AddAll(ShippedTuples(emp, f), FlattenSeq(rows)))
      /\ \A t : t \in Range(AddAll(ShippedTuples(emp, f), FlattenSeq(rows)))
                   <=> t \in Range(ShippedTuples(emp, f)) \/ t \in Range(FlattenSeq(rows))
      /\ Distinct(ShippedTuples(emp, f))
            => Distinct(AddAll(ShippedTuples(emp, f), FlattenSeq(rows)))
  BY <1>6, ShippedFacts, AddAllOfLists
<1>9. \A t : t \in Range(FamilyTuples(emp, f)) <=> IsOfFamily(emp, f, t)
  BY <1>1, <1>7, <1>8, ShippedFacts DEF IsOfFamily, hist
<1> QED BY <1>1, <1>8, <1>9, ShippedFacts

LEMMA EnumerationFacts ==
    ASSUME NEW emp, WellFormed(emp)
    PROVE  /\ IsList(EnumerateInstances(emp))
           /\ \A t : t \in Range(EnumerateInstances(emp))
                 <=> \E f \in Range(emp.families) \cap emp.scenarios : IsOfFamily(emp, f, t)
           /\ ~ ShipsTwice(emp) => Distinct(EnumerateInstances(emp))
<1> DEFINE fs == Keep(emp.families, emp.scenarios)
           rows == [i \in DOMAIN fs |-> FamilyTuples(emp, fs[i])]
<1>1. EnumerateInstances(emp) = FlattenSeq(rows)
  BY Zenon DEF EnumerateInstances
<1>2. IsList(emp.families) /\ Distinct(emp.families)
  BY ListFacts DEF WellFormed
<1>3. /\ IsList(fs) /\ Distinct(fs)
      /\ \A f : f \in Range(fs) <=> f \in Range(emp.families) /\ f \in emp.scenarios
  BY <1>2, KeepOfList
<1> HIDE DEF fs
<1>4. IsList(rows)
  BY <1>3, MapIsList
<1>5. /\ DOMAIN rows = DOMAIN fs
      /\ \A i \in DOMAIN fs : rows[i] = FamilyTuples(emp, fs[i])
  OBVIOUS
<1>6. \A i \in DOMAIN fs : fs[i] \in Range(emp.families) /\ fs[i] \in emp.scenarios
  BY <1>3 DEF Range
<1> HIDE DEF rows
<1>7. \A i \in DOMAIN rows :
         /\ IsList(rows[i])
         /\ \A t : t \in Range(rows[i]) <=> IsOfFamily(emp, fs[i], t)
         /\ ~ ShipsTwice(emp) => Distinct(rows[i])
  BY <1>5, <1>6, FamilyFacts
<1>8. /\ IsList(FlattenSeq(rows))
      /\ \A t : t \in Range(FlattenSeq(rows)) <=> \E i \in DOMAIN rows : t \in Range(rows[i])
      /\ NoneTwice(rows) => Distinct(FlattenSeq(rows))
  BY <1>4, <1>7, FlattenOfLists
<1>9. \A t : t \in Range(FlattenSeq(rows))
         <=> \E f \in Range(emp.families) \cap emp.scenarios : IsOfFamily(emp, f, t)
  <2>1. ASSUME NEW t, t \in Range(FlattenSeq(rows))
        PROVE  \E f \in Range(fs) : IsOfFamily(emp, f, t)
    <3>1. PICK i \in DOMAIN rows : t \in Range(rows[i])
      BY <1>8, <2>1
    <3>2. IsOfFamily(emp, fs[i], t) /\ fs[i] \in Range(fs)
      BY <1>5, <1>7, <3>1 DEF Range
    <3> QED BY <3>2
  <2>2. ASSUME NEW f \in Range(fs), NEW t, IsOfFamily(emp, f, t)
        PROVE  t \in Range(FlattenSeq(rows))
    <3>1. PICK i \in DOMAIN rows : fs[i] = f
      BY <1>5 DEF Range
    <3>2. t \in Range(rows[i])
      BY <1>7, <2>2, <3>1
    <3> QED BY <1>8, <3>2
  <2> QED BY <1>3, <2>1, <2>2
<1>10. ASSUME ~ ShipsTwice(emp) PROVE NoneTwice(rows)
  <2>1. \A f, t : IsOfFamily(emp, f, t) => t.family = f
    BY DEF IsOfFamily, IsShipped, IsListed
  <2> SUFFICES ASSUME NEW i \in DOMAIN rows, NEW j \in DOMAIN rows,
                      NEW k \in DOMAIN rows[i], NEW l \in DOMAIN rows[j],
                      rows[i][k] = rows[j][l]
               PROVE  i = j /\ k = l
    BY DEF NoneTwice
  <2>2. rows[i][k] \in Range(rows[i]) /\ rows[j][l] \in Range(rows[j])
    BY DEF Range
  <2>3. rows[i][k].family = fs[i] /\ rows[j][l].family = fs[j]
    BY <1>7, <2>1, <2>2
  <2>4. i = j
    BY <1>3, <1>5, <2>3 DEF Distinct
  <2>5. Distinct(rows[i])
    BY <1>7, <1>10
  <2>6. l \in DOMAIN rows[i] /\ rows[i][k] = rows[i][l]
    BY <2>4
  <2> QED BY <2>4, <2>5, <2>6, Zenon DEF Distinct
<1> QED BY <1>1, <1>8, <1>9, <1>10

(* What an employee run grades: the list the code builds holds exactly the  *)
(* tuples the declaration, the group and the datasets ask for.              *)
LEMMA OfferedIs ==
    ASSUME NEW emp, NEW t
    PROVE  t \in Offered(emp)
              <=> \/ \E f \in Range(emp.families) : \E d \in Range(emp.shipped[f]) :
                         /\ d.parsed
                         /\ t = [family |-> f, history |-> d.history, weeks |-> d.weeks]
                  \/ \E f, g \in Range(emp.families) : \E h \in Range(emp.histories[g]) :
                         /\ emp.shipped[f] = <<>> /\ Len(emp.weeks[f]) >= emp.length[f]
                         /\ t = [family |-> f, history |-> h,
                                 weeks |-> SubSeq(emp.weeks[f], 1, emp.length[f])]
<1> DEFINE Parsed == UNION {{[family |-> f, history |-> d.history, weeks |-> d.weeks] :
                                d \in {s \in Range(emp.shipped[f]) : s.parsed}} :
                            f \in Range(emp.families)}
           Led == {[family |-> f, history |-> h,
                    weeks |-> SubSeq(emp.weeks[f], 1, emp.length[f])] :
                      f \in {g \in Range(emp.families) :
                               emp.shipped[g] = <<>> /\ Len(emp.weeks[g]) >= emp.length[g]},
                      h \in UNION {Range(emp.histories[g]) : g \in Range(emp.families)}}
<1>1. t \in Parsed <=> \E f \in Range(emp.families) : \E d \in Range(emp.shipped[f]) :
         d.parsed /\ t = [family |-> f, history |-> d.history, weeks |-> d.weeks]
  OBVIOUS
<1>2. t \in Led <=> \E f, g \in Range(emp.families) : \E h \in Range(emp.histories[g]) :
         /\ emp.shipped[f] = <<>> /\ Len(emp.weeks[f]) >= emp.length[f]
         /\ t = [family |-> f, history |-> h,
                 weeks |-> SubSeq(emp.weeks[f], 1, emp.length[f])]
  OBVIOUS
<1>3. Offered(emp) = Parsed \cup Led
  BY DEF Offered
<1> HIDE DEF Parsed, Led
<1> QED BY <1>1, <1>2, <1>3

LEMMA EnumeratedIsLoadable ==
    ASSUME NEW emp, WellFormed(emp), NEW f \in Range(emp.families) \cap emp.scenarios,
           NEW t, IsOfFamily(emp, f, t)
    PROVE  /\ Loadable(emp, t)
           /\ emp.declared = {} => t \in Offered(emp)
<1>1. CASE IsShipped(emp, f, t)
  <2>1. PICK d \in Range(emp.shipped[f]) :
           /\ d.parsed /\ d.history \in Range(emp.histories[f])
           /\ HasWeeks(emp, f, d.weeks)
           /\ t = [family |-> f, history |-> d.history, weeks |-> d.weeks]
    BY <1>1 DEF IsShipped
  <2>2. t.family = f /\ t.history = d.history /\ t.weeks = d.weeks
    BY <2>1
  <2>3. t \in Offered(emp)
    BY <2>1, OfferedIs
  <2> QED BY <2>1, <2>2, <2>3 DEF Loadable, HasFiles
<1>2. ASSUME NEW h \in Range(emp.histories[f]), IsListed(emp, f, h, t)
      PROVE  Loadable(emp, t) /\ (emp.declared = {} => t \in Offered(emp))
  <2>1. PICK w : /\ Leads(emp, f, w) \/ (IsDeclared(emp, f, h, w) /\ HasWeeks(emp, f, w))
                 /\ t = [family |-> f, history |-> h, weeks |-> w]
    BY <1>2 DEF IsListed
  <2>2. HasWeeks(emp, f, w)
    BY <2>1, LeadingFacts
  <2>3. t.family = f /\ t.history = h /\ t.weeks = w
    BY <2>1
  <2>4. Loadable(emp, t)
    BY <2>2, <2>3 DEF Loadable, HasFiles
  <2>5. ASSUME emp.declared = {} PROVE t \in Offered(emp)
    <3>1. Leads(emp, f, w)
      <4>1. Range(Entries(emp)) = {}
        BY <2>5 DEF Entries, Range
      <4> QED BY <2>1, <4>1 DEF IsDeclared
    <3>2. /\ emp.shipped[f] = <<>> /\ Len(emp.weeks[f]) >= emp.length[f]
          /\ t = [family |-> f, history |-> h,
                  weeks |-> SubSeq(emp.weeks[f], 1, emp.length[f])]
      BY <2>1, <3>1 DEF Leads
    <3> QED BY <1>2, <3>2, OfferedIs
  <2> QED BY <2>4, <2>5
<1> QED BY <1>1, <1>2 DEF IsOfFamily

LEMMA WantedIsEnumerated ==
    ASSUME NEW emp, WellFormed(emp), NEW t, Loadable(emp, t),
           t \in IF emp.declared = {} THEN Offered(emp) ELSE Declared(emp)
    PROVE  IsOfFamily(emp, t.family, t)
<1>1. /\ t.family \in Range(emp.families) /\ t.family \in emp.scenarios
      /\ t.history \in Range(emp.histories[t.family])
      /\ HasWeeks(emp, t.family, t.weeks)
  BY DEF Loadable, HasFiles
<1>2. CASE emp.declared # {}
  <2>1. PICK e \in Range(Entries(emp)) : e.form = "tuple" /\ e.name = t
    BY <1>2 DEF Declared
  <2>2. t = [family |-> t.family, history |-> t.history, weeks |-> t.weeks]
    BY <2>1 DEF WellFormed
  <2>3. IsDeclared(emp, t.family, t.history, t.weeks)
    BY <2>1 DEF IsDeclared
  <2> QED BY <1>1, <2>2, <2>3 DEF IsListed, IsOfFamily
<1>3. CASE emp.declared = {}
  <2> DEFINE WasParsed ==
                 \E f \in Range(emp.families) : \E d \in Range(emp.shipped[f]) :
                    /\ d.parsed
                    /\ t = [family |-> f, history |-> d.history, weeks |-> d.weeks]
             WasLed ==
                 \E f, g \in Range(emp.families) : \E h \in Range(emp.histories[g]) :
                    /\ emp.shipped[f] = <<>> /\ Len(emp.weeks[f]) >= emp.length[f]
                    /\ t = [family |-> f, history |-> h,
                            weeks |-> SubSeq(emp.weeks[f], 1, emp.length[f])]
  <2>1. WasParsed \/ WasLed
    BY <1>3, OfferedIs
  <2>2. CASE WasParsed
    <3>1. PICK f \in Range(emp.families) : \E d \in Range(emp.shipped[f]) :
             d.parsed /\ t = [family |-> f, history |-> d.history, weeks |-> d.weeks]
      BY <2>2
    <3>2. PICK d \in Range(emp.shipped[f]) :
             d.parsed /\ t = [family |-> f, history |-> d.history, weeks |-> d.weeks]
      BY <3>1
    <3>3. t.family = f /\ t.history = d.history /\ t.weeks = d.weeks
      BY <3>2
    <3>4. IsShipped(emp, t.family, t)
      BY <1>1, <3>2, <3>3 DEF IsShipped
    <3> QED BY <3>4 DEF IsOfFamily
  <2>3. CASE WasLed
    <3>1. PICK f, h :
             /\ emp.shipped[f] = <<>> /\ Len(emp.weeks[f]) >= emp.length[f]
             /\ t = [family |-> f, history |-> h,
                     weeks |-> SubSeq(emp.weeks[f], 1, emp.length[f])]
      BY <2>3
    <3>2. /\ t.family = f /\ t.history = h
          /\ t.weeks = SubSeq(emp.weeks[f], 1, emp.length[f])
      BY <3>1
    <3>3. Leads(emp, f, t.weeks)
      BY <3>1, <3>2 DEF Leads
    <3>4. t = [family |-> f, history |-> h, weeks |-> t.weeks]
      BY <3>1, <3>2
    <3>5. IsListed(emp, f, h, t)
      BY <3>3, <3>4 DEF IsListed
    <3> QED BY <1>1, <3>2, <3>5 DEF IsOfFamily
  <2> QED BY <2>1, <2>2, <2>3
<1> QED BY <1>2, <1>3

LEMMA SelectionFacts ==
    ASSUME NEW emp, WellFormed(emp), NEW option
    PROVE  /\ IsList(SelectedInstances(emp, option))
           /\ Range(SelectedInstances(emp, option)) = WantedTuples(emp, option)
           /\ ~ ShipsTwice(emp) => Distinct(SelectedInstances(emp, option))
<1> DEFINE all == EnumerateInstances(emp)
           Fits(t) == /\ HasValue(option["dataset_set"], "") =>
                              t.family \in emp.groups[Value(option["dataset_set"])]
                      /\ HasValue(option["datasets"], <<>>) =>
                              \E w \in Range(Value(option["datasets"])) :
                                  t.family \in emp.starts[w]
           wanted == {t \in Range(all) :
                         (emp.declared # {} => t \in SelectedTuples(emp)) /\ Fits(t)}
           source == IF emp.declared = {} THEN Offered(emp) ELSE Declared(emp)
<1>1. SelectedInstances(emp, option) = Keep(all, wanted)
  BY DEF SelectedInstances
<1>2. \A t : t \in WantedTuples(emp, option)
         <=> t \in source /\ Loadable(emp, t) /\ Fits(t)
  BY DEF WantedTuples
<1>3. \A t : t \in wanted
         <=> /\ t \in Range(all) /\ Fits(t)
             /\ emp.declared # {} => t \in SelectedTuples(emp)
  OBVIOUS
<1>4. \A t : t \in source <=> IF emp.declared = {} THEN t \in Offered(emp)
                                                   ELSE t \in Declared(emp)
  OBVIOUS
<1>5. /\ IsList(all)
      /\ \A t : t \in Range(all)
            <=> \E f \in Range(emp.families) \cap emp.scenarios : IsOfFamily(emp, f, t)
      /\ ~ ShipsTwice(emp) => Distinct(all)
  BY EnumerationFacts
<1> HIDE DEF all, Fits, wanted, source
<1>6. /\ IsList(Keep(all, wanted))
      /\ \A t : t \in Range(Keep(all, wanted)) <=> t \in Range(all) /\ t \in wanted
      /\ Distinct(all) => Distinct(Keep(all, wanted))
  BY <1>5, KeepOfList
<1>7. ASSUME NEW t, t \in wanted PROVE t \in source /\ Loadable(emp, t) /\ Fits(t)
  <2>1. /\ t \in Range(all) /\ Fits(t)
        /\ emp.declared # {} => t \in SelectedTuples(emp)
    BY <1>3, <1>7
  <2>2. PICK f \in Range(emp.families) \cap emp.scenarios : IsOfFamily(emp, f, t)
    BY <1>5, <2>1
  <2>3. Loadable(emp, t) /\ (emp.declared = {} => t \in Offered(emp))
    BY <2>2, EnumeratedIsLoadable
  <2>4. ASSUME emp.declared # {} PROVE t \in Declared(emp)
    <3>1. PICK e \in Range(Entries(emp)) : e.name = t
      BY <2>1, <2>4 DEF SelectedTuples
    <3>2. e.form = "tuple"
      BY <2>3, <3>1 DEF Loadable, WellFormed
    <3> QED BY <3>1, <3>2 DEF Declared
  <2> QED BY <1>4, <2>1, <2>3, <2>4
<1>8. ASSUME NEW t, t \in source, Loadable(emp, t), Fits(t) PROVE t \in wanted
  <2>1. IsOfFamily(emp, t.family, t)
    BY <1>8, WantedIsEnumerated DEF source
  <2>2. t.family \in Range(emp.families) \cap emp.scenarios
    BY <1>8 DEF Loadable, HasFiles
  <2>3. emp.declared # {} => t \in SelectedTuples(emp)
    BY <1>4, <1>8 DEF Declared, SelectedTuples
  <2> QED BY <1>3, <1>5, <1>8, <2>1, <2>2, <2>3
<1>9. \A t : t \in Range(Keep(all, wanted)) <=> t \in WantedTuples(emp, option)
  BY <1>2, <1>3, <1>6, <1>7, <1>8
<1> QED BY <1>1, <1>5, <1>6, <1>9

(* Once selected, the cases stay: the instances of an employee run are the  *)
(* selection under its final options.                                       *)
Selected ==
    /\ stage \in {"matrix", "versions", "started"}
    /\ SpecName = "employee-scheduling"
    => LET tuples == SelectedInstances(situation.corpus.employee, args.option)
       IN  cases = [i \in DOMAIN tuples |->
                       EmployeeCase(situation.corpus.employee,
                                    DatasetSetLabel(args.option), tuples[i])]

LEMMA SelectedStep == Selected /\ [Next]_vars => Selected'
<1> SUFFICES ASSUME Selected, [Next]_vars PROVE Selected'
  OBVIOUS
<1>1. CASE /\ UNCHANGED <<situation, args, cases>>
           /\ stage' \in {"matrix", "versions", "started"}
                 => stage \in {"matrix", "versions", "started"}
  BY <1>1 DEF Selected, SpecName
<1>2. CASE SelectCases
  <2>1. situation' = situation /\ args' = args
    BY <1>2 DEF SelectCases
  <2>2. stage' \in {"refused", "matrix"}
    BY <1>2 DEF SelectCases
  <2>3. ASSUME stage' = "matrix", SpecName = "employee-scheduling"
        PROVE  cases' = LET tuples == SelectedInstances(situation.corpus.employee, args.option)
                        IN  [i \in DOMAIN tuples |->
                                EmployeeCase(situation.corpus.employee,
                                             DatasetSetLabel(args.option), tuples[i])]
    <3>1. cases' = Cases(situation.corpus, "employee-scheduling", args.option)
      BY <1>2, <2>3 DEF SelectCases
    <3> QED BY <3>1 DEF Cases
  <2>4. SpecName' = SpecName
    BY <2>1 DEF SpecName
  <2> QED BY <2>1, <2>2, <2>3, <2>4 DEF Selected
<1>3. CASE stage' \notin {"matrix", "versions", "started"}
  BY <1>3 DEF Selected
<1>4. \/ SelectCases \/ stage' \notin {"matrix", "versions", "started"}
      \/ /\ UNCHANGED <<situation, args, cases>>
         /\ stage' \in {"matrix", "versions", "started"}
               => stage \in {"matrix", "versions", "started"}
  BY DEF Next, vars, LoadConfig, ParseArguments, ApplyConfig, FinalizeDefaults,
         FinalizeRunCatalog, ValidateSolvers, ConfigureLogging, BuildMatrix, ValidateVersions
<1> QED BY <1>1, <1>2, <1>3, <1>4

(* The manifest's provenance and spec.py 211-219, for every corpus, command *)
(* and file: an employee run grades the tuples asked for that the corpus    *)
(* can load, none left out and none added, each once unless two solution    *)
(* directories name one tuple.                                              *)
THEOREM SelectionsAreExact == Spec => []SelectionIsExact
<1> DEFINE Inv == situation \in Situations /\ Selected
<1>1. Init => Inv
  BY DEF Init, Selected
<1>2. Inv /\ [Next]_vars => Inv'
  <2>1. [Next]_vars => situation' = situation
    BY DEF Next, vars, LoadConfig, ParseArguments, ApplyConfig, FinalizeDefaults,
           FinalizeRunCatalog, ValidateSolvers, ConfigureLogging, SelectCases, BuildMatrix, ValidateVersions
  <2> QED BY <2>1, SelectedStep
<1>3. Inv => SelectionIsExact
  <2> SUFFICES ASSUME situation \in Situations, Selected,
                      stage \in {"matrix", "versions", "started"},
                      SpecName = "employee-scheduling"
               PROVE  LET emp == situation.corpus.employee
                          names == [i \in DOMAIN cases |-> cases[i].instance]
                      IN  /\ Range(names) = WantedTuples(emp, args.option)
                          /\ HasNoDuplicates(names) \/ ShipsTwice(emp)
    BY DEF SelectionIsExact
  <2> DEFINE emp == situation.corpus.employee
             tuples == SelectedInstances(emp, args.option)
             names == [i \in DOMAIN cases |-> cases[i].instance]
  <2>1. WellFormed(emp)
    BY CorporaAreWellFormed
  <2>2. cases = [i \in DOMAIN tuples |->
                    EmployeeCase(emp, DatasetSetLabel(args.option), tuples[i])]
    BY DEF Selected
  <2> HIDE DEF emp, tuples
  <2>3. /\ IsList(tuples) /\ Range(tuples) = WantedTuples(emp, args.option)
        /\ ~ ShipsTwice(emp) => Distinct(tuples)
    BY <2>1, SelectionFacts DEF tuples
  <2>4. \A i \in DOMAIN tuples : cases[i].instance = tuples[i]
    BY <2>2 DEF EmployeeCase
  <2>5. tuples = [i \in DOMAIN tuples |-> tuples[i]]
    BY <2>3 DEF IsList
  <2>6. names = tuples
    BY <2>2, <2>4, <2>5
  <2>7. HasNoDuplicates(tuples) <=> Distinct(tuples)
    BY <2>3, ListFacts
  <2> HIDE DEF names
  <2>8. Range(names) = WantedTuples(emp, args.option) /\ (HasNoDuplicates(names) \/ ShipsTwice(emp))
    BY <2>3, <2>6, <2>7
  <2> QED BY <2>8 DEF names, emp
<1> QED
  BY <1>1, <1>2, <1>3, PTL DEF Spec

-----------------------------------------------------------------------------
(* The locks of the cores.                                                  *)
LocksMatchCores ==
    \A g, h \in Harnesses :
        CoresOf[g] \cap CoresOf[h] # {} => LockOf[g] = LockOf[h]

-----------------------------------------------------------------------------
(* TypeInv holds whatever happens: counters never run past their bound.    *)
THEOREM LockTypeCorrect == LockSpec => []TypeInv
<1>1. LockInit => TypeInv
  BY HarnessAssumption, BoundAssumption DEF LockInit, TypeInv, PCs
<1>2. TypeInv /\ [LockNext]_lockVars => TypeInv'
  <2> SUFFICES ASSUME TypeInv, [LockNext]_lockVars PROVE TypeInv'
    OBVIOUS
  <2> USE HarnessAssumption, BoundAssumption
          DEF TypeInv, PCs, Goto, Released, LastClose, Holds, ChildGone,
              HarnessGone
  <2>1. CASE UNCHANGED lockVars
    BY <2>1 DEF lockVars
  <2>2. ASSUME NEW h \in Harnesses, Step(h) PROVE TypeInv'
    <3>1. CASE Build(h) BY <3>1 DEF Build
    <3>2. CASE ResolveVersions(h) BY <3>2 DEF ResolveVersions
    <3>3. CASE AcquireLock(h) BY <3>3 DEF AcquireLock
    <3>4. CASE StartSolver(h)
      <4>1. left[h] - 1 \in 0 .. Rows
        BY <3>4 DEF StartSolver
      <4>2. left' \in [Harnesses -> 0 .. Rows]
        BY <3>4, <4>1 DEF StartSolver
      <4> QED BY <3>4, <4>2 DEF StartSolver
    <3>5. CASE HelperEnds(h) BY <3>5 DEF HelperEnds
    <3>6. CASE Report(h) BY <3>6 DEF Report
    <3>7. CASE Collect(h) BY <3>7 DEF Collect
    <3>8. CASE RowDone(h) BY <3>8 DEF RowDone
    <3>9. CASE Watchdog(h) BY <3>9 DEF Watchdog
    <3>10. CASE AllRowsDone(h) BY <3>10 DEF AllRowsDone
    <3>11. CASE ReleaseLock(h) BY <3>11 DEF ReleaseLock
    <3>12. CASE Exit(h) BY <3>12 DEF Exit
    <3> QED
      BY <2>2, <3>1, <3>2, <3>3, <3>4, <3>5, <3>6, <3>7, <3>8, <3>9, <3>10,
         <3>11, <3>12 DEF Step
  <2>3. ASSUME NEW h \in Harnesses, Interrupt(h) PROVE TypeInv'
    BY <2>3 DEF Interrupt
  <2>4. ASSUME NEW h \in Harnesses, Kill(h) PROVE TypeInv'
    BY <2>4 DEF Kill
  <2> QED
    BY <2>1, <2>2, <2>3, <2>4 DEF LockNext
<1> QED
  BY <1>1, <1>2, PTL DEF LockSpec

-----------------------------------------------------------------------------
(* The inductive invariant.  A run that is past the lock holds it; a child *)
(* keeps its run's lock, with the harness or alone; a helper has its child *)
(* waiting for it.                                                         *)
LockedHolds == \A h \in Harnesses : pc[h] \in {"rows", "solve", "unlock"} => Holds(h)

ChildHolds ==
    \A h \in Harnesses :
        child[h] # "none" => Holds(h) /\ pc[h] \in {"solve", "killed"}

HelperHasChild == \A h \in Harnesses : helper[h] => child[h] = "solving"

IInv == TypeInv /\ LockedHolds /\ ChildHolds /\ HelperHasChild

LEMMA IInvSerializes ==
    ASSUME LocksMatchCores, IInv
    PROVE  SameCoreSerializes
BY DEF LocksMatchCores, IInv, ChildHolds, HelperHasChild, Holds,
       SameCoreSerializes, Busy

LEMMA IInvStep ==
    ASSUME Faults \subseteq {"crash", "rebuild"}, IInv, TypeInv', [LockNext]_lockVars
    PROVE  IInv'
<1> USE HarnessAssumption
        DEF IInv, TypeInv, PCs, LockedHolds, ChildHolds, HelperHasChild, Holds,
            Goto, Released, LastClose, ChildGone, HarnessGone
<1>1. CASE UNCHANGED lockVars
  BY <1>1 DEF lockVars
<1>2. ASSUME NEW h \in Harnesses, Step(h) PROVE IInv'
  <2>1. CASE Build(h) BY <2>1 DEF Build
  <2>2. CASE ResolveVersions(h) BY <2>2 DEF ResolveVersions
  <2>3. CASE AcquireLock(h) BY <2>3 DEF AcquireLock
  <2>4. CASE StartSolver(h) BY <2>4 DEF StartSolver
  <2>5. CASE HelperEnds(h) BY <2>5 DEF HelperEnds
  <2>6. CASE Report(h) BY <2>6 DEF Report
  <2>7. CASE Collect(h) BY <2>7 DEF Collect
  <2>8. CASE RowDone(h) BY <2>8 DEF RowDone
  <2>9. CASE Watchdog(h) BY <2>9 DEF Watchdog
  <2>10. CASE AllRowsDone(h) BY <2>10 DEF AllRowsDone
  <2>11. CASE ReleaseLock(h) BY <2>11 DEF ReleaseLock
  <2>12. CASE Exit(h) BY <2>12 DEF Exit
  <2> QED
    BY <1>2, <2>1, <2>2, <2>3, <2>4, <2>5, <2>6, <2>7, <2>8, <2>9, <2>10,
       <2>11, <2>12 DEF Step
<1>3. ASSUME NEW h \in Harnesses, Interrupt(h) PROVE IInv'
  BY <1>3 DEF Interrupt
<1>4. ASSUME NEW h \in Harnesses, Kill(h) PROVE IInv'
  BY <1>4 DEF Kill
<1> QED
  BY <1>1, <1>2, <1>3, <1>4 DEF LockNext

(* Runs that share a core never have two solvers at work, not even when a  *)
(* harness was killed and left its child behind.                           *)
THEOREM Serializes ==
    ASSUME LocksMatchCores, Faults \subseteq {"crash", "rebuild"}
    PROVE  LockSpec => []SameCoreSerializes
<1>1. LockInit => IInv
  BY HarnessAssumption, BoundAssumption
     DEF LockInit, IInv, TypeInv, PCs, LockedHolds, ChildHolds, HelperHasChild
<1>2. IInv /\ TypeInv' /\ [LockNext]_lockVars => IInv'
  BY IInvStep
<1>3. IInv => SameCoreSerializes
  BY IInvSerializes
<1> QED
  BY <1>1, <1>2, <1>3, LockTypeCorrect, PTL DEF LockSpec

(* The invariant under every fault: a child keeps its run's lock until the *)
(* harness has given it back itself.                                       *)
ChildKeepsLock ==
    \A h \in Harnesses :
        child[h] # "none" =>
            /\ pc[h] \in {"solve", "unlock", "exit", "ended", "killed"}
            /\ pc[h] \in {"solve", "unlock", "killed"} => Holds(h)

FInv == TypeInv /\ LockedHolds /\ ChildKeepsLock

LEMMA FInvStep ==
    ASSUME FInv, TypeInv', [LockNext]_lockVars
    PROVE  FInv'
<1> USE HarnessAssumption
        DEF FInv, TypeInv, PCs, LockedHolds, ChildKeepsLock, Holds, Goto,
            Released, LastClose, ChildGone, HarnessGone
<1>1. CASE UNCHANGED lockVars
  BY <1>1 DEF lockVars
<1>2. ASSUME NEW h \in Harnesses, Step(h) PROVE FInv'
  <2>1. CASE Build(h) BY <2>1 DEF Build
  <2>2. CASE ResolveVersions(h) BY <2>2 DEF ResolveVersions
  <2>3. CASE AcquireLock(h) BY <2>3 DEF AcquireLock
  <2>4. CASE StartSolver(h) BY <2>4 DEF StartSolver
  <2>5. CASE HelperEnds(h) BY <2>5 DEF HelperEnds
  <2>6. CASE Report(h) BY <2>6 DEF Report
  <2>7. CASE Collect(h) BY <2>7 DEF Collect
  <2>8. CASE RowDone(h) BY <2>8 DEF RowDone
  <2>9. CASE Watchdog(h) BY <2>9 DEF Watchdog
  <2>10. CASE AllRowsDone(h) BY <2>10 DEF AllRowsDone
  <2>11. CASE ReleaseLock(h) BY <2>11 DEF ReleaseLock
  <2>12. CASE Exit(h) BY <2>12 DEF Exit
  <2> QED
    BY <1>2, <2>1, <2>2, <2>3, <2>4, <2>5, <2>6, <2>7, <2>8, <2>9, <2>10,
       <2>11, <2>12 DEF Step
<1>3. ASSUME NEW h \in Harnesses, Interrupt(h) PROVE FInv'
  BY <1>3 DEF Interrupt
<1>4. ASSUME NEW h \in Harnesses, Kill(h) PROVE FInv'
  BY <1>4 DEF Kill
<1> QED
  BY <1>1, <1>2, <1>3, <1>4 DEF LockNext

(* Under every fault, two solvers share a core only when one of them is a  *)
(* leftover of a Ctrl-C or of a watchdog kill.                             *)
THEOREM OverlapsAreLeftovers ==
    ASSUME LocksMatchCores
    PROVE  LockSpec => []OverlapIsLeftover
<1>1. LockInit => FInv
  BY HarnessAssumption, BoundAssumption
     DEF LockInit, FInv, TypeInv, PCs, LockedHolds, ChildKeepsLock
<1>2. FInv /\ TypeInv' /\ [LockNext]_lockVars => FInv'
  BY FInvStep
<1>3. FInv => OverlapIsLeftover
  BY DEF FInv, TypeInv, PCs, ChildKeepsLock, Holds, LocksMatchCores,
         OverlapIsLeftover, Busy, Leftover
<1> QED
  BY <1>1, <1>2, <1>3, LockTypeCorrect, PTL DEF LockSpec

-----------------------------------------------------------------------------
(* A lock is only ever held by a run it was given to. *)
OwnLock == \A l \in Locks : holder[l] \in Harnesses => LockOf[holder[l]] = l

(* Every lock that is held is held by a run with a process left to give it *)
(* back, under every fault.                                                *)
THEOREM NoLockLeaks == LockSpec => []LockHasAProcess
<1> DEFINE LInv == OwnLock /\ LockHasAProcess
<1>1. LockInit => LInv
  BY HarnessAssumption DEF LockInit, OwnLock, LockHasAProcess
<1>2. TypeInv /\ LInv /\ [LockNext]_lockVars => LInv'
  <2> SUFFICES ASSUME TypeInv, LInv, [LockNext]_lockVars PROVE LInv'
    OBVIOUS
  <2> USE HarnessAssumption
          DEF TypeInv, PCs, OwnLock, LockHasAProcess, Holds, Goto, Released,
              LastClose, ChildGone, HarnessGone
  <2>1. CASE UNCHANGED lockVars
    BY <2>1 DEF lockVars
  <2>2. ASSUME NEW h \in Harnesses, Step(h) PROVE LInv'
    <3>1. CASE Build(h) BY <3>1 DEF Build
    <3>2. CASE ResolveVersions(h) BY <3>2 DEF ResolveVersions
    <3>3. CASE AcquireLock(h) BY <3>3 DEF AcquireLock
    <3>4. CASE StartSolver(h) BY <3>4 DEF StartSolver
    <3>5. CASE HelperEnds(h) BY <3>5 DEF HelperEnds
    <3>6. CASE Report(h) BY <3>6 DEF Report
    <3>7. CASE Collect(h) BY <3>7 DEF Collect
    <3>8. CASE RowDone(h) BY <3>8 DEF RowDone
    <3>9. CASE Watchdog(h) BY <3>9 DEF Watchdog
    <3>10. CASE AllRowsDone(h) BY <3>10 DEF AllRowsDone
    <3>11. CASE ReleaseLock(h) BY <3>11 DEF ReleaseLock
    <3>12. CASE Exit(h) BY <3>12 DEF Exit
    <3> QED
      BY <2>2, <3>1, <3>2, <3>3, <3>4, <3>5, <3>6, <3>7, <3>8, <3>9, <3>10,
         <3>11, <3>12 DEF Step
  <2>3. ASSUME NEW h \in Harnesses, Interrupt(h) PROVE LInv'
    BY <2>3 DEF Interrupt
  <2>4. ASSUME NEW h \in Harnesses, Kill(h) PROVE LInv'
    BY <2>4 DEF Kill
  <2> QED
    BY <2>1, <2>2, <2>3, <2>4 DEF LockNext
<1> QED
  BY <1>1, <1>2, LockTypeCorrect, PTL DEF LockSpec
==============================================================================
