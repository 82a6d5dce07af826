------------------------------ MODULE Selection ------------------------------
(***************************************************************************)
(* Which instances a run grades: the cases method of the three benchmark   *)
(* specs, with the corpus readers and the reference catalogue behind it.   *)
(* An option is a set, empty when None and {v} when it has the value v.    *)
(*                                                                         *)
(* A corpus is a record of three: cvrp (the instances in sorted order),    *)
(* jobshop (the instances of the manifest, its groups) and employee (the   *)
(* family directories with their history, week and solution files, and the *)
(* manifest's groups and selected_tuples); each has a reference catalogue. *)
(* The name of an employee case is its tuple [family, history, weeks].     *)
(***************************************************************************)
EXTENDS Integers, Sequences, SequencesExt

Value(option) == CHOOSE v \in option : TRUE
HasValue(option, falsy) == option # {} /\ option # {falsy}

(* The entries of seq that are in S, in their order; and base with those of *)
(* seq behind it that are not there yet.                                    *)
Keep(seq, S) ==
    LET kept[i \in 0 .. Len(seq)] ==
            IF i = 0 THEN <<>>
            ELSE IF seq[i] \in S THEN Append(kept[i - 1], seq[i]) ELSE kept[i - 1]
    IN  kept[Len(seq)]

AddNew(seq, x) == IF x \in Range(seq) THEN seq ELSE Append(seq, x)
AddAll(base, seq) ==
    LET all[i \in 0 .. Len(seq)] ==
            IF i = 0 THEN base ELSE AddNew(all[i - 1], seq[i])
    IN  all[Len(seq)]

-----------------------------------------------------------------------------
(* The employee corpus.                                                     *)

(* selected_tuples of the manifest: an entry has the form of a tuple, or    *)
(* another one that the pattern rejects, or ends in a dash, which the       *)
(* pattern accepts and int() does not.                                      *)
Entries(emp) == IF emp.declared = {} THEN <<>> ELSE Value(emp.declared)
ManifestRaises(emp) == \E e \in Range(Entries(emp)) : e.form = "dangling"

(* _declared_week_sets, at one family and history. *)
DeclaredWeeks(emp, f, h) ==
    LET named == Keep(Entries(emp),
                      {e \in Range(Entries(emp)) : /\ e.form = "tuple"
                                                   /\ e.name.family = f
                                                   /\ e.name.history = h})
    IN  AddAll(<<>>, [i \in DOMAIN named |-> named[i].name.weeks])

LeadingWeeks(emp, f) ==
    IF emp.shipped[f] = <<>> /\ Len(emp.weeks[f]) >= emp.length[f]
    THEN <<SubSeq(emp.weeks[f], 1, emp.length[f])>>
    ELSE <<>>

HasWeeks(emp, f, weeks) == Range(weeks) \subseteq Range(emp.weeks[f])

(* Mutant: a declared tuple may name weeks the corpus does not hold. *)
WeekSequencesUnchecked(emp, f, h) ==
    LeadingWeeks(emp, f) \o DeclaredWeeks(emp, f, h)

WeekSequences(emp, f, h) ==
    LET declared == DeclaredWeeks(emp, f, h)
    IN  LeadingWeeks(emp, f)
            \o Keep(declared, {w \in Range(declared) : HasWeeks(emp, f, w)})

(* The solution directories whose history and week files are all there. *)
ShippedTuples(emp, f) ==
    LET whole == Keep(emp.shipped[f],
                      {d \in Range(emp.shipped[f]) :
                          /\ d.parsed
                          /\ d.history \in Range(emp.histories[f])
                          /\ HasWeeks(emp, f, d.weeks)})
    IN  [i \in DOMAIN whole |-> [family |-> f, history |-> whole[i].history,
                                 weeks |-> whole[i].weeks]]

HistoryTuples(emp, f, h) ==
    LET seqs == WeekSequences(emp, f, h)
    IN  [i \in DOMAIN seqs |-> [family |-> f, history |-> h, weeks |-> seqs[i]]]

FamilyTuples(emp, f) ==
    AddAll(ShippedTuples(emp, f),
           FlattenSeq([i \in DOMAIN emp.histories[f] |->
                          HistoryTuples(emp, f, emp.histories[f][i])]))

EnumerateInstances(emp) ==
    LET families == Keep(emp.families, emp.scenarios)
    IN  FlattenSeq([i \in DOMAIN families |-> FamilyTuples(emp, families[i])])

SelectedTuples(emp) == {e.name : e \in Range(Entries(emp))}

(* emp.starts gives the families a word of --datasets is a prefix of. *)
SelectedInstances(emp, args) ==
    LET all == EnumerateInstances(emp)
    IN  Keep(all,
             {t \in Range(all) :
                 /\ emp.declared # {} => t \in SelectedTuples(emp)
                 /\ HasValue(args.dataset_set, "") =>
                         t.family \in emp.groups[Value(args.dataset_set)]
                 /\ HasValue(args.datasets, <<>>) =>
                         \E w \in Range(Value(args.datasets)) :
                             t.family \in emp.starts[w]})

UnknownGroup(part, args) ==
    /\ HasValue(args.dataset_set, "")
    /\ Value(args.dataset_set) \notin DOMAIN part.groups

DatasetSetLabel(args) ==
    IF HasValue(args.dataset_set, "") THEN Value(args.dataset_set)
    ELSE IF HasValue(args.datasets, <<>>) THEN "custom" ELSE "all"

-----------------------------------------------------------------------------
(* The CVRP and job-shop corpora.                                           *)

UnknownInstance(cvrp, args) ==
    HasValue(args.instances, <<>>)
        /\ ~ (Range(Value(args.instances)) \subseteq Range(cvrp.instances))

(* instance_names[:n], which counts from the end when n is negative. *)
Prefix(seq, n) ==
    SubSeq(seq, 1, IF n < 0 THEN Len(seq) + n
                   ELSE IF n < Len(seq) THEN n ELSE Len(seq))

CvrpInstances(cvrp, args) ==
    LET named == IF HasValue(args.instances, <<>>)
                 THEN Keep(cvrp.instances, Range(Value(args.instances)))
                 ELSE cvrp.instances
    IN  IF HasValue(args.num_instances, 0)
        THEN Prefix(named, Value(args.num_instances))
        ELSE named

JobShopInstances(jobshop, args) ==
    Keep(jobshop.instances,
         {i \in Range(jobshop.instances) :
             /\ HasValue(args.dataset_set, "") =>
                     i \in jobshop.groups[Value(args.dataset_set)]
             /\ HasValue(args.datasets, <<>>) =>
                     i \in Range(Value(args.datasets))})

-----------------------------------------------------------------------------
(* The catalogue and the cases.                                             *)

(* reference_for raises, or gives the instance's reference. *)
NoReference(part, instance) ==
    ~ part.catalogue.valid \/ instance \notin part.catalogue.names

(* A case whose instance the catalogue must resolve. *)
ReferredCase(label, instance) ==
    [instance |-> instance, dataset_set |-> label, reference |-> {instance}]

EmployeeCase(emp, label, tuple) ==
    [instance |-> tuple, dataset_set |-> label,
     reference |-> {tuple} \cap emp.catalogue.names]

(* The cases in the order the spec yields them; read when nothing raises. *)
Cases(corpus, b, args) ==
    CASE b = "cvrp" ->
            LET names == CvrpInstances(corpus.cvrp, args)
            IN  [i \in DOMAIN names |-> ReferredCase("canonical", names[i])]
      [] b = "job-shop-scheduling" ->
            LET names == JobShopInstances(corpus.jobshop, args)
            IN  [i \in DOMAIN names |->
                    ReferredCase(DatasetSetLabel(args), names[i])]
      [] b = "employee-scheduling" ->
            LET tuples == SelectedInstances(corpus.employee, args)
            IN  [i \in DOMAIN tuples |->
                    EmployeeCase(corpus.employee, DatasetSetLabel(args),
                                 tuples[i])]

CasesRaise(corpus, b, args) ==
    CASE b = "cvrp" ->
            \/ UnknownInstance(corpus.cvrp, args)
            \/ \E i \in Range(CvrpInstances(corpus.cvrp, args)) :
                    NoReference(corpus.cvrp, i)
      [] b = "job-shop-scheduling" ->
            \/ UnknownGroup(corpus.jobshop, args)
            \/ \E i \in Range(JobShopInstances(corpus.jobshop, args)) :
                    NoReference(corpus.jobshop, i)
      [] b = "employee-scheduling" ->
            \/ ManifestRaises(corpus.employee)
            \/ UnknownGroup(corpus.employee, args)
            \/ /\ ~ corpus.employee.catalogue.valid
               /\ SelectedInstances(corpus.employee, args) # <<>>
=============================================================================
