------------------------------ MODULE SpecRules ------------------------------
(***************************************************************************)
(* The graph description of dg-graph (spec.rs): loading a file with its    *)
(* includes under the limits of a policy, templates, overrides, defaults   *)
(* and variables, and the validation that decides whether a graph is       *)
(* built.  `files` is what is on disk: path -> [size, inside, spec], spec  *)
(* being Err when the file cannot be parsed.  A parameter is a literal or  *)
(* a reference to a variable: [ref, lit]; variable names are numbers in    *)
(* the order of their names.                                               *)
(***************************************************************************)
EXTENDS CoreRules, Functions

CONSTANT Elements   \* the registry: kind -> [params, needs, ins, outs], see Port
                    \* (find_element, element_ports)

Lit(x) == [ref |-> None, lit |-> x]
Ref(v) == [ref |-> v, lit |-> None]

DefaultSpec ==
    [api |-> "dg/v1", kind |-> "Graph", includes |-> <<>>, variables |-> << >>,
     defaults |-> [named |-> << >>, detailed |-> FALSE], templates |-> << >>,
     allow_cycles |-> FALSE, execution |-> [parallel |-> "Pipeline", queue |-> 1, workers |-> None],
     nodes |-> <<>>, connections |-> <<>>, limits |-> None]

-----------------------------------------------------------------------------
(* Merging and expanding                                                   *)

merge_values(base, overlay) == overlay @@ base

\* A device given in detail replaces a named one and is never applied.
MergeDefaults(s, o) ==
    [named |-> o.named @@ (IF o.detailed THEN Restrict(s.named, DOMAIN s.named \ {"device"}) ELSE s.named),
     detailed |-> o.detailed \/ (s.detailed /\ "device" \notin DOMAIN o.named)]

merge_included(s, o) ==
    [o EXCEPT !.variables = o.variables @@ s.variables,
              !.defaults = MergeDefaults(s.defaults, o.defaults),
              !.templates = o.templates @@ s.templates,
              !.nodes = s.nodes \o o.nodes,
              !.connections = s.connections \o o.connections,
              !.allow_cycles = s.allow_cycles \/ o.allow_cycles]

apply_templates(n, templates) ==
    IF n.template = None THEN n
    ELSE [n EXCEPT !.kind = templates[n.template].kind,
                   !.params = merge_values(templates[n.template].params, @)]

\* The node's own backend, device and precision, where the element knows the
\* parameter and the node did not write it itself.
apply_node_overrides(n, explicit) ==
    IF n.kind \notin DOMAIN Elements THEN n
    ELSE [n EXCEPT !.params =
            [k \in (DOMAIN n.fields \cap Elements[n.kind].params) \ explicit |-> n.fields[k]] @@ @]

apply_defaults(n, defaults) ==
    IF n.kind \notin DOMAIN Elements THEN n
    ELSE [n EXCEPT !.params = @ @@
            Restrict(defaults.named, (DOMAIN defaults.named) \cap Elements[n.kind].params)]

\* A parameter that is one placeholder becomes the variable's value as it is.
substitute_variables(v, vars) == IF v.ref \in DOMAIN vars THEN vars[v.ref] ELSE v

\* In a string the variables are replaced one after the other, in order.
substitute_string(v, vars) ==
    FoldLeft(LAMBDA out, key : IF out.ref = key THEN vars[key] ELSE out, v,
             SetToSortSeq(DOMAIN vars, <))

SubstituteAll(params, vars) == [k \in DOMAIN params |-> substitute_variables(params[k], vars)]

apply_variables(s) ==
    [s EXCEPT !.nodes = [i \in DOMAIN @ |-> [@[i] EXCEPT !.params = SubstituteAll(@, s.variables)]],
              !.templates = [t \in DOMAIN @ |-> [@[t] EXCEPT !.params = SubstituteAll(@, s.variables)]],
              !.connections = [i \in DOMAIN @ |->
                  [@[i] EXCEPT !.from = substitute_string(@, s.variables),
                               !.to = substitute_string(@, s.variables)]]]

Unresolved(params) == \E k \in DOMAIN params : params[k].ref # None

validate_references(s) ==
    /\ \A i \in DOMAIN s.nodes : ~Unresolved(s.nodes[i].params)
    /\ \A t \in DOMAIN s.templates : ~Unresolved(s.templates[t].params)
    /\ \A i \in DOMAIN s.connections :
         s.connections[i].from.ref = None /\ s.connections[i].to.ref = None

-----------------------------------------------------------------------------
(* Validation                                                              *)

\* Depth first, white nodes unvisited, gray ones on the path.
RECURSIVE dfs(_, _, _)
dfs(node, adjacency, colors) ==
    LET Visit(acc, next) ==
          IF acc.cycle \/ acc.colors[next] = "Black" THEN acc
          ELSE IF acc.colors[next] = "Gray" THEN [acc EXCEPT !.cycle = TRUE]
          ELSE dfs(next, adjacency, acc.colors)
        r == FoldLeft(Visit, [cycle |-> FALSE, colors |-> [colors EXCEPT ![node] = "Gray"]],
                      adjacency[node])
    IN  IF r.cycle THEN r ELSE [r EXCEPT !.colors[node] = "Black"]

Adjacency(names, edges) ==
    [n \in names |-> LET mine == SelectSeq(edges, LAMBDA e : e[1] = n)
                     IN  [i \in 1..Len(mine) |-> mine[i][2]]]

has_cycle_FirstOnly(names, edges) ==
    names # {} /\ dfs(CHOOSE n \in names : TRUE, Adjacency(names, edges), [n \in names |-> "White"]).cycle

has_cycle(names, edges) ==
    LET adjacency == Adjacency(names, edges)
        From(acc, n) == IF acc.cycle \/ acc.colors[n] # "White" THEN acc
                        ELSE dfs(n, adjacency, acc.colors)
    IN  FoldLeft(From, [cycle |-> FALSE, colors |-> [n \in names |-> "White"]],
                 SetToSeq(names)).cycle

find_port(ports, name) == {p \in ports : p.name = name}

\* validate_element: every parameter is one the element knows, the needed
\* ones are there; for an inference node the model fits the policy, and a
\* node that makes tensors of a size of its own makes none that is too large.
NodeParamsValid(n, policy) ==
    LET e == Elements[n.kind] IN
    /\ e.needs \subseteq DOMAIN n.params /\ DOMAIN n.params \subseteq e.fields
    /\ n.kind = "inference" => WithinLimit(policy, "max_model_bytes", n.params["model"].lit)
    /\ n.kind \in {"source", "mock_inference"} /\ "shape" \in DOMAIN n.params =>
         WithinLimit(policy, "max_tensor_bytes", n.params["shape"].lit)

NodesValid(s, policy) ==
    /\ \A i, j \in DOMAIN s.nodes : i # j => s.nodes[i].name # s.nodes[j].name
    /\ \A i \in DOMAIN s.nodes :
         LET n == s.nodes[i] IN
         /\ n.threads # None => n.threads \in 1..policy["max_nodes"]
         /\ s.execution.parallel # "Pipeline" => Or(n.threads, 1) <= 1
         /\ n.kind \in DOMAIN Elements
         /\ NodeParamsValid(n, policy)

ExecutionValid(s, policy) ==
    LET workers == s.execution.workers
        total == FoldLeft(LAMBDA acc, n : SaturatingAdd(acc, Or(n.threads, 1)), 0, s.nodes)
    IN  /\ Len(s.nodes) <= policy["max_nodes"]
        /\ Len(s.connections) <= policy["max_connections"]
        /\ total <= policy["max_nodes"]
        /\ s.execution.queue \in 1..policy["max_connections"]
        /\ workers # None =>
             s.execution.parallel = "Task" /\ workers \in 1..policy["max_nodes"]

ConnectionsValid(s) ==
    LET c == s.connections
        Kind(name) == {s.nodes[i].kind : i \in {j \in DOMAIN s.nodes : s.nodes[j].name = name}}
        Ports(name, side) == UNION {Elements[k][side] : k \in Kind(name)}
    IN  /\ \A i \in DOMAIN c :
             LET out == find_port(Ports(c[i].from.lit, "outs"), c[i].out)
                 in  == find_port(Ports(c[i].to.lit, "ins"), c[i].in)
             IN  /\ out # {} /\ in # {}
                 /\ \A o \in out, n \in in : None \in {o.dtype, n.dtype} \/ o.dtype = n.dtype
                 /\ \A j \in DOMAIN s.nodes : s.nodes[j].name = c[i].from.lit => ~s.nodes[j].sink
        /\ \A i, j \in DOMAIN c :      \* also: no connection twice
             i # j => <<c[i].to, c[i].in>> # <<c[j].to, c[j].in>>
        /\ \A i \in DOMAIN s.nodes : \A p \in Elements[s.nodes[i].kind].ins :
             p.required => \E j \in DOMAIN c : c[j].to.lit = s.nodes[i].name /\ c[j].in = p.name

validate_with_policy(s, policy) ==
    /\ ExecutionValid(s, policy)
    /\ NodesValid(s, policy)
    /\ ConnectionsValid(s)
    /\ s.allow_cycles \/ ~has_cycle({s.nodes[i].name : i \in DOMAIN s.nodes},
                             [i \in DOMAIN s.connections |->
                                <<s.connections[i].from.lit, s.connections[i].to.lit>>])

-----------------------------------------------------------------------------
(* Loading.  `seen` is what the recursion carries: how many paths were     *)
(* collected, how many bytes were read.                                    *)

Refused == [spec |-> Err, seen |-> None]

\* The part of normalisation that follows the includes.
Expand(s, policy) ==
    LET explicit(i) == DOMAIN s.nodes[i].params
        known == \A i \in DOMAIN s.nodes : s.nodes[i].template \in DOMAIN s.templates \cup {None}
        nodes == [i \in DOMAIN s.nodes |->
                    apply_defaults(apply_node_overrides(
                        apply_templates(s.nodes[i], s.templates), explicit(i)), s.defaults)]
        r == apply_variables([s EXCEPT !.nodes = nodes, !.includes = <<>>])
    IN  IF known /\ validate_references(r) /\ validate_with_policy(r, policy) THEN r ELSE Err

RECURSIVE normalize_with_base_dir_tracked(_, _, _, _, _), load_from_path_tracked(_, _, _, _, _)

\* Each include narrows the policy for its own includes; a file on the way
\* to itself is a cycle, one that is merely included twice is read twice.
load_from_path_tracked(files, path, policy, resolving, seen) ==
    LET f         == files[path]
        total     == SaturatingAdd(seen.total, f.size)
        effective == effective_for(policy, f.spec.limits)
    IN  IF path \in resolving \/ total > policy["max_config_bytes"] \/ f.spec = Err THEN Refused
        ELSE IF effective = Err THEN Refused
        ELSE IF \/ f.size > effective["max_config_bytes"]
                \/ Cardinality(resolving) + 1 > SaturatingAdd(effective["max_include_depth"], 1)
        THEN Refused
        ELSE normalize_with_base_dir_tracked(files, f.spec, effective, resolving \cup {path},
                                             [seen EXCEPT !.total = total])

normalize_with_base_dir_tracked(files, s, policy, resolving, seen) ==
    LET Include(acc, path) ==
          IF acc.spec = Err THEN acc
          ELSE IF path \notin DOMAIN files THEN Refused
          ELSE IF ~files[path].inside \/ acc.seen.included + 1 > SaturatingAdd(policy["max_include_count"], 1)
          THEN Refused
          ELSE LET r == load_from_path_tracked(files, path, policy, resolving,
                                               [acc.seen EXCEPT !.included = @ + 1])
               IN  IF r.spec = Err THEN Refused
                   ELSE [spec |-> merge_included(acc.spec, r.spec), seen |-> r.seen]
        included == FoldLeft(Include, [spec |-> DefaultSpec, seen |-> seen], s.includes)
        merged   == merge_included(included.spec, s)
    IN  IF s.api \notin {"dg/v1", "v1"} \/ s.kind # "Graph" \/ included.spec = Err THEN Refused
        ELSE [spec |-> Expand(merged, policy), seen |-> included.seen]

load_from_path_with_policy(files, path, policy) ==
    IF path \notin DOMAIN files THEN Refused
    ELSE load_from_path_tracked(files, path, policy, {}, [included |-> 1, total |-> 0])

\* A description that is not in a file can include nothing.
normalize_with_base_dir(s, policy) ==
    IF s.includes # <<>> THEN Err
    ELSE normalize_with_base_dir_tracked(<< >>, s, policy, {}, [included |-> 0, total |-> 0]).spec
=============================================================================
