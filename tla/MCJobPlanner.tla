---------------------------- MODULE MCJobPlanner ----------------------------
(* Two folders on C, one of them case sensitive, and the jobs in which        *)
(* destinations meet: loose files of one name, folders merged into one,       *)
(* sources inside one another, a destination inside a source.                 *)
EXTENDS JobPlanner, TLC

x == <<"C", "x">>
y == <<"C", "y">>
In(d, n) == Append(d, n)

MCName == {"C", "D", "s", "x", "y", "a", "A", "b"}
MCFold == [n \in MCName |-> IF n = "A" THEN "a" ELSE n]
MCSensitive == {x, <<"D", "s">>}

Preserve(sources, destination) ==
    [sources |-> sources, destination |-> destination, layout |-> "PreserveSourceFolder"]
Contents(sources, destination) ==
    [sources |-> sources, destination |-> destination, layout |-> "ContentsOnly"]

MCJobs ==
    {Preserve(<<x>>, <<"D">>), Preserve(<<x>>, <<"D", "s">>),
     Preserve(<<In(x, "a"), In(y, "a"), x>>, <<"D">>),
     Preserve(<<In(x, "A"), In(y, "a"), In(y, "y")>>, <<"D">>),
     Contents(<<x, y>>, <<"D">>), Contents(<<x, In(x, "a")>>, <<"D", "s">>),
     Preserve(<<y, x>>, In(x, "a"))}

\* What may be at each place; a folder may hold something.
Places == {In(x, "a"), In(x, "A"), In(In(x, "a"), "b"), In(y, "a"), In(y, "y")}
Kinds(p) == CASE p = In(x, "a") -> {"File", "Directory"}
              [] p = In(x, "A") -> {"Nothing", "File", "Surrogate"}
              [] p = In(In(x, "a"), "b") -> {"Nothing", "File", "Directory"}
              [] p = In(y, "a") -> {"File", "Directory", "Device"}
              [] p = In(y, "y") -> {"Nothing", "File", "Surrogate"}

Fixed == (x :> "Directory") @@ (y :> "Directory")
Sound(f) == f[In(In(x, "a"), "b")] # "Nothing" => f[In(x, "a")] = "Directory"
Forms == {f \in [Places -> {"Nothing", "File", "Directory", "Surrogate", "Device"}] :
              Sound(f) /\ \A p \in Places : f[p] \in Kinds(p)}
MCTrees == {[p \in {q \in Places : f[q] # "Nothing"} |-> f[p]] @@ Fixed : f \in Forms}
=============================================================================
