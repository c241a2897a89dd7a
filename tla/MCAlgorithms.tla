---------------------------- MODULE MCAlgorithms ----------------------------
(***************************************************************************)
(* Model of AsmFilter, Gist and TopCrates.  They share no state: a         *)
(* behaviour runs one of them and leaves the others as they start.         *)
(***************************************************************************)
EXTENDS AsmFilter, Gist, TopCrates

line(k, n, r) == [kind |-> k, name |-> n, refs |-> r]

\* c -> d -> a: a chain of data labels.
chain == <<line("LabelDecl", "c", {}), line("Data", "", {"d"}),
           line("LabelDecl", "d", {}), line("Data", "", {"a"}),
           line("Opcode", "", {"c"})>>
MCPrefix == {<<>>, chain}
MCLine ==
    {chain[n] : n \in DOMAIN chain} \cup
    {line("Opcode", "", {}), line("Opcode", "", {"a"}), line("Opcode", "", {"b", "p"}),
     line("LabelDecl", "a", {}), line("LabelDecl", "b", {}), line("LabelDecl", "p", {}),
     line("Data", "", {}), line("Data", "", {"b"}), line("Data", "", {"a", "p"}),
     line("FunctionDecl", "p", {}), line("FunctionDecl", "b", {}),
     line("Directive", "", {}), line("Misc", "", {})}
MCPath == {"p"}

MCFileName == {<<"x">>, <<"x", "/", "x">>, <<"x", "%2F", "x">>, <<"/">>, MetaFilename, Filename}

MCPackage == {"a", "b", "c1", "c2", "d"}
MCName    == [p \in MCPackage |-> CASE p = "a" -> 1 [] p = "b" -> 2 [] p = "d" -> 4 [] OTHER -> 3]
MCVersion == [p \in MCPackage |-> IF p = "c2" THEN 2 ELSE 1]
MCTop     == {1, 3}
MCEdge    == {<<"a", "b">>, <<"a", "c1">>, <<"b", "c2">>, <<"b", "d">>, <<"c1", "d">>, <<"c2", "d">>}
dep(gate, features, uses, ours) == [gate |-> gate, lite |-> Lite(features, uses), ours |-> ours]
MCDep == {dep("", {}, FALSE, TRUE), dep("", {"more"}, TRUE, TRUE),
          dep("more", {"default"}, FALSE, TRUE), dep("default", {}, TRUE, FALSE)}
MCMetadata == {[p \in MCPackage |-> IF p \in ps THEN {Lite({"more"}, FALSE)} ELSE {}] :
                 ps \in {{}, {"b", "c2"}, {"c1"}}}
MCExclusions == {[n \in {} |-> {}], [n \in {3} |-> {2}]}

Vars == <<asmVars, gistVars, crVars>>
NoRegistry == deps = {} /\ metadata = [p \in Package |-> {}] /\ exclusions = [n \in {} |-> {}]

Init == AsmInit /\ GistInit /\ CratesInit

Next == \/ AsmNext /\ gistPhase = "start" /\ shared = <<>> /\ crPhase = "start" /\ NoRegistry
           /\ UNCHANGED <<gistVars, crVars>>
        \/ GistNext /\ block = <<>> /\ asmPhase = "scan" /\ crPhase = "start" /\ NoRegistry
           /\ UNCHANGED <<asmVars, crVars>>
        \/ CratesNext /\ block = <<>> /\ asmPhase = "scan" /\ gistPhase = "start" /\ shared = <<>>
           /\ UNCHANGED <<asmVars, gistVars>>

Spec == Init /\ [][Next]_Vars
=============================================================================
