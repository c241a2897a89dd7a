------------------------------ MODULE MCFiles -------------------------------
EXTENDS Files

Base == [kind |-> "execute", crate |-> "bin", edition |-> "2021", channel |-> "stable",
         mode |-> "debug", tests |-> FALSE, backtrace |-> FALSE, tree |-> FALSE,
         target |-> "asm", flavor |-> "att", demangle |-> TRUE, filter |-> TRUE,
         code |-> [single |-> TRUE, text |-> "a", files |-> <<>>]]

Two(x, y) == [p \in {"src/main.rs", "src/lib.rs"} |-> IF p = "src/main.rs" THEN x ELSE y]

MCRequest ==
    {Base,
     [Base EXCEPT !.crate = "lib", !.edition = "2024", !.code.text = "b", !.kind = "compile"],
     [Base EXCEPT !.kind = "compile", !.target = "wasm", !.code.text = "c"],
     [Base EXCEPT !.kind = "compile", !.target = "wasm", !.code.text = "f", !.mode = "release"],
     [Base EXCEPT !.kind = "compile", !.target = "wasm", !.crate = "proc-macro",
                  !.code.text = "g"],
     [Base EXCEPT !.kind = "format", !.code = [single |-> FALSE, text |-> "",
                                               files |-> Two("d", "e")]],
     [Base EXCEPT !.kind = "miri", !.channel = "nightly", !.tests = TRUE, !.tree = TRUE],
     [Base EXCEPT !.kind = "expand", !.crate = "cdylib", !.edition = "2015"]}

MCOriginal == [edition |-> "2021", crateType |-> <<>>, procMacro |-> FALSE,
               dependencies |-> {"rand"}, lto |-> FALSE]

\* Bound on what programs have left on the disk at a time.
MaxScribbles == 1
Scribbled ==
    Cardinality({p \in Path : sources[p][1] = "junk"} \cup {l \in Places : modules[l] = <<Junk>>})
    + (IF manifest = HalfManifest THEN 1 ELSE 0) + (IF compilation = <<Junk>> THEN 1 ELSE 0)
FewScribbles == Scribbled <= MaxScribbles

\* Not so in the code: whatever a compile returns was made from its own files.
\* MCFilesWasm.cfg shows a request for WebAssembly that is answered with the
\* module an earlier one left in target/ (cargo-wasm).
NoOtherModule ==
    \A i \in Id : stage[i] = "done" /\ i \notin aborting /\ strays[i] = {} =>
      \A x \in response[i] :
        req[i].kind = "compile" => \A p \in OwnPaths(i) : x[2].from[p] = OwnFile(i, p)
=============================================================================
