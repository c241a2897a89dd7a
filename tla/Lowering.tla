------------------------------ MODULE Lowering ------------------------------
(***************************************************************************)
(* How a request for a compiler or a tool is turned into files to delete   *)
(* and to write, a manifest and a cargo command line: CrateType, Code and  *)
(* the LowerRequest and CargoTomlModifier implementations of               *)
(* orchestrator/src/coordinator.rs, and the crate modify-cargo-toml.       *)
(*                                                                         *)
(* A request is a record with the fields                                   *)
(*   kind       "execute", "compile", "format", "clippy", "miri", "expand" *)
(*   crate      "bin", "lib", "dylib", ... or "proc-macro"                 *)
(*   edition, channel, mode, tests, backtrace, tree (AliasingModel::Tree)  *)
(*   target     "asm", "llvm-ir", "mir", "hir" or "wasm"                   *)
(*   flavor, demangle, filter   the parts of CompileTarget::Assembly       *)
(*   code       [single, text, files]: Code::Single(text) or the map files *)
(* and a manifest is what the requests may change of Cargo.toml.           *)
(***************************************************************************)
EXTENDS Sequences, FiniteSets, SequencesExt

-----------------------------------------------------------------------------
(* CrateType and Code *)
PrimaryPath(crate) == IF crate = "bin" THEN "src/main.rs" ELSE "src/lib.rs"

\* Code::files, as a function from path to text.
FilesOf(r) ==
    IF r.code.single THEN [p \in {PrimaryPath(r.crate)} |-> r.code.text]
                     ELSE r.code.files

\* The files a request may find and must not: `candidates` in delete_requests.
Candidates == {"build.rs", "src/lib.rs", "src/main.rs"}

DeleteRequests(r) == Candidates \ DOMAIN FilesOf(r)

WriteRequests(r) == DOMAIN FilesOf(r)

-----------------------------------------------------------------------------
(* modify-cargo-toml *)
SetEdition(m, edition) == [m EXCEPT !.edition = edition]

RemoveDependencies(m) == [m EXCEPT !.dependencies = {}]

EnsureStringInVec(values, v) == IF Contains(values, v) THEN values ELSE Append(values, v)

SetCrateType(m, crate) ==
    IF crate = "proc-macro"
      THEN [m EXCEPT !.procMacro = TRUE]
      ELSE [m EXCEPT !.crateType = EnsureStringInVec(@, crate)]

SetReleaseLto(m, lto) == [m EXCEPT !.lto = lto]

\* CargoTomlModifier::modify_cargo_toml; the six requests differ only in wasm.
ModifyCargoToml(r, m) ==
    LET m1 == SetEdition(m, r.edition)
        m2 == IF r.crate = "bin" THEN m1 ELSE SetCrateType(m1, r.crate)
    IN  IF r.kind = "compile" /\ r.target = "wasm"
          THEN SetReleaseLto(RemoveDependencies(m2), TRUE)
          ELSE m2

-----------------------------------------------------------------------------
(* LowerRequest::execute_cargo_request, one operator per kind of request *)
If(condition, args) == IF condition THEN args ELSE <<>>

Release(r) == If(r.mode = "release", <<"--release">>)

TargetArgs(r) == IF r.crate = "bin" THEN <<"--bin", "playground">> ELSE <<"--lib">>

Backtrace(r) == IF r.backtrace THEN {"RUST_BACKTRACE"} ELSE {}

ExecuteCargo(r) ==
    [args |-> <<CASE r.tests                      -> "test"
                  [] ~r.tests /\ r.crate = "bin"  -> "run"
                  [] ~r.tests /\ r.crate # "bin"  -> "build">> \o Release(r),
     envs |-> Backtrace(r)]

EmitArgs(r) ==
    CASE r.target = "asm" ->
           <<"--", "--emit", "asm=compilation">>
           \o If(r.channel = "nightly", <<"-Z", "verbose-asm">>)
           \o <<"-C", IF r.flavor = "att" THEN "llvm-args=-x86-asm-syntax=att"
                                          ELSE "llvm-args=-x86-asm-syntax=intel">>
      [] r.target = "llvm-ir" -> <<"--", "--emit", "llvm-ir=compilation">>
      [] r.target = "mir"     -> <<"--", "--emit", "mir=compilation">>
      [] r.target = "hir"     -> <<"--", "-Zunpretty=hir", "-o", "compilation">>
      [] r.target = "wasm"    -> <<"-o", "compilation">>

CompileCargo(r) ==
    [args |-> <<IF r.target = "wasm" THEN "wasm" ELSE "rustc">>
              \o Release(r) \o TargetArgs(r) \o EmitArgs(r),
     envs |-> Backtrace(r)]

MiriCargo(r) ==
    [args |-> <<"miri", IF r.tests THEN "test" ELSE "run">>,
     envs |-> {"MIRI_SYSROOT", "-Zmiri-disable-isolation"}
              \cup (IF r.tree THEN {"-Zmiri-tree-borrows"} ELSE {})]

FormatCargo(r) == [args |-> <<"fmt">>, envs |-> {}]

ClippyCargo(r) == [args |-> <<"clippy">>, envs |-> {}]

MacroExpansionCargo(r) ==
    [args |-> <<"rustc">> \o TargetArgs(r) \o <<"--", "-Zunpretty=expanded">>, envs |-> {}]

ExecuteCargoRequest(r) ==
    CASE r.kind = "execute" -> ExecuteCargo(r)
      [] r.kind = "compile" -> CompileCargo(r)
      [] r.kind = "format"  -> FormatCargo(r)
      [] r.kind = "clippy"  -> ClippyCargo(r)
      [] r.kind = "miri"    -> MiriCargo(r)
      [] r.kind = "expand"  -> MacroExpansionCargo(r)

\* CompileRequest::postprocess_result: what is done to the compiler's output.
PostprocessResult(r) ==
    IF r.target # "asm" THEN <<>>
    ELSE If(r.demangle, <<"demangle_asm">>) \o If(r.filter, <<"filter_asm">>)
=============================================================================
