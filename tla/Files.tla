-------------------------------- MODULE Files -------------------------------
(***************************************************************************)
(* Container::do_request and what begin_execute, begin_compile,            *)
(* begin_format and the others do around it (orchestrator/src/             *)
(* coordinator.rs), with the worker's file requests (worker.rs).           *)
(*                                                                         *)
(* A request sends all its deletions and writes, and a manifest made from  *)
(* the original one, at once; each becomes a task of its own in the worker *)
(* and these tasks take effect in any order.  When all are answered cargo  *)
(* is started; compile and format then read files back.                    *)
(*                                                                         *)
(* The requests of one container come one after the other, but a new one   *)
(* may start while the one before it is being aborted (CoordinatorManager  *)
(* ::spawn), and dropping a request does not call back what it has sent.   *)
(* The channels between the two sides are in Commander.tla, cargo's life   *)
(* as a process is in Execution.tla and Worker.tla.                        *)
(***************************************************************************)
EXTENDS Lowering, Naturals

CONSTANTS Request,      \* the requests that may be made
          Original,     \* Cargo.toml as the container has it at its start
          MaxRequests,  \* bound on the requests made
          NParallel,    \* CoordinatorManager::N_PARALLEL
          Faults        \* whether file operations and starting cargo may fail

ASSUME FilesAssumption ==
    /\ MaxRequests \in Nat /\ NParallel \in Nat \ {0} /\ Faults \in BOOLEAN
    /\ \A r \in Request : r.mode \in {"debug", "release"}

VARIABLES
    req,          \* the requests made so far
    stage,        \* per request: "files", "cargo", "exited", "done", "failed", "dropped"
    aborting,     \* requests told to abort
    ops,          \* file operations sent and not yet answered: <<request, kind, path>>
    cargo,        \* per request, its processes: "none", "running", "ended", or
                  \* "orphaned": cargo is over, a descendant of it is not
    cargoSuccess, \* per request, whether cargo succeeded
    sources,      \* the project's files: <<text, form>>
    manifest,     \* Cargo.toml
    compilation,  \* the output file: a sequence of at most one
    modules,      \* the WebAssembly modules in target/: per place, at most one
    response,     \* per request, what was read back: a set
    strays        \* per request, the earlier ones with something under way when it began

diskVars == <<sources, manifest, compilation, modules>>
filesVars == <<req, stage, aborting, ops, cargo, cargoSuccess, diskVars, response, strays>>

Id == DOMAIN req
Active == {i \in Id : stage[i] \in {"files", "cargo", "exited"}}
OpsOf(i) == {op \in ops : op[1] = i}

Path == Candidates \cup UNION {DOMAIN FilesOf(r) : r \in Request}

\* No file of a request has the name of the compiler's output, OUTPUT_PATH: all
\* requests of the server are Code::Single.
ASSUME PathAssumption == "compilation" \notin Path

\* Forms of a file: as written, formatted, half written, or not there.
Absent == <<"", "absent">>
Written(r, p) == <<FilesOf(r)[p], "raw">>
HalfManifest == [Original EXCEPT !.edition = "torn"]

\* Where target/ may hold a module: the directories of the two profiles, and
\* wherever else a program puts one.
Places == {"debug", "release", "other"}

\* An output of some program that is no compiler.
Junk == [from |-> [p \in Path |-> Absent], manifest |-> HalfManifest,
         command |-> [args |-> <<>>, envs |-> {}]]

FilesInit ==
    /\ req = <<>> /\ stage = <<>> /\ aborting = {} /\ ops = {}
    /\ cargo = <<>> /\ cargoSuccess = <<>> /\ response = <<>> /\ strays = <<>>
    /\ sources = [p \in Path |-> IF p = "src/main.rs" THEN <<"hello", "raw">> ELSE Absent]
    /\ manifest = Original /\ compilation = <<>>
    /\ modules = [l \in Places |-> <<>>]

-----------------------------------------------------------------------------
(* The coordinator's side of a request *)

\* What do_request sends: delete_files, write_files and modify_cargo_toml.
FileOps(i, r) ==
         {<<i, "delete", p>> : p \in DeleteRequests(r)}
    \cup {<<i, "write", p>> : p \in WriteRequests(r)}
    \cup {<<i, "manifest", "Cargo.toml">>}

\* A new request starts and the one before it is told to abort.
BeginRequest(r) ==
    /\ Len(req) < MaxRequests /\ Cardinality(Active) < NParallel
    /\ LET i == Len(req) + 1 IN
         /\ req' = Append(req, r)
         /\ stage' = Append(stage, "files")
         /\ ops' = ops \cup FileOps(i, r)
         /\ strays' = Append(strays, {j \in Id : \/ j \in Active \/ OpsOf(j) # {}
                                                 \/ cargo[j] \in {"running", "orphaned"}})
    /\ aborting' = aborting \cup Active
    /\ cargo' = Append(cargo, "none") /\ cargoSuccess' = Append(cargoSuccess, FALSE)
    /\ response' = Append(response, {})
    /\ UNCHANGED diskVars

\* The future is gone: what it had not sent yet is lost, the rest stays sent.
Forsake(i, how) ==
    /\ stage' = [stage EXCEPT ![i] = how]
    /\ \E lost \in SUBSET OpsOf(i) : ops' = ops \ lost

DropRequest(i) ==
    /\ i \in aborting \cap Active
    /\ Forsake(i, "dropped")
    /\ UNCHANGED <<req, aborting, cargo, cargoSuccess, diskVars, response, strays>>

\* try_join! has all three; spawn_cargo_task.
StartCargo(i) ==
    /\ stage[i] = "files" /\ OpsOf(i) = {}
    /\ \/ /\ stage' = [stage EXCEPT ![i] = "cargo"]
          /\ cargo' = [cargo EXCEPT ![i] = "running"]
       \/ Faults /\ stage' = [stage EXCEPT ![i] = "failed"] /\ UNCHANGED cargo
    /\ UNCHANGED <<req, aborting, ops, cargoSuccess, diskVars, response, strays>>

\* Variant: the output is read whatever cargo's exit status.
EagerReadsBack(i) ==
    CASE req[i].kind = "compile" /\ compilation # <<>> -> {"compilation"}
      [] req[i].kind = "format"                        -> DOMAIN FilesOf(req[i])
      [] OTHER                                         -> {}

\* What is to be read back once cargo is over.
ReadsBack(i) ==
    CASE req[i].kind = "compile" /\ cargoSuccess[i] -> {"compilation"}
      [] req[i].kind = "format"                -> DOMAIN FilesOf(req[i])
      [] OTHER                                 -> {}

\* One answer of the worker to a ReadFileRequest.
ReadBack(i, p) ==
    /\ stage[i] = "exited" /\ p \in ReadsBack(i)
    /\ \A x \in response[i] : x[1] # p
    /\ IF p = "compilation"
         THEN IF compilation = <<>>
                THEN stage' = [stage EXCEPT ![i] = "failed"] /\ UNCHANGED response
                ELSE /\ response' = [response EXCEPT ![i] =
                                       @ \cup {<<p, compilation[1], PostprocessResult(req[i])>>}]
                     /\ UNCHANGED stage
         ELSE IF sources[p] = Absent
                THEN stage' = [stage EXCEPT ![i] = "failed"] /\ UNCHANGED response
                ELSE /\ response' = [response EXCEPT ![i] = @ \cup {<<p, sources[p]>>}]
                     /\ UNCHANGED stage
    /\ UNCHANGED <<req, aborting, ops, cargo, cargoSuccess, diskVars, strays>>

\* The response is complete.
ReturnResponse(i) ==
    /\ stage[i] = "exited"
    /\ {x[1] : x \in response[i]} = ReadsBack(i)
    /\ stage' = [stage EXCEPT ![i] = "done"]
    /\ UNCHANGED <<req, aborting, ops, cargo, cargoSuccess, diskVars, response, strays>>

-----------------------------------------------------------------------------
(* The worker's side *)

\* Variant: each request goes on from the manifest of the one before it.
CumulativeModifyFor(i) == ModifyCargoToml(req[i], manifest)

\* ModifyCargoToml::modify_for starts from the manifest it read at the start.
ModifyFor(i) == ModifyCargoToml(req[i], Original)

\* handle_write_file and handle_delete_file succeed.  A file that is not there
\* counts as deleted.
FileOpDone(op) ==
    /\ op \in ops /\ ops' = ops \ {op}
    /\ LET i == op[1]  p == op[3] IN
         CASE op[2] = "manifest" -> manifest' = ModifyFor(i) /\ UNCHANGED sources
           [] op[2] = "write"    -> /\ sources' = [sources EXCEPT ![p] = Written(req[i], p)]
                                    /\ UNCHANGED manifest
           [] op[2] = "delete"   -> /\ sources' = [sources EXCEPT ![p] = Absent]
                                    /\ UNCHANGED manifest
    /\ UNCHANGED <<req, stage, aborting, cargo, cargoSuccess, compilation, modules, response,
                   strays>>

\* One of them fails, and a write may leave half a file.  The first error ends
\* do_request's try_join!.
FileOpFails(op) ==
    /\ Faults /\ op \in ops
    /\ IF stage[op[1]] = "files"
         THEN /\ stage' = [stage EXCEPT ![op[1]] = "failed"]
              /\ \E lost \in SUBSET OpsOf(op[1]) : ops' = ops \ (lost \cup {op})
         ELSE UNCHANGED stage /\ ops' = ops \ {op}
    /\ \/ UNCHANGED <<sources, manifest>>
       \/ /\ op[2] = "write" /\ sources' = [sources EXCEPT ![op[3]] = <<@[1], "torn">>]
          /\ UNCHANGED manifest
       \/ op[2] = "manifest" /\ manifest' = HalfManifest /\ UNCHANGED sources
    /\ UNCHANGED <<req, aborting, cargo, cargoSuccess, compilation, modules, response, strays>>

-----------------------------------------------------------------------------
(* Cargo, the tools it starts and the program they run *)

\* The program itself runs; Miri runs it with -Zmiri-disable-isolation.
RunsCode(r) == r.kind \in {"execute", "miri"}

\* The crates that `cargo build --target=wasm32-unknown-unknown` makes a module of.
MakesModule(r) == r.crate \in {"bin", "cdylib"}

\* What a compiler makes of the project as it is now.  Cargo never takes its last
\* output for fresh: do_request has just written the sources.
MadeNow(i) == [from |-> sources, manifest |-> manifest,
               command |-> ExecuteCargoRequest(req[i])]

\* The script cargo-wasm.  It builds, and then converts whatever modules it finds
\* in target/, in the order of the directory, each over the one before it.  It
\* succeeds when it finds none, and then leaves the output file as it was.  A
\* failure may come after any of this.
CargoWasm(i, ok) ==
    /\ \/ MakesModule(req[i]) /\ modules' = [modules EXCEPT ![req[i].mode] = <<MadeNow(i)>>]
       \/ ~(MakesModule(req[i]) /\ ok) /\ UNCHANGED modules
    /\ LET found == {l \in Places : modules'[l] # <<>>} IN
         \/ \E last \in found : compilation' = modules'[last]
         \/ (found = {} \/ ~ok) /\ UNCHANGED compilation

\* `cargo rustc` writes the output file when it succeeds.
CargoRustc(i, ok) ==
    /\ compilation' = <<MadeNow(i)>> \/ (~ok /\ UNCHANGED compilation)
    /\ UNCHANGED modules

\* `cargo fmt` formats all files, or some before it fails.
CargoFmt(ok) ==
    /\ \E skipped \in SUBSET (IF ok THEN {} ELSE Path) :
         sources' = [p \in Path |-> IF sources[p][2] = "raw" /\ p \notin skipped
                                       THEN <<sources[p][1], "fmt">> ELSE sources[p]]
    /\ UNCHANGED <<manifest, compilation, modules>>

\* The program writes over a file: a source, the manifest, the output or a module.
ProgramScribbles ==
    \/ /\ \E p \in Path : sources' = [sources EXCEPT ![p] = <<"junk", "raw">>]
       /\ UNCHANGED <<manifest, compilation, modules>>
    \/ manifest' = HalfManifest /\ UNCHANGED <<sources, compilation, modules>>
    \/ compilation' = <<Junk>> /\ UNCHANGED <<sources, manifest, modules>>
    \/ /\ \E l \in Places : modules' = [modules EXCEPT ![l] = <<Junk>>]
       /\ UNCHANGED <<sources, manifest, compilation>>

Effects(i, ok) ==
    \/ /\ req[i].kind = "compile"
       /\ IF req[i].target = "wasm" THEN CargoWasm(i, ok) ELSE CargoRustc(i, ok)
       /\ UNCHANGED <<sources, manifest>>
    \/ req[i].kind = "format" /\ CargoFmt(ok)
    \/ req[i].kind \notin {"compile", "format"} /\ UNCHANGED diskVars
    \/ RunsCode(req[i]) /\ ProgramScribbles

\* Cargo up to its end.  It needs the file of the target it is told to build.
\* What a program started may go on after it.
CargoRuns(i) ==
    /\ cargo[i] = "running"
    /\ \/ cargo' = [cargo EXCEPT ![i] = "ended"]
       \/ RunsCode(req[i]) /\ cargo' = [cargo EXCEPT ![i] = "orphaned"]
    /\ LET found == \/ sources[PrimaryPath(req[i].crate)] # Absent
                    \/ ExecuteCargoRequest(req[i]).args[1] \notin {"run", "rustc", "wasm"}
       IN \E ok \in {FALSE} \cup {found} :
            /\ cargoSuccess' = [cargoSuccess EXCEPT ![i] = ok]
            /\ Effects(i, ok)
    /\ stage' = IF stage[i] = "cargo" THEN [stage EXCEPT ![i] = "exited"] ELSE stage
    /\ UNCHANGED <<req, aborting, ops, response, strays>>

\* CancelOnDropFuture: dropping a request has its cargo killed, some time later.
\* The worker kills the process it started and no descendant of it.
KillCargo(i) ==
    /\ stage[i] = "dropped" /\ cargo[i] = "running"
    /\ cargo' = [cargo EXCEPT ![i] = "orphaned"]
    /\ UNCHANGED <<req, stage, aborting, ops, cargoSuccess, diskVars, response, strays>>

\* The descendants go on doing what they were started for ...
OrphanWrites(i) ==
    /\ cargo[i] = "orphaned" /\ Effects(i, FALSE)
    /\ UNCHANGED <<req, stage, aborting, ops, cargo, cargoSuccess, response, strays>>

\* ... up to their end.
OrphanEnds(i) ==
    /\ cargo[i] = "orphaned" /\ cargo' = [cargo EXCEPT ![i] = "ended"]
    /\ UNCHANGED <<req, stage, aborting, ops, cargoSuccess, diskVars, response, strays>>

FilesNext ==
    \/ \E r \in Request : BeginRequest(r)
    \/ \E i \in Id : \/ DropRequest(i) \/ StartCargo(i) \/ ReturnResponse(i)
                     \/ CargoRuns(i) \/ KillCargo(i) \/ OrphanWrites(i) \/ OrphanEnds(i)
                     \/ \E p \in Path \cup {"compilation"} : ReadBack(i, p)
    \/ \E op \in ops : FileOpDone(op) \/ FileOpFails(op)

FilesSpec == FilesInit /\ [][FilesNext]_filesVars

-----------------------------------------------------------------------------
(* What a request asks the disk to be. *)
OwnFile(i, p) == IF p \in DOMAIN FilesOf(req[i]) THEN Written(req[i], p) ELSE Absent
OwnPaths(i) == Candidates \cup DOMAIN FilesOf(req[i])

\* The forms a file may have because of request j: written or half written by
\* it, deleted by it, or left by its cargo.
FileBy(j, p) == sources[p] = OwnFile(j, p) \/ sources[p][2] \in {"torn", "fmt"}
                \/ sources[p][1] = "junk"

\* When cargo is about to run for a request that was not aborted, every primary
\* file and every file of the request is what the request says, and the
\* manifest is the original one with this request's settings only: nothing is
\* left of the requests before it, whatever their crate types, and whatever
\* their programs wrote.  The one exception is an earlier request that still had
\* something under way in the worker when this one began, descendants of its
\* cargo included.  Other files that a program left in the project are not
\* covered (coordinator.rs do_request, websocket.rs CoordinatorManager::spawn).
SourcesAreOwn ==
    \A i \in Id : stage[i] = "cargo" /\ cargo[i] = "running" /\ i \notin aborting =>
      /\ \A p \in OwnPaths(i) : \/ sources[p] = OwnFile(i, p)
                                \/ \E j \in strays[i] : FileBy(j, p)
      /\ \/ manifest = ModifyCargoToml(req[i], Original)
         \/ \E j \in strays[i] : manifest \in {ModifyCargoToml(req[j], Original), HalfManifest}

ForWasm(r) == r.kind = "compile" /\ r.target = "wasm"

\* Request r may have left a module at place l.
LeavesModule(r, l) == RunsCode(r) \/ (ForWasm(r) /\ MakesModule(r) /\ l = r.mode)

\* A request for WebAssembly that makes no module, or that finds beside its own
\* one that an earlier request left elsewhere in target/.
MayTakeAnother(i) ==
    /\ ForWasm(req[i])
    /\ \/ ~MakesModule(req[i])
       \/ \E j \in Id, l \in Places : j < i /\ l # req[i].mode /\ LeavesModule(req[j], l)

\* The code a compile request returns was made by its own cargo from its own
\* files and not left behind by an earlier request, although all requests of a
\* container share the output file and target/; a compile that failed returns no
\* code.  A format request returns its own files, all formatted if cargo fmt
\* succeeded.  The exceptions are those of SourcesAreOwn and, exactly, the
\* requests for WebAssembly whose build leaves the choice of the output to the
\* loop of cargo-wasm (begin_compile, begin_format, cargo-wasm).
ResponseIsOwn ==
    \A i \in Id : stage[i] = "done" /\ i \notin aborting /\ strays[i] = {} =>
      LET r == req[i] IN
      /\ r.kind = "compile" /\ ~cargoSuccess[i] => response[i] = {}
      /\ r.kind = "compile" /\ cargoSuccess[i] /\ ~MayTakeAnother(i) =>
           \E x \in response[i] :
             /\ x[2].command = ExecuteCargoRequest(r)
             /\ x[2].manifest = ModifyCargoToml(r, Original)
             /\ \A p \in OwnPaths(i) : x[2].from[p] = OwnFile(i, p)
      /\ r.kind = "format" =>
           /\ {x[1] : x \in response[i]} = DOMAIN FilesOf(r)
           /\ \A x \in response[i] :
                /\ x[2][1] = FilesOf(r)[x[1]]
                /\ x[2][2] = "fmt" \/ (~cargoSuccess[i] /\ x[2][2] = "raw")
=============================================================================
