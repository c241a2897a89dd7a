-------------------------------- MODULE Gist --------------------------------
(***************************************************************************)
(* ui/src/gist.rs: code is shared as a gist and loaded again.  A file name *)
(* is a sequence of the pieces "x" (any letters), "/" and "%2F"; GitHub    *)
(* stores a gist as a map from names without slashes to contents.          *)
(***************************************************************************)
EXTENDS Naturals, Sequences, FiniteSets

CONSTANTS FileName,   \* names of the files shared
          Content,    \* what a file may contain
          MaxFiles    \* bound on the files shared

ASSUME GistAssumption == FileName \subseteq Seq(STRING) /\ MaxFiles \in Nat

VARIABLES
    shared,     \* the code shared: a sequence of <<name, content>>, <<>> is Single
    single,     \* the text of Code::Single
    stored,     \* the gist, or the request for it: a set of <<name, content>> with
                \* distinct names
    meta,       \* its Playground.toml: "none", "v1", "bad"
    loaded,     \* the code loaded: a set of <<name, content>>, or one <<content>>
    gistPhase   \* "start", "stored", "loaded"

gistVars == <<shared, single, stored, meta, loaded, gistPhase>>

MetaFilename == <<"Playground.toml">>
Filename == <<"playground.rs">>

\* V1::encode_filename: only slashes are escaped.
EncodeFilename(name) == [i \in DOMAIN name |-> IF name[i] = "/" THEN "%2F" ELSE name[i]]

\* V1::decode_filename: every escape is undone.
DecodeFilename(name) == [i \in DOMAIN name |-> IF name[i] = "%2F" THEN "/" ELSE name[i]]

GistInit ==
    /\ shared = <<>> /\ single = "" /\ stored = {} /\ meta = "none" /\ loaded = {}
    /\ gistPhase = "start"

\* The request builder keeps one content per name, the last one given.
AddFile(files, name, content) == {f \in files : f[1] # name} \cup {<<name, content>>}

\* create_future: one step of the fold over Code::Multiple.
ShareFile ==
    /\ gistPhase = "start" /\ Len(shared) < MaxFiles
    /\ \E name \in FileName, content \in Content :
         /\ shared' = Append(shared, <<name, content>>)
         /\ stored' = AddFile(stored, EncodeFilename(name), content)
    /\ UNCHANGED <<single, meta, loaded, gistPhase>>

\* The rest of create_future: Code::Single, Playground.toml, send.
CreateGist ==
    /\ gistPhase = "start" /\ gistPhase' = "stored"
    /\ \E text \in Content :
         LET files == IF shared = <<>> THEN {<<EncodeFilename(Filename), text>>} ELSE stored
         IN /\ single' = IF shared = <<>> THEN text ELSE single
            /\ stored' = {f \in files : f[1] # MetaFilename}
    /\ meta' = "v1"
    /\ UNCHANGED <<shared, loaded>>

\* Someone edits the gist at GitHub, or it was not made by the playground.
EditMeta ==
    /\ gistPhase = "stored" /\ meta = "v1" /\ meta' \in {"none", "bad"}
    /\ UNCHANGED <<shared, single, stored, loaded, gistPhase>>

\* Variant: names are given as GitHub has them.
RawDecoded(files) == files

\* decode_filename, for gists with a V1 Playground.toml.
Decoded(files) == {<<DecodeFilename(f[1]), f[2]>> : f \in files}

\* load_future and From<octocrab Gist>: remove_meta, then Single for up to one file.
LoadGist ==
    /\ gistPhase = "stored" /\ gistPhase' = "loaded"
    /\ LET files == IF meta = "v1" THEN Decoded(stored) ELSE stored
       IN loaded' = IF Cardinality(stored) > 1 THEN files ELSE {<<f[2]>> : f \in files}
    /\ UNCHANGED <<shared, single, stored, meta>>

GistNext == ShareFile \/ CreateGist \/ EditMeta \/ LoadGist

-----------------------------------------------------------------------------
\* Names that a gist can hold together: all different, none of them the
\* playground's own, and none with a percent escape of its own.
Storable(code) ==
    /\ \A i, j \in DOMAIN code : i # j => code[i][1] # code[j][1]
    /\ \A i \in DOMAIN code : /\ code[i][1] # MetaFilename
                              /\ \A k \in DOMAIN code[i][1] : code[i][1][k] # "%2F"

\* Code that is shared and loaded again is the same code, with directories and
\* all, as long as its names can be stored and nobody removed Playground.toml.
\* One file alone comes back as Code::Single, without its name.
GistRoundTrip ==
    gistPhase = "loaded" /\ meta = "v1" /\ Storable(shared) =>
      CASE Len(shared) = 0 -> loaded = {<<single>>}
        [] Len(shared) = 1 -> loaded = {<<shared[1][2]>>}
        [] OTHER           -> loaded = {shared[i] : i \in DOMAIN shared}
=============================================================================
