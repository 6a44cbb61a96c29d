--------------------------- MODULE ReferenceBuild ---------------------------
(***************************************************************************)
(* reference prepare and reference build (tools/nrfkit_tools/reference.py):*)
(* prepare checks an official workspace against the source lock and writes *)
(* a receipt; build checks the receipt again, runs west in the build       *)
(* directory of the oracle and writes a manifest that names the receipt.   *)
(*                                                                         *)
(* Version v of the lock expects the module commit v, the content v of the *)
(* oracle files and of the project's fixture; Edited is any other content. *)
(* The two commands are two processes; they may overlap when Overlap says  *)
(* so. Workspace, project and toolchains change only between commands.     *)
(***************************************************************************)
EXTENDS Naturals

CONSTANTS
    Versions,    \* versions of the source lock
    Toolchains,  \* directories of official toolchains
    Variants,    \* the compiler layouts that _toolchain_variant() knows
    Edited,      \* content that no lock expects
    None,
    Overlap      \* a preparation may run during a build

ConstantsOk ==
    /\ Overlap \in BOOLEAN
    /\ Edited \notin Versions /\ None \notin Versions \cup Toolchains \cup Variants

VARIABLES
    \* The project and the official workspace.
    lock,      \* version of docs/provenance/sources.lock
    fixture,   \* content of project_files
    head,      \* commit of the modules
    files,     \* content of the oracle files
    variant,   \* layout of each toolchain, None without exactly one compiler
    \* Below .work/reference.
    receipt,   \* sources/<oracle>.json
    cache,     \* toolchain that the build directory is configured for
    image,     \* what west compiled into it
    manifest,  \* image-manifest.json
    \* The two processes.
    ppc, chosen, contract,            \* prepare
    bpc, loaded, bound, code          \* build: receipt read, receipt hashed, exit code

sources == <<lock, fixture, head, files, variant>>

products == <<cache, image, manifest>>

prepareVars == <<ppc, chosen, contract>>

buildVars == <<bpc, loaded, bound, code>>

vars == <<sources, receipt, products, prepareVars, buildVars>>

Init ==
    /\ lock \in Versions /\ fixture = lock /\ head \in Versions /\ files = head
    /\ variant \in [Toolchains -> Variants]
    /\ receipt = None /\ cache = None /\ image = None /\ manifest = None
    /\ ppc = "idle" /\ chosen = None /\ contract = None
    /\ bpc = "idle" /\ loaded = None /\ bound = None /\ code = None

Idle == ppc = "idle" /\ bpc = "idle"

----------------------------------------------------------------------------
\* A checkout of the project moves the lock and the fixture, one of the workspace the
\* modules and their files.
Checkout ==
    /\ Idle
    /\ \/ \E v \in Versions : lock' = v /\ fixture' = v /\ UNCHANGED <<head, files, variant>>
       \/ \E v \in Versions : head' = v /\ files' = v /\ UNCHANGED <<lock, fixture, variant>>
    /\ UNCHANGED <<receipt, products, prepareVars, buildVars>>

Edit ==
    /\ Idle
    /\ \/ fixture' = Edited /\ UNCHANGED files
       \/ files' = Edited /\ UNCHANGED fixture
    /\ UNCHANGED <<lock, head, variant, receipt, products, prepareVars, buildVars>>

Install ==
    /\ Idle
    /\ \E t \in Toolchains, v \in Variants \cup {None} : variant' = [variant EXCEPT ![t] = v]
    /\ UNCHANGED <<lock, fixture, head, files, receipt, products, prepareVars, buildVars>>

----------------------------------------------------------------------------
\* prepare(): the lock is read; the toolchain must have one compiler.
PrepareStart ==
    /\ ppc = "idle" /\ (bpc = "idle" \/ Overlap)
    /\ \E t \in Toolchains :
        /\ variant[t] # None
        /\ chosen' = t /\ contract' = lock /\ ppc' = "check"
    /\ UNCHANGED <<sources, receipt, products, buildVars>>

\* Module commits, oracle files and fixtures, each against the lock.
PrepareChecks == head = contract /\ files = contract /\ fixture = contract

\* The receipt, with the hash of the lock, replaces the earlier one; or a check raised.
PrepareEnd ==
    /\ ppc = "check"
    /\ \/ PrepareChecks
          /\ receipt' = [lock |-> lock, toolchain |-> chosen, variant |-> variant[chosen],
                         files |-> files]
       \/ UNCHANGED receipt
    /\ ppc' = "idle" /\ chosen' = None /\ contract' = None
    /\ UNCHANGED <<sources, products, buildVars>>

----------------------------------------------------------------------------
BuildStart ==
    /\ bpc = "idle" /\ (ppc = "idle" \/ Overlap)
    /\ bpc' = "load" /\ UNCHANGED <<sources, receipt, products, prepareVars, loaded, bound, code>>

\* load_receipt(): the lock is still the one of the receipt, the modules and fixtures are
\* those it expects, and the toolchain has the recorded layout.
ReceiptValid ==
    /\ receipt # None /\ receipt.lock = lock
    /\ head = lock /\ fixture = lock
    /\ variant[receipt.toolchain] # None /\ receipt.variant = variant[receipt.toolchain]

LoadReceipt ==
    /\ bpc = "load" /\ ReceiptValid
    /\ loaded' = receipt /\ bpc' = "hash"
    /\ UNCHANGED <<sources, receipt, products, prepareVars, bound, code>>

\* The receipt file is read again for source_receipt_sha256.
HashReceipt ==
    /\ bpc = "hash"
    /\ bound' = receipt /\ bpc' = "configure"
    /\ UNCHANGED <<sources, receipt, products, prepareVars, loaded, code>>

\* Mutant of WestConfigure: the cache of an earlier build is kept.
MutantWestConfigure ==
    /\ bpc = "configure"
    /\ cache' = IF cache = None THEN [toolchain |-> loaded.toolchain, variant |-> loaded.variant]
                                ELSE cache
    /\ image' = None /\ manifest' = None /\ bpc' = "compile"
    /\ UNCHANGED <<sources, receipt, prepareVars, loaded, bound, code>>

\* west build --pristine=always empties the build directory, the manifest included, and
\* configures it for the toolchain in the environment.
WestConfigure ==
    /\ bpc = "configure"
    /\ cache' = [toolchain |-> loaded.toolchain, variant |-> loaded.variant]
    /\ image' = None /\ manifest' = None /\ bpc' = "compile"
    /\ UNCHANGED <<sources, receipt, prepareVars, loaded, bound, code>>

\* It compiles what is in the workspace. A step after the link, or evidence that the lock
\* demands of the result, may still fail.
WestCompile ==
    /\ bpc = "compile"
    /\ \E done \in BOOLEAN, conforms \in BOOLEAN :
        /\ image' = [built |-> cache, head |-> head, files |-> files, fixture |-> fixture,
                     done |-> done, conforms |-> conforms]
        /\ code' = IF done THEN 0 ELSE 1
    /\ bpc' = "exit"
    /\ UNCHANGED <<sources, receipt, cache, manifest, prepareVars, loaded, bound>>

\* run_logged(): the process group is terminated and the exit code is 124.
Timeout ==
    /\ bpc \in {"configure", "compile"}
    /\ code' = 124 /\ bpc' = "exit"
    /\ UNCHANGED <<sources, receipt, products, prepareVars, loaded, bound>>

ExitOk == code = 0

\* _build_manifest(): the declared artifacts exist, lie in the allowlists and show the
\* evidence.
ImageOk == image # None /\ image.conforms

WriteManifest ==
    /\ bpc = "exit" /\ ExitOk /\ ImageOk
    /\ manifest' = [receipt |-> bound, image |-> image]
    /\ bpc' = "idle" /\ loaded' = None /\ bound' = None /\ code' = None
    /\ UNCHANGED <<sources, receipt, cache, image, prepareVars>>

\* A check that fails, a profile the lock does not define, or an interrupt: run_logged()
\* terminates west and the report says failed.
Raise ==
    /\ bpc # "idle"
    /\ bpc' = "idle" /\ loaded' = None /\ bound' = None /\ code' = None
    /\ UNCHANGED <<sources, receipt, products, prepareVars>>

----------------------------------------------------------------------------
Next ==
    \/ Checkout \/ Edit \/ Install
    \/ PrepareStart \/ PrepareEnd
    \/ BuildStart \/ LoadReceipt \/ HashReceipt \/ WestConfigure \/ WestCompile \/ Timeout
    \/ WriteManifest \/ Raise

Spec == Init /\ [][Next]_vars

----------------------------------------------------------------------------
\* reference-workflow.md:9, "The image manifest binds the source receipt": the toolchain
\* that compiled the image is the one of the receipt the manifest names.
BindsToolchain ==
    manifest # None =>
        /\ manifest.image.built.toolchain = manifest.receipt.toolchain
        /\ manifest.image.built.variant = manifest.receipt.variant

\* The modules and fixtures that were compiled are those of the lock the bound receipt
\* was made for, whatever was checked out between preparation and build.
BindsModules ==
    manifest # None =>
        /\ manifest.image.head = manifest.receipt.lock
        /\ manifest.image.fixture = manifest.receipt.lock

\* A manifest describes what is in the build directory, from a west that succeeded, after
\* failed, timed-out and interrupted builds too.
ManifestOfBuild == manifest # None => manifest.image = image /\ image.done /\ image.conforms
=============================================================================
