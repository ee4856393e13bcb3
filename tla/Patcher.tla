------------------------------- MODULE Patcher -------------------------------
(***************************************************************************)
(* The apply_*.sh scripts and scripts/vllm_function_patch.py: editing an   *)
(* installed vLLM or SGLang in place.                                      *)
(*                                                                         *)
(* A script is a list of edits of function bodies.  Each edit reads a      *)
(* file, looks for the body it wants and the body it expects, and writes   *)
(* the file back; write_text truncates first, so a kill can leave a file   *)
(* cut short.  Then the script compiles the files and may look at what     *)
(* Python imports.  Scripts share files, and a package can be reinstalled, *)
(* upgraded or already broken when a script is run again.                  *)
(*                                                                         *)
(* A file's text is abstracted to which version of each body it holds;     *)
(* bodies do not overlap.                                                  *)
(*                                                                         *)
(* Bounds: Suites (scripts used on one installation), MaxForeign (bodies   *)
(* of an installed version that no payload knows), MaxFaults.              *)
(***************************************************************************)
EXTENDS Integers, Sequences, SequencesExt

CONSTANTS
    Suites,      \* sets of script names: one is used in a behaviour
    MaxForeign,
    MaxFaults    \* kills and failed writes

Sites == {"venv", "vendored"}

(***************************************************************************)
(* The scripts.  An edit replaces the body "from" by the body "to"; strict *)
(* says that finding neither is an error.                                  *)
(***************************************************************************)
Edit(file, body) ==
    [file |-> file, body |-> body, from |-> "upstream", to |-> "patched", strict |-> TRUE]

Lenient(file, body) == [Edit(file, body) EXCEPT !.strict = FALSE]

\* Takes back what an earlier revision of the script did.
Revert(file, body) == [Lenient(file, body) EXCEPT !.from = "patched", !.to = "upstream"]

\* staged: one write for all edits; optional: a site without the files is passed over;
\* lists: the sites it can be told to patch; confirms: edits that are looked at in the end.
OneSite(edits) ==
    [edits |-> edits, staged |-> FALSE, optional |-> FALSE, lists |-> {<<"venv">>},
     confirms |-> {}]

ThinkingBudget ==
    [OneSite(<<Edit("reasoning.py", "ReasoningConfig"),
               Edit("input_processor.py", "process_inputs")>>) EXCEPT !.confirms = {1}]

DpStatsLog ==
    [OneSite(<<Edit("core.py", "_attach_iteration_details"),
               Edit("loggers.py", "StatLoggerManager")>>) EXCEPT !.confirms = {1, 2}]

KvOffloadPin == OneSite(<<Edit("gpu_worker.py", "CPUOffloadingWorker")>>)

OffloadWorker == OneSite(<<Edit("worker.py", "register_kv_caches")>>)

\* The payloads of Scheduler.__init__ are identical: no edit.
OffloadScheduler ==
    OneSite(<<Lenient("scheduler.py", "_mamba_block_aligned_split"),
              Lenient("scheduler.py", "schedule")>>)

Humming ==
    [OneSite(<<Edit("schema/__init__.py", "WEIGHT_SCHEMA_MAP")>>) EXCEPT !.confirms = {1}]

Dflash2 ==
    [OneSite(<<Edit("qwen3_dflash.py", "DFlashQwen3Model"),
               Edit("qwen3_dflash.py", "layers_init")>>)
        EXCEPT !.staged = TRUE, !.confirms = {1, 2}]

\* VLLM_SITE can name another installation.
Fp8Sm86 ==
    [OneSite(<<Edit("envs.py", "env_fp8_force"), Edit("envs.py", "env_fp8_force_map"),
               Edit("triton_attn.py", "triton_attn_gate"),
               Edit("reshape.py", "reshape_import"), Edit("reshape.py", "reshape_gate")>>)
        EXCEPT !.lists = {<<"venv">>, <<"vendored">>}]

DsparkMambaPrefix ==
    [OneSite(<<Edit("coordinator.py", "coordinator_import"),
               Edit("coordinator.py", "coordinator_fallback"),
               Edit("offloading.py", "offloading_import"),
               Edit("offloading.py", "offloading_fallback"),
               Edit("interface.py", "is_mamba_group"),
               Edit("kv_utils.py", "warn_gate"), Edit("kv_utils.py", "warn_message")>>)
        EXCEPT !.optional = TRUE, !.confirms = {5},
               !.lists = {<<"venv">>, <<"vendored">>, <<"venv", "vendored">>}]

DsparkArch ==
    [OneSite(<<Edit("speculative.py", "dspark_arch_override")>>)
        EXCEPT !.optional = TRUE, !.confirms = {1},
               !.lists = {<<"venv", "vendored">>, <<"vendored">>}]

MtpPp ==
    [OneSite(<<Lenient("qwen3_5_mtp.py", "imports"), Lenient("qwen3_5_mtp.py", "class_bases"),
               Lenient("qwen3_5_mtp.py", "mtp_forward"), Lenient("qwen3_5_mtp.py", "init_tail"),
               Lenient("speculative.py", "verify_draft_pp")>>)
        EXCEPT !.optional = TRUE,
               !.lists = {<<"vendored">>, <<"vendored", "venv">>, <<"venv", "vendored">>}]

SglangMapper ==
    [OneSite(<<Revert("qwen3_5.py", "hf_to_sglang_mapper"),
               Revert("qwen3_5.py", "causal_lm_mapper"),
               Revert("gptq.py", "gptq_config_mapper"), Revert("gptq.py", "gptq_marlin_mapper"),
               Lenient("qwen3_5.py", "create_ba_proj")>>) EXCEPT !.confirms = {1, 5}]

Scripts ==
    [thinking_budget |-> ThinkingBudget, dp_stats_log |-> DpStatsLog,
     kv_offload_pin |-> KvOffloadPin, offload_worker |-> OffloadWorker,
     offload_scheduler |-> OffloadScheduler, humming |-> Humming, dflash2 |-> Dflash2,
     fp8_sm86 |-> Fp8Sm86, dspark_mamba_prefix |-> DsparkMambaPrefix,
     dspark_arch |-> DsparkArch, mtp_pp |-> MtpPp, sglang_mapper |-> SglangMapper]

ASSUME PatcherAssumption ==
    /\ Suites \subseteq SUBSET DOMAIN Scripts
    /\ MaxForeign \in Nat /\ MaxFaults \in Nat

EditsOf(n) == ToSet(Scripts[n].edits)

AllEdits == UNION {EditsOf(n) : n \in DOMAIN Scripts}

Bodies == {e.body : e \in AllEdits}

FilesOf(n) == {e.file : e \in EditsOf(n)}

Files == {e.file : e \in AllEdits}

VARIABLES
    suite,     \* the scripts used on this installation
    unfit,     \* sites without the files, or too old for a patch
    patched,   \* <<site, body>> that hold the body of the repository
    foreign,   \* <<site, body>> of which no payload knows the body; others: upstream
    cut,       \* <<site, file>> of files cut short
    pc,
    script,    \* name of the script that runs
    sites,     \* sites it has still to patch
    visited,   \* sites it has patched
    step,      \* next edit
    pending,   \* edits made to the text in memory and not written
    changed,
    good,      \* <<script, site>> of runs that ended well, no fault or reinstall since
    faults

disk == <<suite, unfit, patched, foreign, cut>>
run == <<pc, script, sites, visited, step, pending, changed>>
vars == <<disk, run, good, faults>>

Edits == Scripts[script].edits

Site == Head(sites)

Cur == Edits[step]

\* The version of a body that is installed.
Holds(site, b, version) ==
    IF version = "upstream" THEN <<site, b>> \notin patched \union foreign
    ELSE <<site, b>> \in (IF version = "patched" THEN patched ELSE foreign)

\* "version in text", of the text that an edit reads.
InText(site, e, version) == <<site, e.file>> \notin cut /\ Holds(site, e.body, version)

(***************************************************************************)
(* A run of a script.                                                      *)
(***************************************************************************)
Begin(n) ==
    /\ pc = "idle" /\ n \in suite
    /\ script' = n /\ pc' = "site"
    /\ sites' \in Scripts[n].lists
    /\ UNCHANGED <<disk, visited, step, pending, changed, good, faults>>

\* The process of a script is gone, and what it had in memory.
Over ==
    /\ pc' = "idle" /\ sites' = <<>> /\ visited' = {} /\ step' = 1 /\ pending' = {}
    /\ changed' = FALSE /\ UNCHANGED script

\* set -e: a failed check or an exception ends the script.
Fail ==
    /\ Over
    /\ UNCHANGED <<disk, good, faults>>

EnterSite ==
    /\ pc = "site" /\ sites # <<>> /\ Site \notin unfit
    /\ pc' = "edit" /\ step' = 1 /\ changed' = FALSE
    /\ UNCHANGED <<disk, script, sites, visited, pending, good, faults>>

SkipSite ==
    /\ pc = "site" /\ sites # <<>> /\ Site \in unfit
    /\ Scripts[script].optional
    /\ sites' = Tail(sites)
    /\ UNCHANGED <<disk, pc, script, visited, step, pending, changed, good, faults>>

FilesMissing ==
    /\ pc = "site" /\ sites # <<>> /\ Site \in unfit
    /\ ~Scripts[script].optional
    /\ Fail

NothingPatched == pc = "site" /\ sites = <<>> /\ visited = {} /\ Fail

AllSites ==
    /\ pc = "site" /\ sites = <<>> /\ visited # {}
    /\ pc' = "verify"
    /\ UNCHANGED <<disk, script, sites, visited, step, pending, changed, good, faults>>

AtEdit == pc = "edit" /\ step <= Len(Edits)

\* Already patched; or, where that is no error, not the body that is expected.
PassEdit ==
    /\ AtEdit
    /\ \/ InText(Site, Cur, Cur.to)
       \/ ~InText(Site, Cur, Cur.from) /\ ~Cur.strict
    /\ step' = step + 1
    /\ UNCHANGED <<disk, pc, script, sites, visited, pending, changed, good, faults>>

\* Mutant: the script goes on.
NotFoundIgnored ==
    /\ AtEdit
    /\ ~InText(Site, Cur, Cur.to) /\ ~InText(Site, Cur, Cur.from)
    /\ Cur.strict
    /\ step' = step + 1
    /\ UNCHANGED <<disk, pc, script, sites, visited, pending, changed, good, faults>>

\* The upstream body is not found: PatchError, with earlier edits written.
NotFound ==
    /\ AtEdit
    /\ ~InText(Site, Cur, Cur.to) /\ ~InText(Site, Cur, Cur.from)
    /\ Cur.strict
    /\ Fail

Replace ==
    /\ AtEdit
    /\ InText(Site, Cur, Cur.from)
    /\ pending' = pending \union {Cur} /\ changed' = TRUE /\ step' = step + 1
    /\ pc' = IF Scripts[script].staged THEN "edit" ELSE "write"
    /\ UNCHANGED <<disk, script, sites, visited, good, faults>>

EndEdits ==
    /\ pc = "edit" /\ step > Len(Edits)
    /\ pc' = IF pending # {} THEN "write" ELSE "compile"
    /\ UNCHANGED <<disk, script, sites, visited, step, pending, changed, good, faults>>

PendingFiles == {e.file : e \in pending}

\* write_text opens the file for writing.
Truncate ==
    /\ pc = "write"
    /\ cut' = cut \union ({Site} \X PendingFiles)
    /\ pc' = "written"
    /\ UNCHANGED <<suite, unfit, patched, foreign, script, sites, visited, step, pending, changed, good,
                   faults>>

\* Mutant: the text is written back as it was read.
WriteOld ==
    /\ pc = "written"
    /\ cut' = cut \ ({Site} \X PendingFiles)
    /\ pending' = {} /\ pc' = "edit"
    /\ UNCHANGED <<suite, unfit, patched, foreign, script, sites, visited, step, changed, good,
                   faults>>

Write ==
    /\ pc = "written"
    /\ patched' = (patched \ {<<Site, e.body>> : e \in pending})
                    \union {<<Site, e.body>> : e \in {d \in pending : d.to = "patched"}}
    /\ cut' = cut \ ({Site} \X PendingFiles)
    /\ pending' = {} /\ pc' = "edit"
    /\ UNCHANGED <<suite, unfit, foreign, script, sites, visited, step, changed, good, faults>>

Broken == \E f \in FilesOf(script) : <<Site, f>> \in cut

\* py_compile: an empty file compiles.
Compile ==
    /\ pc = "compile"
    /\ pc' = "site" /\ visited' = visited \union {Site} /\ sites' = Tail(sites)
    /\ UNCHANGED <<disk, script, step, pending, changed, good, faults>>

CompileFails == pc = "compile" /\ Broken /\ Fail

\* What the script imports or reads back is the venv's, whichever site it patched.
Confirmed(e) == InText("venv", e, e.to)

\* A version no payload knows may have what is looked for; without vLLM nothing is.
MayConfirm(e) ==
    Confirmed(e) \/ InText("venv", e, "foreign")
        \/ ("venv" \in unfit /\ Scripts[script].optional)

Confirms == {Edits[i] : i \in Scripts[script].confirms}

Succeed ==
    /\ pc = "verify"
    /\ \A e \in Confirms : MayConfirm(e)
    /\ good' = good \union ({script} \X visited)
    /\ Over
    /\ UNCHANGED <<disk, faults>>

VerifyFails == pc = "verify" /\ (\E e \in Confirms : ~Confirmed(e)) /\ Fail

(***************************************************************************)
(* The machine and its operator.                                           *)
(***************************************************************************)

\* A kill, or a disk that is full when the file is written.
Fault ==
    /\ pc # "idle" /\ faults < MaxFaults
    /\ faults' = faults + 1
    /\ Over
    /\ good' = {g \in good : pc # "written" \/ g[2] # Site
                               \/ FilesOf(g[1]) \intersect PendingFiles = {}}
    /\ UNCHANGED disk

Used == {e.body : e \in UNION {EditsOf(n) : n \in suite}}

\* Which bodies of the installed versions no payload knows.
Unknown == UNION {kSubset(k, Sites \X Used) : k \in 0..MaxForeign}

OfSite(set, site) == {x \in set : x[1] = site}

Reinstall(site) ==
    /\ pc = "idle"
    /\ patched' = patched \ OfSite(patched, site)
    /\ foreign' \in {u \in Unknown : foreign \ OfSite(foreign, site) = u \ OfSite(u, site)}
    /\ cut' = cut \ OfSite(cut, site)
    /\ good' = {g \in good : g[2] # site}
    /\ UNCHANGED <<suite, unfit, run, faults>>

(***************************************************************************)
(* Specification                                                           *)
(***************************************************************************)

\* What an earlier revision of a script did, and this one takes back.
OldEdits ==
    {e.body : e \in {d \in UNION {EditsOf(n) : n \in suite} : d.from = "patched"}}

Init ==
    /\ suite \in Suites /\ unfit \in SUBSET Sites
    /\ foreign \in Unknown
    /\ \E old \in {{}, OldEdits} : patched = (Sites \X old) \ foreign
    /\ cut = {}
    /\ pc = "idle" /\ script \in suite /\ sites = <<>> /\ visited = {}
    /\ step = 1 /\ pending = {} /\ changed = FALSE
    /\ good = {} /\ faults = 0

Step ==
    \/ EnterSite \/ SkipSite \/ FilesMissing \/ NothingPatched \/ AllSites
    \/ PassEdit \/ NotFound \/ Replace \/ EndEdits \/ Truncate \/ Write
    \/ Compile \/ CompileFails \/ Succeed \/ VerifyFails

Next ==
    \/ Step \/ Fault
    \/ \E n \in DOMAIN Scripts : Begin(n)
    \/ \E s \in Sites : Reinstall(s)

Spec == Init /\ [][Next]_vars

(***************************************************************************)
(* Properties.                                                             *)
(***************************************************************************)

\* Types, and that what is made in memory is an edit of one file of the running script.
TypeOK ==
    /\ suite \in Suites /\ unfit \subseteq Sites
    /\ patched \subseteq Sites \X Bodies /\ foreign \subseteq Sites \X Bodies
    /\ patched \intersect foreign = {}
    /\ cut \subseteq Sites \X Files
    /\ pc \in {"idle", "site", "edit", "write", "written", "compile", "verify"}
    /\ script \in suite
    /\ sites \in Seq(Sites) /\ visited \subseteq Sites
    /\ step \in 1..(Len(Edits) + 1)
    /\ pending \subseteq EditsOf(script)
    /\ \A d, e \in pending : d.file = e.file
    /\ pc \in {"site", "compile", "verify", "idle"} => pending = {}
    /\ changed \in BOOLEAN
    /\ good \subseteq suite \X Sites
    /\ faults \in 0..MaxFaults

\* What an edit is for has been reached: the body is there or, for a lenient edit, what
\* it replaces is not.
Done(e, site) ==
    IF e.strict THEN InText(site, e, e.to) ELSE ~InText(site, e, e.from)

\* A script that ends with "Syntax check OK" has done all its edits at every site it
\* patched, and no run of any script, failed or not, undoes one of them: only a
\* reinstall, or a fault while a file of it is written.
OkMeansPatched ==
    \A g \in good : \A e \in EditsOf(g[1]) : pc # "written" => Done(e, g[2])

\* Running a script again is harmless: on a site where it ended well it finds nothing to
\* write, whatever scripts that share its files have been run or have failed since.
RerunsWriteNothing == pending # {} => <<script, Site>> \notin good

=============================================================================
