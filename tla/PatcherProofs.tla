---------------------------- MODULE PatcherProofs ----------------------------
(***************************************************************************)
(* Types (TypeCorrect), what success means (SuccessLasts) and that a run   *)
(* after a success writes nothing (RerunsHarmless), for any set of the     *)
(* scripts used on one installation, any number of faults and any bodies   *)
(* of unknown versions.                                                    *)
(*                                                                         *)
(* Of the scripts the proofs need three things: no body is edited twice,   *)
(* no edit leaves a body as it is, and a script that writes once edits one *)
(* file.  The invariant says of every edit that a run has passed, or that  *)
(* a script which ended well has made, that it is settled; while a file is *)
(* being written this is said of the text that goes into it.               *)
(***************************************************************************)
EXTENDS Patcher, SequenceTheorems, TLAPS

(***************************************************************************)
(* The scripts                                                             *)
(***************************************************************************)
StrictBodies ==
    {<<"reasoning.py", "ReasoningConfig">>, <<"input_processor.py", "process_inputs">>,
     <<"core.py", "_attach_iteration_details">>, <<"loggers.py", "StatLoggerManager">>,
     <<"gpu_worker.py", "CPUOffloadingWorker">>, <<"worker.py", "register_kv_caches">>,
     <<"schema/__init__.py", "WEIGHT_SCHEMA_MAP">>, <<"qwen3_dflash.py", "DFlashQwen3Model">>,
     <<"qwen3_dflash.py", "layers_init">>, <<"envs.py", "env_fp8_force">>,
     <<"envs.py", "env_fp8_force_map">>, <<"triton_attn.py", "triton_attn_gate">>,
     <<"reshape.py", "reshape_import">>, <<"reshape.py", "reshape_gate">>,
     <<"coordinator.py", "coordinator_import">>, <<"coordinator.py", "coordinator_fallback">>,
     <<"offloading.py", "offloading_import">>, <<"offloading.py", "offloading_fallback">>,
     <<"interface.py", "is_mamba_group">>, <<"kv_utils.py", "warn_gate">>,
     <<"kv_utils.py", "warn_message">>, <<"speculative.py", "dspark_arch_override">>}

LenientBodies ==
    {<<"scheduler.py", "_mamba_block_aligned_split">>, <<"scheduler.py", "schedule">>,
     <<"qwen3_5_mtp.py", "imports">>, <<"qwen3_5_mtp.py", "class_bases">>,
     <<"qwen3_5_mtp.py", "mtp_forward">>, <<"qwen3_5_mtp.py", "init_tail">>,
     <<"speculative.py", "verify_draft_pp">>, <<"qwen3_5.py", "create_ba_proj">>}

RevertedBodies ==
    {<<"qwen3_5.py", "hf_to_sglang_mapper">>, <<"qwen3_5.py", "causal_lm_mapper">>,
     <<"gptq.py", "gptq_config_mapper">>, <<"gptq.py", "gptq_marlin_mapper">>}

Listed ==
    {Edit(p[1], p[2]) : p \in StrictBodies} \union {Lenient(p[1], p[2]) : p \in LenientBodies}
        \union {Revert(p[1], p[2]) : p \in RevertedBodies}

LEMMA EditsAre ==
    ASSUME NEW f, NEW b
    PROVE  /\ /\ Edit(f, b).file = f /\ Edit(f, b).body = b /\ Edit(f, b).from = "upstream"
              /\ Edit(f, b).to = "patched"
           /\ /\ Lenient(f, b).file = f /\ Lenient(f, b).body = b
              /\ Lenient(f, b).from = "upstream" /\ Lenient(f, b).to = "patched"
           /\ /\ Revert(f, b).file = f /\ Revert(f, b).body = b
              /\ Revert(f, b).from = "patched" /\ Revert(f, b).to = "upstream"
<1>1. /\ Edit(f, b).file = f /\ Edit(f, b).body = b /\ Edit(f, b).from = "upstream"
      /\ Edit(f, b).to = "patched"
    BY DEF Edit
<1>2. /\ Lenient(f, b).file = f /\ Lenient(f, b).body = b
      /\ Lenient(f, b).from = "upstream" /\ Lenient(f, b).to = "patched"
    BY DEF Lenient, Edit
<1>3. /\ Revert(f, b).file = f /\ Revert(f, b).body = b
      /\ Revert(f, b).from = "patched" /\ Revert(f, b).to = "upstream"
    BY DEF Revert, Lenient, Edit
<1> QED
    BY <1>1, <1>2, <1>3

\* Patching or taking back.
Way(e) ==
    \/ e.from = "upstream" /\ e.to = "patched"
    \/ e.from = "patched" /\ e.to = "upstream"

\* The edit of a body.
EditOf(e, p) ==
    /\ e.body = p[2]
    /\ p \in StrictBodies => e = Edit(p[1], p[2])
    /\ p \in LenientBodies => e = Lenient(p[1], p[2])
    /\ p \in RevertedBodies => e = Revert(p[1], p[2])

LEMMA IsListed ==
    ASSUME NEW f, NEW b
    PROVE  /\ <<f, b>> \in StrictBodies => Edit(f, b) \in Listed
           /\ <<f, b>> \in LenientBodies => Lenient(f, b) \in Listed
           /\ <<f, b>> \in RevertedBodies => Revert(f, b) \in Listed
<1>1. <<f, b>>[1] = f /\ <<f, b>>[2] = b
    OBVIOUS
<1> QED
    BY <1>1 DEF Listed

\* No two edits are of one body, and none is void.
LEMMA ListedDiffer ==
    /\ \A d, e \in Listed : d.body = e.body => d = e
    /\ \A e \in Listed : Way(e)
<1> DEFINE all == StrictBodies \union LenientBodies \union RevertedBodies
<1>1. \A p, q \in all : p[2] = q[2] => p = q
    BY DEF StrictBodies, LenientBodies, RevertedBodies
<1>2. /\ StrictBodies \intersect LenientBodies = {} /\ StrictBodies \intersect RevertedBodies = {}
      /\ LenientBodies \intersect RevertedBodies = {}
    BY DEF StrictBodies, LenientBodies, RevertedBodies
<1>3. ASSUME NEW e \in Listed
      PROVE  Way(e) /\ \E p \in all : EditOf(e, p)
    <2>1. CASE \E p \in StrictBodies : e = Edit(p[1], p[2])
        <3>1. PICK p \in StrictBodies : e = Edit(p[1], p[2])
            BY <2>1
        <3>2. e.body = p[2] /\ Way(e)
            BY <3>1, EditsAre DEF Way
        <3>3. p \in all /\ p \notin LenientBodies /\ p \notin RevertedBodies
            BY <1>2
        <3>4. EditOf(e, p)
            BY <3>1, <3>2, <3>3 DEF EditOf
        <3> QED
            BY <3>2, <3>3, <3>4
    <2>2. CASE \E p \in LenientBodies : e = Lenient(p[1], p[2])
        <3>1. PICK p \in LenientBodies : e = Lenient(p[1], p[2])
            BY <2>2
        <3>2. e.body = p[2] /\ Way(e)
            BY <3>1, EditsAre DEF Way
        <3>3. p \in all /\ p \notin StrictBodies /\ p \notin RevertedBodies
            BY <1>2
        <3>4. EditOf(e, p)
            BY <3>1, <3>2, <3>3 DEF EditOf
        <3> QED
            BY <3>2, <3>3, <3>4
    <2>3. CASE \E p \in RevertedBodies : e = Revert(p[1], p[2])
        <3>1. PICK p \in RevertedBodies : e = Revert(p[1], p[2])
            BY <2>3
        <3>2. e.body = p[2] /\ Way(e)
            BY <3>1, EditsAre DEF Way
        <3>3. p \in all /\ p \notin StrictBodies /\ p \notin LenientBodies
            BY <1>2
        <3>4. EditOf(e, p)
            BY <3>1, <3>2, <3>3 DEF EditOf
        <3> QED
            BY <3>2, <3>3, <3>4
    <2> QED
        BY <2>1, <2>2, <2>3 DEF Listed
<1>4. ASSUME NEW d \in Listed, NEW e \in Listed, d.body = e.body PROVE d = e
    <2>1. PICK p \in all : EditOf(d, p)
        BY <1>3
    <2>2. PICK q \in all : EditOf(e, q)
        BY <1>3
    <2>3. p = q
        BY <1>1, <1>4, <2>1, <2>2 DEF EditOf
    <2> QED
        BY <2>1, <2>2, <2>3 DEF EditOf
<1> QED
    BY <1>3, <1>4

\* What holds of each script.
WellMade(s) ==
    /\ s.edits \in Seq(Listed)
    /\ s.lists \subseteq Seq(Sites)
    /\ s.staged => \A d, e \in ToSet(s.edits) : d.file = e.file

LEMMA MadeThinkingBudget == WellMade(ThinkingBudget)
<1>1. /\ ThinkingBudget.edits =
             <<Edit("reasoning.py", "ReasoningConfig"),
               Edit("input_processor.py", "process_inputs")>>
      /\ ThinkingBudget.lists = {<<"venv">>}
      /\ ThinkingBudget.staged = FALSE
    BY DEF ThinkingBudget, OneSite
<1>2. /\ Edit("reasoning.py", "ReasoningConfig") \in Listed
      /\ Edit("input_processor.py", "process_inputs") \in Listed
    BY IsListed DEF StrictBodies
<1>3. ThinkingBudget.edits \in Seq(Listed)
    BY <1>1, <1>2
<1>4. ThinkingBudget.lists \subseteq Seq(Sites)
    BY <1>1 DEF Sites
<1> QED
    BY <1>1, <1>3, <1>4 DEF WellMade

LEMMA MadeDpStatsLog == WellMade(DpStatsLog)
<1>1. /\ DpStatsLog.edits =
             <<Edit("core.py", "_attach_iteration_details"),
               Edit("loggers.py", "StatLoggerManager")>>
      /\ DpStatsLog.lists = {<<"venv">>}
      /\ DpStatsLog.staged = FALSE
    BY DEF DpStatsLog, OneSite
<1>2. /\ Edit("core.py", "_attach_iteration_details") \in Listed
      /\ Edit("loggers.py", "StatLoggerManager") \in Listed
    BY IsListed DEF StrictBodies
<1>3. DpStatsLog.edits \in Seq(Listed)
    BY <1>1, <1>2
<1>4. DpStatsLog.lists \subseteq Seq(Sites)
    BY <1>1 DEF Sites
<1> QED
    BY <1>1, <1>3, <1>4 DEF WellMade

LEMMA MadeKvOffloadPin == WellMade(KvOffloadPin)
<1>1. /\ KvOffloadPin.edits =
             <<Edit("gpu_worker.py", "CPUOffloadingWorker")>>
      /\ KvOffloadPin.lists = {<<"venv">>}
      /\ KvOffloadPin.staged = FALSE
    BY DEF KvOffloadPin, OneSite
<1>2. Edit("gpu_worker.py", "CPUOffloadingWorker") \in Listed
    BY IsListed DEF StrictBodies
<1>3. KvOffloadPin.edits \in Seq(Listed)
    BY <1>1, <1>2
<1>4. KvOffloadPin.lists \subseteq Seq(Sites)
    BY <1>1 DEF Sites
<1> QED
    BY <1>1, <1>3, <1>4 DEF WellMade

LEMMA MadeOffloadWorker == WellMade(OffloadWorker)
<1>1. /\ OffloadWorker.edits =
             <<Edit("worker.py", "register_kv_caches")>>
      /\ OffloadWorker.lists = {<<"venv">>}
      /\ OffloadWorker.staged = FALSE
    BY DEF OffloadWorker, OneSite
<1>2. Edit("worker.py", "register_kv_caches") \in Listed
    BY IsListed DEF StrictBodies
<1>3. OffloadWorker.edits \in Seq(Listed)
    BY <1>1, <1>2
<1>4. OffloadWorker.lists \subseteq Seq(Sites)
    BY <1>1 DEF Sites
<1> QED
    BY <1>1, <1>3, <1>4 DEF WellMade

LEMMA MadeOffloadScheduler == WellMade(OffloadScheduler)
<1>1. /\ OffloadScheduler.edits =
             <<Lenient("scheduler.py", "_mamba_block_aligned_split"),
               Lenient("scheduler.py", "schedule")>>
      /\ OffloadScheduler.lists = {<<"venv">>}
      /\ OffloadScheduler.staged = FALSE
    BY DEF OffloadScheduler, OneSite
<1>2. /\ Lenient("scheduler.py", "_mamba_block_aligned_split") \in Listed
      /\ Lenient("scheduler.py", "schedule") \in Listed
    BY IsListed DEF LenientBodies
<1>3. OffloadScheduler.edits \in Seq(Listed)
    BY <1>1, <1>2
<1>4. OffloadScheduler.lists \subseteq Seq(Sites)
    BY <1>1 DEF Sites
<1> QED
    BY <1>1, <1>3, <1>4 DEF WellMade

LEMMA MadeHumming == WellMade(Humming)
<1>1. /\ Humming.edits =
             <<Edit("schema/__init__.py", "WEIGHT_SCHEMA_MAP")>>
      /\ Humming.lists = {<<"venv">>}
      /\ Humming.staged = FALSE
    BY DEF Humming, OneSite
<1>2. Edit("schema/__init__.py", "WEIGHT_SCHEMA_MAP") \in Listed
    BY IsListed DEF StrictBodies
<1>3. Humming.edits \in Seq(Listed)
    BY <1>1, <1>2
<1>4. Humming.lists \subseteq Seq(Sites)
    BY <1>1 DEF Sites
<1> QED
    BY <1>1, <1>3, <1>4 DEF WellMade

LEMMA MadeDflash2 == WellMade(Dflash2)
<1>1. /\ Dflash2.edits =
             <<Edit("qwen3_dflash.py", "DFlashQwen3Model"),
               Edit("qwen3_dflash.py", "layers_init")>>
      /\ Dflash2.lists = {<<"venv">>}
      /\ Dflash2.staged = TRUE
    BY DEF Dflash2, OneSite
<1>2. /\ Edit("qwen3_dflash.py", "DFlashQwen3Model") \in Listed
      /\ Edit("qwen3_dflash.py", "layers_init") \in Listed
    BY IsListed DEF StrictBodies
<1>3. Dflash2.edits \in Seq(Listed)
    BY <1>1, <1>2
<1>4. Dflash2.lists \subseteq Seq(Sites)
    BY <1>1 DEF Sites
<1>5. ToSet(Dflash2.edits) = {Edit("qwen3_dflash.py", "DFlashQwen3Model"), Edit("qwen3_dflash.py", "layers_init")}
    BY <1>1 DEF ToSet
<1>6. \A d, e \in ToSet(Dflash2.edits) : d.file = e.file
    BY <1>5, EditsAre
<1> QED
    BY <1>3, <1>4, <1>6 DEF WellMade

LEMMA MadeFp8Sm86 == WellMade(Fp8Sm86)
<1>1. /\ Fp8Sm86.edits =
             <<Edit("envs.py", "env_fp8_force"),
               Edit("envs.py", "env_fp8_force_map"),
               Edit("triton_attn.py", "triton_attn_gate"),
               Edit("reshape.py", "reshape_import"),
               Edit("reshape.py", "reshape_gate")>>
      /\ Fp8Sm86.lists = {<<"venv">>, <<"vendored">>}
      /\ Fp8Sm86.staged = FALSE
    BY DEF Fp8Sm86, OneSite
<1>2. /\ Edit("envs.py", "env_fp8_force") \in Listed
      /\ Edit("envs.py", "env_fp8_force_map") \in Listed
      /\ Edit("triton_attn.py", "triton_attn_gate") \in Listed
      /\ Edit("reshape.py", "reshape_import") \in Listed
      /\ Edit("reshape.py", "reshape_gate") \in Listed
    BY IsListed DEF StrictBodies
<1>3. Fp8Sm86.edits \in Seq(Listed)
    BY <1>1, <1>2
<1>4. Fp8Sm86.lists \subseteq Seq(Sites)
    BY <1>1 DEF Sites
<1> QED
    BY <1>1, <1>3, <1>4 DEF WellMade

LEMMA MadeDsparkMambaPrefix == WellMade(DsparkMambaPrefix)
<1>1. /\ DsparkMambaPrefix.edits =
             <<Edit("coordinator.py", "coordinator_import"),
               Edit("coordinator.py", "coordinator_fallback"),
               Edit("offloading.py", "offloading_import"),
               Edit("offloading.py", "offloading_fallback"),
               Edit("interface.py", "is_mamba_group"),
               Edit("kv_utils.py", "warn_gate"),
               Edit("kv_utils.py", "warn_message")>>
      /\ DsparkMambaPrefix.lists = {<<"venv">>, <<"vendored">>, <<"venv", "vendored">>}
      /\ DsparkMambaPrefix.staged = FALSE
    BY DEF DsparkMambaPrefix, OneSite
<1>2. /\ Edit("coordinator.py", "coordinator_import") \in Listed
      /\ Edit("coordinator.py", "coordinator_fallback") \in Listed
      /\ Edit("offloading.py", "offloading_import") \in Listed
      /\ Edit("offloading.py", "offloading_fallback") \in Listed
      /\ Edit("interface.py", "is_mamba_group") \in Listed
      /\ Edit("kv_utils.py", "warn_gate") \in Listed
      /\ Edit("kv_utils.py", "warn_message") \in Listed
    BY IsListed DEF StrictBodies
<1>3. DsparkMambaPrefix.edits \in Seq(Listed)
    BY <1>1, <1>2
<1>4. DsparkMambaPrefix.lists \subseteq Seq(Sites)
    BY <1>1 DEF Sites
<1> QED
    BY <1>1, <1>3, <1>4 DEF WellMade

LEMMA MadeDsparkArch == WellMade(DsparkArch)
<1>1. /\ DsparkArch.edits =
             <<Edit("speculative.py", "dspark_arch_override")>>
      /\ DsparkArch.lists = {<<"venv", "vendored">>, <<"vendored">>}
      /\ DsparkArch.staged = FALSE
    BY DEF DsparkArch, OneSite
<1>2. Edit("speculative.py", "dspark_arch_override") \in Listed
    BY IsListed DEF StrictBodies
<1>3. DsparkArch.edits \in Seq(Listed)
    BY <1>1, <1>2
<1>4. DsparkArch.lists \subseteq Seq(Sites)
    BY <1>1 DEF Sites
<1> QED
    BY <1>1, <1>3, <1>4 DEF WellMade

LEMMA MadeMtpPp == WellMade(MtpPp)
<1>1. /\ MtpPp.edits =
             <<Lenient("qwen3_5_mtp.py", "imports"),
               Lenient("qwen3_5_mtp.py", "class_bases"),
               Lenient("qwen3_5_mtp.py", "mtp_forward"),
               Lenient("qwen3_5_mtp.py", "init_tail"),
               Lenient("speculative.py", "verify_draft_pp")>>
      /\ MtpPp.lists = {<<"vendored">>, <<"vendored", "venv">>, <<"venv", "vendored">>}
      /\ MtpPp.staged = FALSE
    BY DEF MtpPp, OneSite
<1>2. /\ Lenient("qwen3_5_mtp.py", "imports") \in Listed
      /\ Lenient("qwen3_5_mtp.py", "class_bases") \in Listed
      /\ Lenient("qwen3_5_mtp.py", "mtp_forward") \in Listed
      /\ Lenient("qwen3_5_mtp.py", "init_tail") \in Listed
      /\ Lenient("speculative.py", "verify_draft_pp") \in Listed
    BY IsListed DEF LenientBodies
<1>3. MtpPp.edits \in Seq(Listed)
    BY <1>1, <1>2
<1>4. MtpPp.lists \subseteq Seq(Sites)
    BY <1>1 DEF Sites
<1> QED
    BY <1>1, <1>3, <1>4 DEF WellMade

LEMMA MadeSglangMapper == WellMade(SglangMapper)
<1>1. /\ SglangMapper.edits =
             <<Revert("qwen3_5.py", "hf_to_sglang_mapper"),
               Revert("qwen3_5.py", "causal_lm_mapper"),
               Revert("gptq.py", "gptq_config_mapper"),
               Revert("gptq.py", "gptq_marlin_mapper"),
               Lenient("qwen3_5.py", "create_ba_proj")>>
      /\ SglangMapper.lists = {<<"venv">>}
      /\ SglangMapper.staged = FALSE
    BY DEF SglangMapper, OneSite
<1>2. /\ Revert("qwen3_5.py", "hf_to_sglang_mapper") \in Listed
      /\ Revert("qwen3_5.py", "causal_lm_mapper") \in Listed
      /\ Revert("gptq.py", "gptq_config_mapper") \in Listed
      /\ Revert("gptq.py", "gptq_marlin_mapper") \in Listed
      /\ Lenient("qwen3_5.py", "create_ba_proj") \in Listed
    BY IsListed DEF LenientBodies, RevertedBodies
<1>3. SglangMapper.edits \in Seq(Listed)
    BY <1>1, <1>2
<1>4. SglangMapper.lists \subseteq Seq(Sites)
    BY <1>1 DEF Sites
<1> QED
    BY <1>1, <1>3, <1>4 DEF WellMade

LEMMA AllWellMade ==
    ASSUME NEW n \in DOMAIN Scripts
    PROVE  WellMade(Scripts[n])
BY MadeThinkingBudget, MadeDpStatsLog, MadeKvOffloadPin, MadeOffloadWorker,
   MadeOffloadScheduler, MadeHumming, MadeDflash2, MadeFp8Sm86,
   MadeDsparkMambaPrefix, MadeDsparkArch, MadeMtpPp, MadeSglangMapper
DEF Scripts

LEMMA Editing ==
    ASSUME NEW n \in DOMAIN Scripts
    PROVE  /\ Scripts[n].edits \in Seq(Listed)
           /\ EditsOf(n) \subseteq Listed
           /\ EditsOf(n) \subseteq AllEdits
           /\ Scripts[n].lists \subseteq Seq(Sites)
           /\ \A i \in 1..Len(Scripts[n].edits) : Scripts[n].edits[i] \in EditsOf(n)
           /\ \A e \in EditsOf(n) : \E i \in 1..Len(Scripts[n].edits) : e = Scripts[n].edits[i]
           /\ Scripts[n].staged => \A d, e \in EditsOf(n) : d.file = e.file
<1>1. WellMade(Scripts[n])
    BY AllWellMade
<1>2. Scripts[n].edits \in Seq(Listed)
    BY <1>1 DEF WellMade
<1>3. EditsOf(n) = {Scripts[n].edits[i] : i \in 1..Len(Scripts[n].edits)}
    BY <1>2 DEF EditsOf, ToSet
<1>4. EditsOf(n) \subseteq AllEdits
    BY DEF AllEdits
<1>5. EditsOf(n) \subseteq Listed
    BY <1>2, <1>3
<1>6. Scripts[n].staged => \A d, e \in EditsOf(n) : d.file = e.file
    BY <1>1 DEF WellMade, EditsOf
<1>7. Scripts[n].lists \subseteq Seq(Sites)
    BY <1>1 DEF WellMade
<1> QED
    BY <1>2, <1>3, <1>4, <1>5, <1>6, <1>7

LEMMA KnownBodies ==
    ASSUME suite \subseteq DOMAIN Scripts, NEW u \in Unknown
    PROVE  u \subseteq Sites \X Bodies
<1>1. Used \subseteq Bodies
    BY DEF Used, Bodies, AllEdits
<1>2. u \subseteq Sites \X Used
    BY DEF Unknown, kSubset
<1> QED
    BY <1>1, <1>2

(***************************************************************************)
(* The invariant                                                           *)
(***************************************************************************)

\* What an edit is for is reached in the text, whether or not the file is whole.
Becomes(e, s) == IF e.strict THEN Holds(s, e.body, e.to) ELSE ~Holds(s, e.body, e.from)

\* Done, or it will be when the file that is open is written.
Settled(e, s) ==
    IF pc = "written" /\ s = Site /\ e.file \in PendingFiles THEN Becomes(e, s) ELSE Done(e, s)

AtSite == pc \in {"edit", "write", "written", "compile"}

\* Where a run is.
Place ==
    /\ AtSite => sites # <<>>
    /\ pc = "compile" => step > Len(Edits)
    /\ pc = "idle" => sites = <<>> /\ visited = {} /\ step = 1
    /\ pc = "edit" /\ ~Scripts[script].staged => pending = {}

\* What is made in memory was made from the text that is still on the disk, and only
\* the file that is being written is cut short.
Ready ==
    \A d \in pending :
        /\ Holds(Site, d.body, d.from)
        /\ <<Site, d.file>> \in cut <=> pc = "written"

\* The edits a run has passed are settled or about to be written.
Passed ==
    AtSite => \A i \in 1..(step - 1) : Edits[i] \in pending \/ Settled(Edits[i], Site)

\* So are all edits at the sites it has visited, and all edits of the runs that ended well.
Reached ==
    /\ \A s \in visited : \A e \in EditsOf(script) : Settled(e, s)
    /\ \A g \in good : \A e \in EditsOf(g[1]) : Settled(e, g[2])

IInv == TypeOK /\ Place /\ Ready /\ Passed /\ Reached

\* No text holds two versions of a body.
LEMMA OneVersion ==
    ASSUME NEW e, Way(e), NEW s, patched \intersect foreign = {}
    PROVE  ~(Holds(s, e.body, e.from) /\ Holds(s, e.body, e.to))
BY DEF Way, Holds

\* As long as no file is open and the disk stays as it is, what is settled stays so.
LEMMA Calm ==
    ASSUME pc # "written", pc' # "written", UNCHANGED disk, NEW e, NEW s
    PROVE  (Settled(e, s) <=> Done(e, s)) /\ (Settled(e, s)' <=> Done(e, s))
<1>1. Settled(e, s) <=> Done(e, s)
    BY DEF Settled
<1>2. Done(e, s)' <=> Done(e, s)
    BY DEF Done, InText, Holds, disk
<1>3. Settled(e, s)' <=> Done(e, s)'
    BY DEF Settled
<1> QED
    BY <1>1, <1>2, <1>3

(***************************************************************************)
(* Initially                                                               *)
(***************************************************************************)
LEMMA InitIInv == Init => IInv
<1> SUFFICES ASSUME Init PROVE IInv
    OBVIOUS
<1> USE DEF Init
<1>1. suite \subseteq DOMAIN Scripts
    BY PatcherAssumption
<1>2. foreign \subseteq Sites \X Bodies
    BY <1>1, KnownBodies
<1>3. OldEdits \subseteq Bodies
    BY <1>1 DEF OldEdits, Bodies, AllEdits
<1>4. patched \subseteq Sites \X Bodies /\ patched \intersect foreign = {}
    BY <1>3
<1>5. step \in 1..(Len(Edits) + 1)
    <2>1. Scripts[script].edits \in Seq(Listed)
        BY <1>1, Editing
    <2>2. Len(Edits) \in Nat
        BY <2>1 DEF Edits
    <2> QED
        BY <2>2
<1>6. sites \in Seq(Sites)
    OBVIOUS
<1>8. /\ suite \in Suites /\ unfit \subseteq Sites
      /\ cut \subseteq Sites \X Files /\ script \in suite /\ visited \subseteq Sites
      /\ pending \subseteq EditsOf(script) /\ good \subseteq suite \X Sites
    OBVIOUS
<1>9. /\ pc \in {"idle", "site", "edit", "write", "written", "compile", "verify"}
      /\ pc \in {"site", "compile", "verify", "idle"} => pending = {}
      /\ \A d, e \in pending : d.file = e.file
    OBVIOUS
<1>10. changed \in BOOLEAN
    OBVIOUS
<1>11. faults \in 0..MaxFaults
    BY PatcherAssumption
<1> HIDE DEF Init
<1>7. TypeOK
    BY <1>2, <1>4, <1>5, <1>6, <1>8, <1>9, <1>10, <1>11 DEF TypeOK
<1> QED
    BY <1>7 DEF Init, IInv, Place, Ready, Passed, Reached, AtSite

(***************************************************************************)
(* Steps                                                                   *)
(***************************************************************************)

\* A run that ends.
LEMMA OverKeeps ==
    ASSUME IInv, Over, UNCHANGED disk, faults' \in 0..MaxFaults,
           good' \subseteq suite \X Sites,
           \A g \in good' : \A e \in EditsOf(g[1]) : Done(e, g[2])
    PROVE  IInv'
<1> USE DEF IInv, Over
<1>1. suite' = suite /\ suite \subseteq DOMAIN Scripts
    BY PatcherAssumption DEF TypeOK, disk
<1>2. Edits' = Edits /\ Len(Edits) \in Nat
    <2>1. Scripts[script].edits \in Seq(Listed)
        BY <1>1, Editing DEF TypeOK
    <2> QED
        BY <2>1 DEF Edits
<1>5. /\ suite' \in Suites /\ unfit' \subseteq Sites
      /\ patched' \subseteq Sites \X Bodies /\ foreign' \subseteq Sites \X Bodies
      /\ patched' \intersect foreign' = {} /\ cut' \subseteq Sites \X Files
    BY DEF TypeOK, disk
<1>6. /\ pc' \in {"idle", "site", "edit", "write", "written", "compile", "verify"}
      /\ pc' \in {"site", "compile", "verify", "idle"} => pending' = {}
      /\ pending' \subseteq EditsOf(script)' /\ \A d, e \in pending' : d.file = e.file
      /\ sites' \in Seq(Sites) /\ visited' \subseteq Sites /\ step' \in 1..(Len(Edits') + 1)
    BY <1>2
<1>7. script' \in suite' /\ good' \subseteq suite' \X Sites /\ faults' \in 0..MaxFaults
    BY <1>1 DEF TypeOK
<1>8. changed' \in BOOLEAN
    OBVIOUS
<1>3. TypeOK'
    <2> HIDE DEF Over, IInv
    <2> QED
        BY <1>5, <1>6, <1>7, <1>8 DEF TypeOK
<1>4. Reached'
    <2>1. ASSUME NEW e, NEW s PROVE Settled(e, s)' <=> Done(e, s)
        BY DEF Settled, Done, InText, Holds, disk
    <2> QED
        BY <2>1 DEF Reached
<1> QED
    BY <1>3, <1>4 DEF Place, Ready, Passed, AtSite

LEMMA FailKeeps == ASSUME IInv, pc # "written", Fail PROVE IInv'
<1>1. \A g \in good' : \A e \in EditsOf(g[1]) : Done(e, g[2])
    BY DEF Fail, IInv, Reached, Settled
<1>2. good' \subseteq suite \X Sites
    BY DEF Fail, IInv, TypeOK
<1>3. faults' \in 0..MaxFaults
    BY DEF Fail, IInv, TypeOK
<1> QED
    BY <1>1, <1>2, <1>3, OverKeeps DEF Fail

\* What stays as it is when the disk and the good runs do and no file is open.
LEMMA ReachedKept ==
    ASSUME Reached, pc # "written", pc' # "written", UNCHANGED disk, UNCHANGED good,
           UNCHANGED script, UNCHANGED visited
    PROVE  Reached'
BY Calm DEF Reached

LEMMA StaysTyped ==
    ASSUME TypeOK, UNCHANGED disk, UNCHANGED script, UNCHANGED good, UNCHANGED faults,
           pc' \in {"site", "edit", "write", "written", "compile", "verify"},
           sites' \in Seq(Sites), visited' \subseteq Sites, step' \in 1..(Len(Edits) + 1),
           pending' \subseteq EditsOf(script), \A d, e \in pending' : d.file = e.file,
           pc' \in {"site", "compile", "verify"} => pending' = {},
           changed' \in BOOLEAN
    PROVE  TypeOK'
<1>1. /\ suite' \in Suites /\ unfit' \subseteq Sites
      /\ patched' \subseteq Sites \X Bodies /\ foreign' \subseteq Sites \X Bodies
      /\ patched' \intersect foreign' = {} /\ cut' \subseteq Sites \X Files
    BY DEF TypeOK, disk
<1>2. /\ pc' \in {"idle", "site", "edit", "write", "written", "compile", "verify"}
      /\ pc' \in {"site", "compile", "verify", "idle"} => pending' = {}
    OBVIOUS
<1>3. step' \in 1..(Len(Edits') + 1) /\ pending' \subseteq EditsOf(script)'
    BY DEF Edits
<1>4. script' \in suite' /\ good' \subseteq suite' \X Sites /\ faults' \in 0..MaxFaults
    BY DEF TypeOK, disk
<1> QED
    BY <1>1, <1>2, <1>3, <1>4 DEF TypeOK

\* The script that runs.
LEMMA Running ==
    ASSUME TypeOK
    PROVE  /\ suite \subseteq DOMAIN Scripts /\ script \in DOMAIN Scripts
           /\ Edits \in Seq(Listed) /\ Len(Edits) \in Nat
           /\ EditsOf(script) \subseteq Listed /\ EditsOf(script) \subseteq AllEdits
           /\ \A i \in 1..Len(Edits) : Edits[i] \in EditsOf(script) /\ Way(Edits[i])
           /\ \A e \in EditsOf(script) : \E i \in 1..Len(Edits) : e = Edits[i]
           /\ Scripts[script].staged => \A d, e \in EditsOf(script) : d.file = e.file
<1>1. suite \subseteq DOMAIN Scripts /\ script \in DOMAIN Scripts
    BY PatcherAssumption DEF TypeOK
<1>2. /\ Edits \in Seq(Listed)
      /\ EditsOf(script) \subseteq Listed /\ EditsOf(script) \subseteq AllEdits
      /\ \A i \in 1..Len(Edits) : Edits[i] \in EditsOf(script)
      /\ \A e \in EditsOf(script) : \E i \in 1..Len(Edits) : e = Edits[i]
      /\ Scripts[script].staged => \A d, e \in EditsOf(script) : d.file = e.file
    BY <1>1, Editing DEF Edits
<1>3. Len(Edits) \in Nat
    BY <1>2
<1> QED
    BY <1>1, <1>2, <1>3, ListedDiffer

LEMMA SettledNext ==
    ASSUME Edits' = Edits, Site' = Site, NEW i,
           \A e, s : e = Edits[i] /\ s = Site => Settled(e, s)'
    PROVE  Settled(Edits[i], Site)'
<1>1. PICK e : e = Edits[i]
    OBVIOUS
<1>2. PICK s : s = Site
    OBVIOUS
<1>3. Settled(e, s)'
    BY <1>1, <1>2
<1> QED
    BY <1>1, <1>2, <1>3
    DEF Settled, Done, InText, Holds, Becomes, PendingFiles

LEMMA BeginKeeps == ASSUME IInv, NEW n \in DOMAIN Scripts, Begin(n) PROVE IInv'
<1> USE DEF IInv, Begin
<1>1. /\ Scripts[n].edits \in Seq(Listed) /\ Scripts[n].lists \subseteq Seq(Sites)
    BY Editing
<1>2. Len(Edits') \in Nat
    BY <1>1 DEF Edits
<1>3. /\ step' = 1 /\ visited' = {} /\ pending' = {} /\ sites' \in Seq(Sites)
    BY <1>1 DEF Place, TypeOK
<1>4. TypeOK'
    <2>1. /\ suite' \in Suites /\ unfit' \subseteq Sites
          /\ patched' \subseteq Sites \X Bodies /\ foreign' \subseteq Sites \X Bodies
          /\ patched' \intersect foreign' = {} /\ cut' \subseteq Sites \X Files
          /\ script' \in suite' /\ good' \subseteq suite' \X Sites
        BY DEF TypeOK, disk
    <2>2. faults' \in 0..MaxFaults
        BY DEF TypeOK
    <2>3. changed' \in BOOLEAN
        BY DEF TypeOK
    <2>4. /\ pc' \in {"idle", "site", "edit", "write", "written", "compile", "verify"}
          /\ pc' \in {"site", "compile", "verify", "idle"} => pending' = {}
          /\ pending' \subseteq EditsOf(script)' /\ \A d, e \in pending' : d.file = e.file
          /\ sites' \in Seq(Sites) /\ visited' \subseteq Sites /\ step' \in 1..(Len(Edits') + 1)
        BY <1>2, <1>3
    <2> HIDE DEF IInv, Begin
    <2> QED
        BY <2>1, <2>2, <2>3, <2>4 DEF TypeOK
<1>5. Reached'
    BY <1>3, Calm DEF Reached
<1> QED
    BY <1>3, <1>4, <1>5 DEF Place, Ready, Passed, AtSite

LEMMA EnterKeeps == ASSUME IInv, EnterSite PROVE IInv'
<1> USE DEF IInv, EnterSite
<1>1. pending = {} /\ pending' = {} /\ step' = 1
    BY DEF TypeOK
<1>2. /\ sites' \in Seq(Sites) /\ visited' \subseteq Sites /\ step' \in 1..(Len(Edits) + 1)
    BY <1>1, Running DEF TypeOK
<1>3. changed' \in BOOLEAN
    OBVIOUS
<1>4. TypeOK'
    BY <1>1, <1>2, <1>3, StaysTyped
<1>5. Reached'
    BY ReachedKept
<1> QED
    BY <1>1, <1>4, <1>5 DEF Place, Ready, Passed, AtSite

LEMMA SkipKeeps == ASSUME IInv, SkipSite PROVE IInv'
<1> USE DEF IInv, SkipSite
<1>1. pending = {} /\ pending' = {}
    BY DEF TypeOK
<1>2. /\ sites' \in Seq(Sites) /\ visited' \subseteq Sites /\ step' \in 1..(Len(Edits) + 1)
    BY DEF TypeOK
<1>3. changed' \in BOOLEAN
    BY DEF TypeOK
<1>4. TypeOK'
    BY <1>1, <1>2, <1>3, StaysTyped
<1>5. Reached'
    BY ReachedKept
<1> QED
    BY <1>1, <1>4, <1>5 DEF Place, Ready, Passed, AtSite

LEMMA AllSitesKeeps == ASSUME IInv, AllSites PROVE IInv'
<1> USE DEF IInv, AllSites
<1>1. pending = {} /\ pending' = {}
    BY DEF TypeOK
<1>2. /\ sites' \in Seq(Sites) /\ visited' \subseteq Sites /\ step' \in 1..(Len(Edits) + 1)
    BY DEF TypeOK
<1>3. changed' \in BOOLEAN
    BY DEF TypeOK
<1>4. TypeOK'
    BY <1>1, <1>2, <1>3, StaysTyped
<1>5. Reached'
    BY ReachedKept
<1> QED
    BY <1>1, <1>4, <1>5 DEF Place, Ready, Passed, AtSite

LEMMA PassKeeps == ASSUME IInv, PassEdit PROVE IInv'
<1> USE DEF IInv, AtEdit
<1>0. /\ pc = "edit" /\ step <= Len(Edits) /\ step' = step + 1
      /\ UNCHANGED <<disk, pc, script, sites, visited, pending, changed, good, faults>>
    BY DEF PassEdit
<1>1. step \in 1..Len(Edits) /\ Len(Edits) \in Nat
    BY <1>0, Running DEF TypeOK
<1>2. Way(Cur)
    BY <1>1, Running DEF Cur
<1>3. Done(Cur, Site)
    <2>1. CASE InText(Site, Cur, Cur.to)
        BY <2>1, <1>2, OneVersion DEF TypeOK, Done, InText
    <2>2. CASE ~InText(Site, Cur, Cur.from) /\ ~Cur.strict
        BY <2>2 DEF Done
    <2> QED
        BY <2>1, <2>2 DEF PassEdit
<1>4. TypeOK'
    <2>1. /\ sites' \in Seq(Sites) /\ visited' \subseteq Sites /\ step' \in 1..(Len(Edits) + 1)
          /\ pending' \subseteq EditsOf(script) /\ \A d, e \in pending' : d.file = e.file
          /\ pc' = "edit"
        BY <1>0, <1>1 DEF TypeOK
    <2>2. changed' \in BOOLEAN
        BY <1>0 DEF TypeOK
    <2>3. UNCHANGED disk /\ UNCHANGED script /\ UNCHANGED good /\ UNCHANGED faults
        BY <1>0
    <2> QED
        BY <2>1, <2>2, <2>3, StaysTyped
<1>5. Reached'
    BY <1>0, ReachedKept
<1>6. Passed'
    <2> SUFFICES ASSUME NEW i \in 1..(step' - 1)
                 PROVE  Edits[i] \in pending \/ Settled(Edits[i], Site)'
        BY <1>0 DEF Passed, Edits
    <2>1. Site' = Site /\ Edits' = Edits
        BY <1>0 DEF Site, Edits
    <2>2. CASE i = step
        <3>1. \A e, s : e = Edits[i] /\ s = Site => Settled(e, s)'
            BY <2>2, <1>0, <1>3, Calm DEF Cur
        <3> QED
            BY <3>1, <2>1, SettledNext
    <2>3. CASE i # step
        <3>1. i \in 1..(step - 1)
            BY <2>3, <1>0, <1>1
        <3>2. Edits[i] \in pending \/ Settled(Edits[i], Site)
            BY <3>1, <1>0 DEF Passed, AtSite
        <3>3. CASE Edits[i] \in pending
            BY <3>3
        <3>4. CASE Settled(Edits[i], Site)
            <4>1. \A e, s : e = Edits[i] /\ s = Site => Settled(e, s)'
                BY <3>4, <1>0, Calm
            <4> QED
                BY <4>1, <2>1, SettledNext
        <3> QED
            BY <3>2, <3>3, <3>4
    <2> QED
        BY <2>2, <2>3
<1>7. Place' /\ Ready'
    BY <1>0 DEF Place, Ready, AtSite, Holds, Site, disk
<1> QED
    BY <1>4, <1>5, <1>6, <1>7

\* What a run has passed stays settled while it only reads.
LEMMA PassedKept ==
    ASSUME Passed, AtSite, pc # "written", pc' # "written", UNCHANGED disk,
           UNCHANGED script, UNCHANGED sites, pending \subseteq pending',
           NEW i \in 1..(step - 1)
    PROVE  (Edits[i] \in pending \/ Settled(Edits[i], Site))'
<1>1. Site' = Site /\ Edits' = Edits
    BY DEF Site, Edits
<1>2. CASE Edits[i] \in pending
    BY <1>1, <1>2
<1>3. CASE Settled(Edits[i], Site)
    <2>1. \A e, s : e = Edits[i] /\ s = Site => Settled(e, s)'
        BY <1>3, Calm
    <2>2. Settled(Edits[i], Site)'
        BY <2>1, <1>1, SettledNext
    <2> QED
        BY <2>2
<1> QED
    BY <1>2, <1>3 DEF Passed

LEMMA ReplaceKeeps == ASSUME IInv, Replace PROVE IInv'
<1> USE DEF IInv
<1>0. /\ pc = "edit" /\ step <= Len(Edits) /\ step' = step + 1
      /\ pending' = pending \union {Cur} /\ pc' \in {"edit", "write"} /\ changed' = TRUE
      /\ pc' = "edit" => Scripts[script].staged
      /\ InText(Site, Cur, Cur.from)
      /\ UNCHANGED <<disk, script, sites, visited, good, faults>>
    BY DEF Replace, AtEdit
<1>1. step \in 1..Len(Edits) /\ Len(Edits) \in Nat
    BY <1>0, Running DEF TypeOK
<1>2. Cur \in EditsOf(script)
    BY <1>1, Running DEF Cur
<1>3. \A d, e \in pending' : d.file = e.file
    <2>1. CASE Scripts[script].staged
        BY <2>1, <1>0, <1>2, Running DEF TypeOK
    <2>2. CASE ~Scripts[script].staged
        BY <2>2, <1>0 DEF Place
    <2> QED
        BY <2>1, <2>2
<1>4. TypeOK'
    <2>1. /\ sites' \in Seq(Sites) /\ visited' \subseteq Sites /\ step' \in 1..(Len(Edits) + 1)
          /\ pending' \subseteq EditsOf(script)
        BY <1>0, <1>1, <1>2 DEF TypeOK
    <2>2. changed' \in BOOLEAN
        BY <1>0
    <2>3. UNCHANGED disk /\ UNCHANGED script /\ UNCHANGED good /\ UNCHANGED faults
        BY <1>0
    <2>4. /\ pc' \in {"site", "edit", "write", "written", "compile", "verify"}
          /\ pc' \notin {"site", "compile", "verify"}
        BY <1>0
    <2> QED
        BY <1>3, <2>1, <2>2, <2>3, <2>4, StaysTyped
<1>5. Reached'
    BY <1>0, ReachedKept
<1>6. Passed'
    <2> SUFFICES ASSUME NEW i \in 1..(step' - 1)
                 PROVE  (Edits[i] \in pending \/ Settled(Edits[i], Site))'
        BY DEF Passed
    <2>1. CASE i = step
        BY <2>1, <1>0 DEF Cur, Edits
    <2>2. CASE i # step
        <3>1. i \in 1..(step - 1)
            BY <2>2, <1>0, <1>1
        <3>2. Passed /\ AtSite /\ pc # "written" /\ pc' # "written"
            BY <1>0 DEF AtSite
        <3> QED
            BY <3>1, <3>2, <1>0, PassedKept
    <2> QED
        BY <2>1, <2>2
<1>7. Ready'
    <2>1. \A d \in pending' : Holds(Site, d.body, d.from) /\ <<Site, d.file>> \notin cut
        BY <1>0 DEF Ready, InText
    <2>2. pc' # "written"
        BY <1>0
    <2> QED
        BY <2>1, <2>2, <1>0 DEF Ready, Holds, Site, disk
<1>8. Place'
    BY <1>0 DEF Place, AtSite
<1> QED
    BY <1>4, <1>5, <1>6, <1>7, <1>8

LEMMA EndEditsKeeps == ASSUME IInv, EndEdits PROVE IInv'
<1> USE DEF IInv
<1>0. /\ pc = "edit" /\ step > Len(Edits) /\ pc' \in {"write", "compile"}
      /\ pc' = "compile" => pending = {}
      /\ UNCHANGED <<disk, script, sites, visited, step, pending, changed, good, faults>>
    BY DEF EndEdits
<1>1. TypeOK'
    <2>1. /\ sites' \in Seq(Sites) /\ visited' \subseteq Sites /\ step' \in 1..(Len(Edits) + 1)
          /\ pending' \subseteq EditsOf(script) /\ \A d, e \in pending' : d.file = e.file
          /\ pc' \in {"site", "edit", "write", "written", "compile", "verify"}
          /\ pc' \in {"site", "compile", "verify"} => pending' = {}
        BY <1>0 DEF TypeOK
    <2>2. changed' \in BOOLEAN
        BY <1>0 DEF TypeOK
    <2>3. UNCHANGED disk /\ UNCHANGED script /\ UNCHANGED good /\ UNCHANGED faults
        BY <1>0
    <2> QED
        BY <2>1, <2>2, <2>3, StaysTyped
<1>2. Reached'
    BY <1>0, ReachedKept
<1>3. Passed'
    <2>1. Passed /\ AtSite /\ pc # "written" /\ pc' # "written" /\ step' = step
        BY <1>0 DEF AtSite
    <2>2. ASSUME NEW i \in 1..(step - 1)
          PROVE  (Edits[i] \in pending \/ Settled(Edits[i], Site))'
        BY <2>1, <1>0, PassedKept
    <2> QED
        BY <2>1, <2>2 DEF Passed
<1>4. Ready'
    BY <1>0 DEF Ready, Holds, Site, disk
<1>5. Place'
    BY <1>0 DEF Place, AtSite, Edits
<1> QED
    BY <1>1, <1>2, <1>3, <1>4, <1>5

LEMMA CompileKeeps == ASSUME IInv, Compile PROVE IInv'
<1> USE DEF IInv
<1>0. /\ pc = "compile" /\ pc' = "site" /\ visited' = visited \union {Site}
      /\ sites' = Tail(sites) /\ sites # <<>> /\ step > Len(Edits) /\ pending = {}
      /\ UNCHANGED <<disk, script, step, pending, changed, good, faults>>
    BY DEF Compile, Place, AtSite, TypeOK
<1>1. Site \in Sites /\ sites' \in Seq(Sites)
    BY <1>0 DEF TypeOK, Site
<1>2. TypeOK'
    <2>1. /\ visited' \subseteq Sites /\ step' \in 1..(Len(Edits) + 1)
          /\ pending' = {} /\ pending' \subseteq EditsOf(script)
        BY <1>0, <1>1 DEF TypeOK
    <2>2. changed' \in BOOLEAN
        BY <1>0 DEF TypeOK
    <2>3. UNCHANGED disk /\ UNCHANGED script /\ UNCHANGED good /\ UNCHANGED faults
        BY <1>0
    <2> QED
        BY <1>0, <1>1, <2>1, <2>2, <2>3, StaysTyped
<1>3. ASSUME NEW e \in EditsOf(script) PROVE Done(e, Site)
    <2>1. PICK i \in 1..Len(Edits) : e = Edits[i]
        BY Running
    <2>2. i \in 1..(step - 1)
        BY <1>0, Running DEF TypeOK
    <2>3. Settled(Edits[i], Site)
        BY <1>0, <2>2 DEF Passed, AtSite
    <2> QED
        BY <2>1, <2>3, <1>0 DEF Settled
<1>4. Reached'
    <2>1. \A e, s : (Settled(e, s) <=> Done(e, s)) /\ (Settled(e, s)' <=> Done(e, s))
        BY <1>0, Calm
    <2> QED
        BY <1>0, <1>3, <2>1 DEF Reached
<1> QED
    BY <1>0, <1>2, <1>4 DEF Place, Ready, Passed, AtSite

LEMMA SucceedKeeps == ASSUME IInv, Succeed PROVE IInv'
<1> USE DEF IInv
<1>0. /\ pc = "verify" /\ good' = good \union ({script} \X visited)
      /\ Over /\ UNCHANGED disk /\ UNCHANGED faults
    BY DEF Succeed
<1>1. \A g \in good' : \A e \in EditsOf(g[1]) : Done(e, g[2])
    BY <1>0 DEF Reached, Settled
<1>2. good' \subseteq suite \X Sites
    BY <1>0 DEF TypeOK
<1>3. faults' \in 0..MaxFaults
    BY <1>0 DEF TypeOK
<1> QED
    BY <1>0, <1>1, <1>2, <1>3, OverKeeps

LEMMA FaultKeeps == ASSUME IInv, Fault PROVE IInv'
<1> USE DEF IInv
<1>0. /\ Over /\ UNCHANGED disk /\ faults' = faults + 1 /\ faults < MaxFaults
      /\ good' = {g \in good : pc # "written" \/ g[2] # Site
                                 \/ FilesOf(g[1]) \intersect PendingFiles = {}}
    BY DEF Fault
<1>1. faults' \in 0..MaxFaults
    BY <1>0, PatcherAssumption DEF TypeOK
<1>2. good' \subseteq suite \X Sites
    BY <1>0 DEF TypeOK
<1>3. ASSUME NEW g \in good', NEW e \in EditsOf(g[1]) PROVE Done(e, g[2])
    <2>1. Settled(e, g[2])
        BY <1>0 DEF Reached
    <2>2. e.file \in FilesOf(g[1])
        BY DEF FilesOf
    <2> QED
        BY <1>0, <2>1, <2>2 DEF Settled
<1> QED
    BY <1>0, <1>1, <1>2, <1>3, OverKeeps

LEMMA TruncateKeeps == ASSUME IInv, Truncate PROVE IInv'
<1> USE DEF IInv
<1>0. /\ pc = "write" /\ pc' = "written" /\ cut' = cut \union ({Site} \X PendingFiles)
      /\ UNCHANGED <<suite, unfit, patched, foreign, script, sites, visited, step, pending>>
      /\ UNCHANGED <<changed, good, faults>>
    BY DEF Truncate
<1>1. Site' = Site /\ Edits' = Edits /\ PendingFiles' = PendingFiles /\ sites # <<>>
    BY <1>0 DEF Site, Edits, PendingFiles, Place, AtSite
<1>2. \A d \in pending : <<Site, d.file>> \notin cut /\ d.file \in PendingFiles
    BY <1>0 DEF Ready, PendingFiles
<1>3. ASSUME NEW e, NEW s, Settled(e, s) PROVE Settled(e, s)'
    <2>1. Done(e, s)
        BY <1>0, <1>3 DEF Settled
    <2>2. CASE s = Site /\ e.file \in PendingFiles
        <3>1. <<s, e.file>> \notin cut
            BY <1>2, <2>2 DEF PendingFiles
        <3>2. Becomes(e, s)
            BY <2>1, <3>1 DEF Done, InText, Becomes
        <3>3. Becomes(e, s)'
            BY <3>2, <1>0 DEF Becomes, Holds
        <3> QED
            BY <3>3, <2>2, <1>0, <1>1 DEF Settled
    <2>3. CASE ~(s = Site /\ e.file \in PendingFiles)
        <3>1. <<s, e.file>> \in cut' <=> <<s, e.file>> \in cut
            BY <1>0, <2>3
        <3>2. Done(e, s)'
            BY <2>1, <3>1, <1>0 DEF Done, InText, Holds
        <3> QED
            BY <3>2, <2>3, <1>1 DEF Settled
    <2> QED
        BY <2>2, <2>3
<1>4. TypeOK'
    <2>1. Site \in Sites
        BY <1>1 DEF TypeOK, Site
    <2>2. PendingFiles \subseteq Files
        BY Running DEF TypeOK, PendingFiles, Files
    <2>3. /\ cut' \subseteq Sites \X Files /\ suite' \in Suites /\ unfit' \subseteq Sites
          /\ patched' \subseteq Sites \X Bodies /\ foreign' \subseteq Sites \X Bodies
          /\ patched' \intersect foreign' = {} /\ script' \in suite'
        BY <1>0, <2>1, <2>2 DEF TypeOK
    <2>4. /\ pc' \in {"idle", "site", "edit", "write", "written", "compile", "verify"}
          /\ pc' \in {"site", "compile", "verify", "idle"} => pending' = {}
        BY <1>0
    <2>5. /\ sites' \in Seq(Sites) /\ visited' \subseteq Sites /\ step' \in 1..(Len(Edits') + 1)
          /\ pending' \subseteq EditsOf(script)' /\ \A d, e \in pending' : d.file = e.file
          /\ good' \subseteq suite' \X Sites /\ faults' \in 0..MaxFaults
        BY <1>0, <1>1 DEF TypeOK
    <2>6. changed' \in BOOLEAN
        BY <1>0 DEF TypeOK
    <2> HIDE DEF IInv
    <2> QED
        BY <2>3, <2>4, <2>5, <2>6 DEF TypeOK
<1>5. Reached'
    BY <1>0, <1>3 DEF Reached
<1>6. Passed'
    <2> SUFFICES ASSUME NEW i \in 1..(step - 1)
                 PROVE  (Edits[i] \in pending \/ Settled(Edits[i], Site))'
        BY <1>0 DEF Passed
    <2>1. CASE Edits[i] \in pending
        BY <2>1, <1>0, <1>1
    <2>2. CASE Settled(Edits[i], Site)
        <3>1. \A e, s : e = Edits[i] /\ s = Site => Settled(e, s)'
            BY <2>2, <1>3
        <3> QED
            BY <3>1, <1>1, SettledNext
    <2> QED
        BY <2>1, <2>2, <1>0 DEF Passed, AtSite
<1>7. Ready'
    <2>1. \A d \in pending : Holds(Site, d.body, d.from) /\ <<Site, d.file>> \in cut'
        BY <1>0, <1>2 DEF Ready
    <2> QED
        BY <2>1, <1>0, <1>1 DEF Ready, Holds
<1>8. Place'
    BY <1>0, <1>1 DEF Place, AtSite
<1> QED
    BY <1>4, <1>5, <1>6, <1>7, <1>8

LEMMA WriteKeeps == ASSUME IInv, Write PROVE IInv'
<1> USE DEF IInv
<1>0. /\ pc = "written" /\ pc' = "edit" /\ pending' = {}
      /\ patched' = (patched \ {<<Site, e.body>> : e \in pending})
                      \union {<<Site, e.body>> : e \in {d \in pending : d.to = "patched"}}
      /\ cut' = cut \ ({Site} \X PendingFiles)
      /\ UNCHANGED <<suite, unfit, foreign, script, sites, visited, step, changed, good, faults>>
    BY DEF Write
<1>1. Site' = Site /\ Edits' = Edits /\ sites # <<>> /\ Site \in Sites
    BY <1>0 DEF Site, Edits, Place, AtSite, TypeOK
<1>2. pending \subseteq Listed /\ pending \subseteq AllEdits
    BY Running DEF TypeOK
<1>3. ASSUME NEW e, NEW s PROVE Settled(e, s)' <=> Done(e, s)'
    BY <1>0 DEF Settled
<1>4. ASSUME NEW d \in pending PROVE Done(d, Site)'
    <2>1. Way(d) /\ Holds(Site, d.body, d.from)
        BY <1>2, ListedDiffer DEF Ready
    <2>2. <<Site, d.file>> \notin cut'
        BY <1>0 DEF PendingFiles
    <2>3. \A f \in pending : f.body = d.body => f = d
        BY <1>2, ListedDiffer
    <2>4. CASE d.from = "upstream" /\ d.to = "patched"
        <3>1. <<Site, d.body>> \in patched'
            BY <2>4, <1>0
        <3> QED
            BY <3>1, <2>2, <2>4, <1>1 DEF Done, InText, Holds
    <2>5. CASE d.from = "patched" /\ d.to = "upstream"
        <3>1. <<Site, d.body>> \notin foreign
            BY <2>1, <2>5 DEF Holds, TypeOK
        <3>2. <<Site, d.body>> \notin patched'
            BY <2>3, <2>5, <1>0
        <3>3. <<Site, d.body>> \notin foreign'
            BY <3>1, <1>0
        <3> QED
            BY <3>2, <3>3, <2>2, <2>5, <1>1 DEF Done, InText, Holds
    <2> QED
        BY <2>1, <2>4, <2>5 DEF Way
<1>5. ASSUME NEW e \in Listed, NEW s, Settled(e, s) PROVE Done(e, s)'
    <2>1. CASE s = Site /\ e \in pending
        BY <2>1, <1>1, <1>4 DEF Done, InText, Holds
    <2>2. CASE ~(s = Site /\ e \in pending)
        <3>1. \A d \in pending : <<Site, d.body>> # <<s, e.body>>
            BY <2>2, <1>2, ListedDiffer
        <3>2. <<s, e.body>> \in patched' <=> <<s, e.body>> \in patched
            BY <3>1, <1>0
        <3>3. CASE s = Site /\ e.file \in PendingFiles
            <4>1. Becomes(e, s)
                BY <1>0, <1>5, <3>3 DEF Settled
            <4>2. <<s, e.file>> \notin cut'
                BY <1>0, <3>3
            <4> QED
                BY <4>1, <4>2, <3>2, <1>0 DEF Becomes, Done, InText, Holds
        <3>4. CASE ~(s = Site /\ e.file \in PendingFiles)
            <4>1. Done(e, s)
                BY <1>5, <3>4 DEF Settled
            <4>2. <<s, e.file>> \in cut' <=> <<s, e.file>> \in cut
                BY <1>0, <3>4
            <4> QED
                BY <4>1, <4>2, <3>2, <1>0 DEF Done, InText, Holds
        <3> QED
            BY <3>3, <3>4
    <2> QED
        BY <2>1, <2>2
<1>6. TypeOK'
    <2>1. \A d \in pending : d.body \in Bodies
        BY <1>2 DEF Bodies
    <2>2. patched' \subseteq Sites \X Bodies
        BY <1>0, <1>1, <2>1 DEF TypeOK
    <2>3. \A d \in pending : d.to = "patched" => <<Site, d.body>> \notin foreign
        BY <1>2, ListedDiffer DEF Ready, Holds, Way
    <2>4. patched' \intersect foreign' = {}
        BY <1>0, <2>3 DEF TypeOK
    <2>5. /\ suite' \in Suites /\ unfit' \subseteq Sites /\ foreign' \subseteq Sites \X Bodies
          /\ cut' \subseteq Sites \X Files /\ script' \in suite'
        BY <1>0 DEF TypeOK
    <2>6. /\ pc' \in {"idle", "site", "edit", "write", "written", "compile", "verify"}
          /\ pc' \in {"site", "compile", "verify", "idle"} => pending' = {}
          /\ pending' \subseteq EditsOf(script)' /\ \A d, e \in pending' : d.file = e.file
        BY <1>0
    <2>7. /\ sites' \in Seq(Sites) /\ visited' \subseteq Sites /\ step' \in 1..(Len(Edits') + 1)
          /\ good' \subseteq suite' \X Sites /\ faults' \in 0..MaxFaults
        BY <1>0, <1>1 DEF TypeOK
    <2>8. changed' \in BOOLEAN
        BY <1>0 DEF TypeOK
    <2> HIDE DEF IInv
    <2> QED
        BY <2>2, <2>4, <2>5, <2>6, <2>7, <2>8 DEF TypeOK
<1>7. Reached'
    <2>1. ASSUME NEW s \in visited, NEW e \in EditsOf(script) PROVE Done(e, s)'
        BY <1>5, Running DEF Reached
    <2>2. ASSUME NEW g \in good, NEW e \in EditsOf(g[1]) PROVE Done(e, g[2])'
        <3>1. g[1] \in DOMAIN Scripts
            BY Running DEF TypeOK
        <3>2. e \in Listed
            BY <3>1, Editing
        <3>3. Settled(e, g[2])
            BY DEF Reached
        <3> QED
            BY <3>2, <3>3, <1>5
    <2> QED
        BY <2>1, <2>2, <1>0, <1>3 DEF Reached
<1>8. Passed'
    <2> SUFFICES ASSUME NEW i \in 1..(step - 1)
                 PROVE  Settled(Edits[i], Site)'
        BY <1>0 DEF Passed
    <2>1. i \in 1..Len(Edits) /\ Edits[i] \in Listed
        BY Running DEF TypeOK
    <2>2. Edits[i] \in pending \/ Settled(Edits[i], Site)
        BY <1>0 DEF Passed, AtSite
    <2>3. \A e, s : e = Edits[i] /\ s = Site => Done(e, s)'
        <3> TAKE e, s
        <3> HAVE e = Edits[i] /\ s = Site
        <3>1. CASE e \in pending
            BY <3>1, <1>1, <1>4 DEF Done, InText, Holds
        <3>2. CASE Settled(e, s)
            BY <3>2, <2>1, <1>5
        <3> QED
            BY <3>1, <3>2, <2>2
    <2>4. \A e, s : e = Edits[i] /\ s = Site => Settled(e, s)'
        BY <2>3, <1>3
    <2> QED
        BY <2>4, <1>1, SettledNext
<1>9. Place' /\ Ready'
    BY <1>0, <1>1 DEF Place, Ready, AtSite
<1> QED
    BY <1>6, <1>7, <1>8, <1>9

LEMMA ReinstallKeeps == ASSUME IInv, NEW site \in Sites, Reinstall(site) PROVE IInv'
<1> USE DEF IInv
<1>0. /\ pc = "idle" /\ patched' = patched \ OfSite(patched, site)
      /\ foreign' \in Unknown
      /\ foreign \ OfSite(foreign, site) = foreign' \ OfSite(foreign', site)
      /\ cut' = cut \ OfSite(cut, site) /\ good' = {g \in good : g[2] # site}
      /\ UNCHANGED <<suite, unfit, faults>>
      /\ UNCHANGED <<pc, script, sites, visited, step, pending, changed>>
    BY DEF Reinstall, run
<1>1. Edits' = Edits /\ suite \subseteq DOMAIN Scripts
    BY <1>0, Running DEF Edits
<1>2. foreign' \subseteq Sites \X Bodies
    BY <1>0, <1>1, KnownBodies
<1>3. ASSUME NEW s, NEW x, s # site
      PROVE  /\ <<s, x>> \in patched' <=> <<s, x>> \in patched
             /\ <<s, x>> \in foreign' <=> <<s, x>> \in foreign
             /\ <<s, x>> \in cut' <=> <<s, x>> \in cut
    BY <1>0, <1>3 DEF OfSite
<1>4. ASSUME NEW e, NEW s, s # site, Settled(e, s) PROVE Settled(e, s)'
    <2>1. Done(e, s)
        BY <1>0, <1>4 DEF Settled
    <2>2. Done(e, s)'
        BY <2>1, <1>3, <1>4 DEF Done, InText, Holds
    <2> QED
        BY <2>2, <1>0 DEF Settled
<1>5. TypeOK'
    <2>1. patched' \subseteq Sites \X Bodies /\ cut' \subseteq Sites \X Files
        BY <1>0 DEF TypeOK
    <2>2. patched' \intersect foreign' = {}
        <3> SUFFICES ASSUME NEW p \in patched', p \in foreign' PROVE FALSE
            OBVIOUS
        <3>1. p \in patched /\ p[1] # site
            BY <1>0 DEF OfSite
        <3>2. p \in foreign
            BY <3>1, <1>0 DEF OfSite
        <3> QED
            BY <3>1, <3>2 DEF TypeOK
    <2>3. suite' \in Suites /\ unfit' \subseteq Sites /\ script' \in suite'
        BY <1>0 DEF TypeOK
    <2>4. /\ pc' \in {"idle", "site", "edit", "write", "written", "compile", "verify"}
          /\ pc' \in {"site", "compile", "verify", "idle"} => pending' = {}
          /\ pending' \subseteq EditsOf(script)' /\ \A d, e \in pending' : d.file = e.file
        BY <1>0 DEF TypeOK
    <2>5. /\ sites' \in Seq(Sites) /\ visited' \subseteq Sites /\ step' \in 1..(Len(Edits') + 1)
          /\ good' \subseteq suite' \X Sites /\ faults' \in 0..MaxFaults
        BY <1>0, <1>1 DEF TypeOK
    <2>6. changed' \in BOOLEAN
        BY <1>0 DEF TypeOK
    <2> HIDE DEF IInv
    <2> QED
        BY <1>2, <2>1, <2>2, <2>3, <2>4, <2>5, <2>6 DEF TypeOK
<1>6. visited' = {} /\ pending' = {} /\ sites' = <<>> /\ step' = 1
    BY <1>0 DEF Place, TypeOK
<1>7. Reached'
    BY <1>0, <1>4, <1>6 DEF Reached
<1> QED
    BY <1>0, <1>5, <1>6, <1>7 DEF Place, Ready, Passed, AtSite

LEMMA StepKeeps == IInv /\ [Next]_vars => IInv'
<1> SUFFICES ASSUME IInv, [Next]_vars PROVE IInv'
    OBVIOUS
<1>1. CASE UNCHANGED vars
    <2>1. /\ UNCHANGED <<suite, unfit, patched, foreign, cut>>
          /\ UNCHANGED <<pc, script, sites, visited, step, pending, changed, good, faults>>
        BY <1>1 DEF vars, disk, run
    <2>2. TypeOK'
        <3>1. TypeOK
            BY DEF IInv
        <3> QED
            BY <3>1, <2>1 DEF TypeOK, Edits
    <2>3. ASSUME NEW e, NEW s PROVE Settled(e, s)' <=> Settled(e, s)
        BY <2>1 DEF Settled, Becomes, Done, InText, Holds, Site, PendingFiles
    <2>4. Site' = Site /\ Edits' = Edits
        BY <2>1 DEF Site, Edits
    <2>5. Passed'
        <3> SUFFICES ASSUME AtSite, NEW i \in 1..(step - 1)
                     PROVE  (Edits[i] \in pending \/ Settled(Edits[i], Site))'
            BY <2>1 DEF Passed, AtSite
        <3>1. CASE Edits[i] \in pending
            BY <3>1, <2>1, <2>4
        <3>2. CASE Settled(Edits[i], Site)
            <4>1. \A e, s : e = Edits[i] /\ s = Site => Settled(e, s)'
                BY <3>2, <2>3
            <4> QED
                BY <4>1, <2>4, SettledNext
        <3> QED
            BY <3>1, <3>2 DEF IInv, Passed
    <2>6. Place' /\ Ready'
        BY <2>1, <2>4 DEF IInv, Place, Ready, AtSite, Holds
    <2>7. Reached'
        BY <2>1, <2>3 DEF IInv, Reached
    <2> QED
        BY <2>2, <2>5, <2>6, <2>7 DEF IInv
<1>2. CASE FilesMissing \/ NothingPatched \/ NotFound \/ CompileFails \/ VerifyFails
    <2>1. Fail /\ pc # "written"
        BY <1>2 DEF FilesMissing, NothingPatched, NotFound, AtEdit, CompileFails, VerifyFails
    <2> QED
        BY <2>1, FailKeeps
<1>3. CASE Step
    BY <1>2, <1>3, EnterKeeps, SkipKeeps, AllSitesKeeps, PassKeeps, ReplaceKeeps, EndEditsKeeps,
       TruncateKeeps, WriteKeeps, CompileKeeps, SucceedKeeps DEF Step
<1>4. CASE Fault
    BY <1>4, FaultKeeps
<1>5. CASE \E n \in DOMAIN Scripts : Begin(n)
    BY <1>5, BeginKeeps
<1>6. CASE \E s \in Sites : Reinstall(s)
    BY <1>6, ReinstallKeeps
<1> QED
    BY <1>1, <1>3, <1>4, <1>5, <1>6 DEF Next

(***************************************************************************)
(* Results                                                                 *)
(***************************************************************************)
LEMMA Invariance == Spec => []IInv
BY InitIInv, StepKeeps, PTL DEF Spec

\* Types, and that the edits a script holds in memory are its own and of one file.
THEOREM TypeCorrect == Spec => []TypeOK
<1>1. IInv => TypeOK
    BY DEF IInv
<1> QED
    BY <1>1, Invariance, PTL

\* "Syntax check OK" means that every edit of the script is in place at every site it
\* patched, and no later run of any script, however it ends, takes one of them back: only
\* a reinstall does, or a fault while a file of the script is being written.
THEOREM SuccessLasts == Spec => []OkMeansPatched
<1>1. IInv => OkMeansPatched
    BY DEF IInv, Reached, Settled, OkMeansPatched
<1> QED
    BY <1>1, Invariance, PTL

(***************************************************************************)
(* Running a script again                                                  *)
(***************************************************************************)

\* An edit that is settled by a script that ended well is not made again.
LEMMA DoneNotMade ==
    ASSUME IInv, Replace
    PROVE  <<script, Site>> \notin good
<1>0. pc = "edit" /\ step <= Len(Edits) /\ InText(Site, Cur, Cur.from)
    BY DEF Replace, AtEdit
<1>1. step \in 1..Len(Edits)
    BY <1>0, Running DEF IInv, TypeOK
<1>2. Cur \in EditsOf(script) /\ Way(Cur)
    BY <1>1, Running DEF Cur, IInv
<1>3. ~Done(Cur, Site)
    <2>1. ~Holds(Site, Cur.body, Cur.to)
        BY <1>0, <1>2, OneVersion DEF InText, IInv, TypeOK
    <2> QED
        BY <1>0, <2>1 DEF Done, InText
<1>4. ASSUME <<script, Site>> \in good PROVE FALSE
    <2>1. Settled(Cur, Site)
        BY <1>2, <1>4 DEF IInv, Reached
    <2> QED
        BY <1>0, <1>3, <2>1 DEF Settled
<1> QED
    BY <1>4

LEMMA StepRerun ==
    ASSUME IInv, RerunsWriteNothing, [Next]_vars
    PROVE  RerunsWriteNothing'
<1>1. ASSUME pending' = pending, UNCHANGED <<script, sites, good>> PROVE RerunsWriteNothing'
    BY <1>1 DEF RerunsWriteNothing, Site
<1>2. ASSUME pending' = {} PROVE RerunsWriteNothing'
    BY <1>2 DEF RerunsWriteNothing
<1>3. CASE UNCHANGED vars
    BY <1>1, <1>3 DEF vars, run
<1>4. CASE FilesMissing \/ NothingPatched \/ NotFound \/ CompileFails \/ Succeed \/ VerifyFails
           \/ Fault
    <2>1. Over
        BY <1>4 DEF FilesMissing, NothingPatched, NotFound, CompileFails, Succeed, VerifyFails,
                    Fail, Fault
    <2> QED
        BY <1>2, <2>1 DEF Over
<1>5. CASE Replace
    <2>1. Site' = Site /\ UNCHANGED <<script, good>>
        BY <1>5 DEF Replace, Site
    <2> QED
        BY <1>5, <2>1, DoneNotMade DEF RerunsWriteNothing
<1>6. CASE PassEdit \/ EndEdits \/ Truncate
    BY <1>1, <1>6 DEF PassEdit, EndEdits, Truncate
<1>7. CASE Write
    BY <1>2, <1>7 DEF Write
<1>8. CASE EnterSite \/ SkipSite \/ AllSites \/ Compile \/ (\E n \in DOMAIN Scripts : Begin(n))
           \/ (\E s \in Sites : Reinstall(s))
    <2>1. pc \in {"idle", "site", "compile"} /\ pending' = pending
        BY <1>8 DEF EnterSite, SkipSite, AllSites, Compile, Begin, Reinstall, run
    <2>2. pending = {}
        BY <2>1 DEF IInv, TypeOK
    <2> QED
        BY <1>2, <2>1, <2>2
<1> QED
    BY <1>3, <1>4, <1>5, <1>6, <1>7, <1>8 DEF Next, Step

\* A script that is run again on a site where it ended well, with no reinstall and no
\* fault in a file of it since, passes over every edit and opens no file: scripts that
\* share its files, and runs of them that failed half way, do not bring an edit back.
THEOREM RerunsHarmless == Spec => []RerunsWriteNothing
<1>1. Init => RerunsWriteNothing
    BY DEF Init, RerunsWriteNothing
<1>2. IInv /\ RerunsWriteNothing /\ [Next]_vars => RerunsWriteNothing'
    BY StepRerun
<1> QED
    BY <1>1, <1>2, InitIInv, StepKeeps, PTL DEF Spec

=============================================================================
