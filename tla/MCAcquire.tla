----------------------------- MODULE MCAcquire ------------------------------
(***************************************************************************)
(* Opens for TLC.  Two worlds: builtin ids whose files come down one by    *)
(* one while branches move, downloads fail and the network goes (Files);   *)
(* and one id of the caller's that is registered, unregistered and         *)
(* registered as something else while it is being opened (Entries).        *)
(***************************************************************************)
EXTENDS Acquire, FiniteSets

idA == <<"org", "a">>
mirror == <<"org", "a-onnx">>

Request(loader, id, precision) ==
  [loader |-> loader, id |-> id, precision |-> precision,
   revision |-> NoRevision, max_length |-> NoLimit, cuda |-> FALSE]
Limited(q, n) == [q EXCEPT !.max_length = {n}]
OnCuda(q) == [q EXCEPT !.cuda = TRUE]
At(q, rev) == [q EXCEPT !.revision = rev]

-----------------------------------------------------------------------------
(* Files of the hub                                                        *)

\* The layout of an artifact: graph, sidecar, tokenizer, and what the kind adds.
Layout(a, more) == {a.file, sidecar(a), TokenizerJson} \cup more
Snapshot(repo, commits, files) == {repo} \X commits \X files

nano == TEXT_NANO.tiers.fp32
vision == VISION_NANO.tiers.fp32
multi == LAYA_MULTI.tiers.fp32
slots == DECIDER2B.tiers.q8
slots32 == DECIDER2B.tiers.fp32
minilm == RERANK_MINILM.tiers.fp32
minilm8 == RERANK_MINILM.tiers.q8
safetensors == <<"model", ".safetensors">>

FilesPublished ==
  Snapshot(nano.repo, {nano.revision, "next"}, Layout(nano, {}))
  \cup Snapshot(vision.repo, {vision.revision}, Layout(vision, {}))
  \cup Snapshot(multi.repo, {multi.revision},
         Layout(multi, {TokenizerConfig, Json("rl_agent_config")}))
  \cup Snapshot(slots.repo, {slots.revision},
         Layout(slots, {slots32.file, safetensors, Json("decision"), Json("calibration")}))
  \cup Snapshot(minilm.repo, {minilm.revision}, {minilm.file, TokenizerJson})
  \cup Snapshot(minilm8.repo, {minilm8.revision}, Layout(minilm8, {}))
  \cup Snapshot(idA, {"a1", "a2"}, {Onnx("onnx/model"), TokenizerJson})

\* Every repository has its main, and one has another branch.
mains(published) == {p[1] : p \in published} \X {NoRevision}
dev == <<nano.repo, "dev">>
FilesHeads ==
  [r \in mains(FilesPublished) \cup {dev} |->
     CASE r[1] = nano.repo -> <<nano.revision, "next">>
       [] r[1] = idA -> <<"a1", "a2">>
       [] OTHER -> <<(CHOOSE p \in FilesPublished : p[1] = r[1])[2]>>]

\* Graphs with external weights; the multilingual tokenizer has none of the
\* default special tokens.
FilesCompanions ==
  {<<a.repo, a.file, sidecar(a)>> :
     a \in {nano, vision, multi, slots, slots32, minilm8}}
  \cup {<<slots.repo, slots.file, safetensors>>,
        <<multi.repo, TokenizerJson, TokenizerConfig>>}

FilesRequests ==
  {Request("text", NANO_TEXT_MODEL, "fp32"),
   At(Request("text", NANO_TEXT_MODEL, "fp32"), "dev"),
   Request("text", idA, "fp32"),
   Request("vision", VISION_NANO_MODEL, "fp32"),
   Limited(Request("laya", LAYA_MULTI.id, "fp32"), 1024),
   Request("2b", DECIDER2B.id, "q8"),
   Request("info", NANO_TEXT_MODEL, "fp32")}

\* At most two snapshots get any files at all, and one branch moves.
TwoSnapshots == Cardinality({<<c[1], c[2]>> : c \in cache}) <= 2
OneMoves == Cardinality({r \in Refs : head[r] > 1}) <= 1

-----------------------------------------------------------------------------
(* Entries of the caller's                                                 *)

NoEntries == [s \in Sides |-> {}]
NoContent == << >>
OnlyUnset == {Unset}

Task(kind, tokens, promptFirst, tiers) ==
  [id |-> idA, kind |-> kind, max_tokens |-> tokens, prompt_first |-> promptFirst,
   tiers |-> tiers, measured |-> FALSE,
   extra_files |-> kind_extra_files(kind)
                     \cup IF kind = "decide-2b" THEN {safetensors} ELSE {}]

Pinned(stem) == Artifact(mirror, Onnx(stem), NoFile, "a1")

rerankA == Task("rerank", 256, FALSE, [fp32 |-> Pinned("rerank"), q8 |-> Pinned("rerank_q8")])
decideA == Task("decide", 1024, TRUE, [fp32 |-> Pinned("decide")])
layaA == Task("decide-laya", 512, FALSE, [fp32 |-> Pinned("laya"), q8 |-> Pinned("laya_q8")])
slotsA == Task("decide-2b", 4096, FALSE, [fp32 |-> Pinned("slots")])
textA ==
  [id |-> idA, native_dim |-> 768, max_tokens |-> 512, ladder |-> <<256, 768>>,
   tiers |-> [fp32 |-> Pinned("text"), fp16 |-> Pinned("text_fp16")], measured |-> FALSE]

EntriesOfA == [task |-> {rerankA, decideA, layaA, slotsA}, model |-> {textA}]

EntriesPublished ==
  Snapshot(mirror, {"a1"},
    {Onnx(stem) : stem \in {"rerank", "rerank_q8", "decide", "laya", "laya_q8",
                            "slots", "text", "text_fp16"}}
    \cup {TokenizerJson, Json("rl_agent_config"), Json("decision"), Json("calibration")})
  \cup Snapshot(idA, {"a1"}, {Onnx("onnx/model"), TokenizerJson})
EntriesHeads == [r \in mains(EntriesPublished) |-> <<"a1">>]
EntriesCompanions == {}

EntriesRequests ==
  {Limited(Request("rerank", idA, "q8"), 300), Request("decide", idA, "fp32"),
   Limited(Request("decide", idA, "fp32"), 700),
   Limited(Request("laya", idA, "fp32"), 600), Request("laya", idA, "q8"),
   Request("2b", idA, "fp32"), OnCuda(Limited(Request("text", idA, "auto"), 512)),
   Request("info", idA, "q8")}

JustA == {idA}

\* A call is under way, or nothing has been fetched yet.
OneCall == \E o \in Openers : cache = {} \/ open[o].pc \notin Finished

-----------------------------------------------------------------------------
(* Both worlds, one at a time                                              *)

BothPublished == FilesPublished \cup EntriesPublished
BothHeads ==
  [r \in DOMAIN FilesHeads \cup DOMAIN EntriesHeads |->
     IF r \in DOMAIN FilesHeads THEN FilesHeads[r] ELSE EntriesHeads[r]]
BothRequests == FilesRequests \cup EntriesRequests

AsksOnly(qs) == \A o \in Openers : open[o].req \in qs \cup {NoRequest}
FilesWorld ==
  /\ AsksOnly(FilesRequests) /\ TwoSnapshots /\ OneMoves
  /\ dropped = {} /\ \A side \in Sides : overlay[side] = {}
  /\ \A t \in Threads : call[t] = Idle
EntriesWorld ==
  /\ AsksOnly(EntriesRequests) /\ OneCall
  /\ online /\ \A r \in Refs : head[r] = 1
  /\ \A c \in cache : c[1] \in {mirror, idA}
OneWorld == FilesWorld \/ EntriesWorld

-----------------------------------------------------------------------------
(* The calls that show what the docs say and the code does not keep        *)

SlotsCalls == {Request("2b", DECIDER2B.id, p) : p \in {"fp32", "q8"}}
QuantCall == {Request("rerank", RERANK_MINILM.id, "q8")}
ShadowCall == {Request("info", NANO_TEXT_MODEL, "fp32")}
DefaultLimitCall == {Request("text", idA, "fp32")}

\* A task entry under a builtin embedding id.
ShadowEntries ==
  [task |-> {[rerankA EXCEPT !.id = NANO_TEXT_MODEL]}, model |-> {}]
=============================================================================
