----------------------------- MODULE CodexProofs -----------------------------
(***************************************************************************)
(* What holds of the run-state file for any threads and any number of hook *)
(* processes, however they overlap at it, fail or are killed.              *)
(***************************************************************************)
EXTENDS CodexSessions, FiniteSetTheorems, SequenceTheorems, TLAPS

Working == {"read", "truncate", "write", "post"}

HookState == [stage : Working, session : Sessions, seen : SUBSET Sessions]

CodexTypeOK ==
  /\ hook \in [HookProcs -> {NoHook} \cup HookState]
  /\ run_file \in Seq(Sessions)
  /\ own \subseteq Sessions

\* What a hook knows of the run-state file comes from hooks of the same run.
HookKnowsOwn(p) ==
  hook[p].stage \in {"read", "truncate", "write"} =>
    /\ hook[p].session \in own
    /\ hook[p].seen \subseteq own
    /\ IsFiniteSet(hook[p].seen)

RunFileInv ==
  /\ CodexTypeOK
  /\ \A p \in HookProcs : HookKnowsOwn(p)
  /\ Recorded \subseteq own
  /\ to_end \subseteq own

-----------------------------------------------------------------------------
LEMMA StageIs ==
  ASSUME CodexTypeOK, NEW p \in HookProcs, hook[p].stage # "none"
  PROVE  hook[p] \in HookState
BY DEF CodexTypeOK, NoHook

LEMMA AscendingHoldsAll ==
  ASSUME NEW ids \in SUBSET Sessions, IsFiniteSet(ids), NEW seq \in Ascending(ids)
  PROVE  /\ seq \in Seq(Sessions)
         /\ {seq[i] : i \in 1..Len(seq)} = ids
<1>. DEFINE count == Cardinality(ids)
<1>1. /\ count \in Nat
      /\ seq \in [1..count -> ids]
      /\ \A i, j \in 1..count : i < j => seq[i] < seq[j]
      /\ \A s \in ids : s \in Nat
  BY FS_CardinalityType, CodexAssumption DEF Ascending
<1>2. IsFiniteSet(1..count) /\ Cardinality(1..count) = Cardinality(ids)
  BY <1>1, FS_Interval
<1>. HIDE DEF count
<1>3. ASSUME NEW i \in 1..count, NEW j \in 1..count, i # j PROVE seq[i] # seq[j]
  <2>1. seq[i] \in Nat /\ seq[j] \in Nat
    BY <1>1
  <2>2. i < j \/ j < i
    BY <1>1, <1>3
  <2>. QED
    BY <1>1, <2>1, <2>2
<1>4. seq \in Injection(1..count, ids)
  BY <1>1, <1>3 DEF Injection, IsInjective
<1>5. seq \in Surjection(1..count, ids)
  BY <1>2, <1>4, FS_Injection
<1>6. \A s \in ids : \E i \in 1..count : seq[i] = s
  BY <1>5 DEF Surjection
<1>7. seq \in Seq(Sessions) /\ Len(seq) = count
  BY <1>1
<1>. QED
  BY <1>1, <1>6, <1>7

LEMMA RecordedIsFinite ==
  ASSUME CodexTypeOK
  PROVE  IsFiniteSet(Recorded) /\ Recorded \subseteq Sessions
<1>1. Len(run_file) \in Nat /\ run_file \in [1..Len(run_file) -> Sessions]
  BY DEF CodexTypeOK
<1>2. IsFiniteSet(1..Len(run_file))
  BY <1>1, FS_Interval
<1>3. run_file \in Surjection(1..Len(run_file), Recorded)
  BY <1>1 DEF Recorded, Surjection
<1>. QED
  BY <1>1, <1>2, <1>3, FS_Surjection DEF Recorded

\* A step that moves one hook on, and leaves the rest to it.
LEMMA OneHookMoves ==
  ASSUME RunFileInv, NEW p \in HookProcs, NEW state,
         hook' = [hook EXCEPT ![p] = state], state \in {NoHook} \cup HookState,
         own \subseteq own', own' \subseteq Sessions,
         state.stage \in {"read", "truncate", "write"} =>
           state.session \in own' /\ state.seen \subseteq own' /\ IsFiniteSet(state.seen)
  PROVE  /\ hook' \in [HookProcs -> {NoHook} \cup HookState]
         /\ \A q \in HookProcs : HookKnowsOwn(q)'
<1>1. /\ hook'[p] = state
      /\ \A q \in HookProcs : q # p => hook'[q] = hook[q]
      /\ hook' \in [HookProcs -> {NoHook} \cup HookState]
  BY DEF RunFileInv, CodexTypeOK
<1>2. HookKnowsOwn(p)'
  BY <1>1 DEF HookKnowsOwn
<1>3. ASSUME NEW q \in HookProcs, q # p PROVE HookKnowsOwn(q)'
  BY <1>1, <1>3 DEF RunFileInv, HookKnowsOwn
<1>. QED
  BY <1>1, <1>2, <1>3

LEMMA FileUntouched ==
  ASSUME RunFileInv, UNCHANGED <<hook, run_file, own>>, to_end' \subseteq own
  PROVE  RunFileInv'
BY DEF RunFileInv, CodexTypeOK, HookKnowsOwn, Recorded

LEMMA StartHookStep ==
  ASSUME RunFileInv, NEW p \in HookProcs, NEW s \in Sessions, StartHook(p, s)
  PROVE  RunFileInv'
<1>. DEFINE wrapped == holder[s] = "wrapped"
            state == [stage |-> IF wrapped THEN "read" ELSE "post", session |-> s,
                      seen |-> {}]
<1>1. /\ hook' = [hook EXCEPT ![p] = state]
      /\ own' = IF wrapped THEN own \cup {s} ELSE own
      /\ UNCHANGED <<run_file, to_end>>
  BY DEF StartHook
<1>2. state \in HookState /\ state.session = s /\ state.seen = {}
      /\ (state.stage # "post" => wrapped)
  BY DEF HookState, Working
<1>3. own \subseteq own' /\ own' \subseteq Sessions /\ (wrapped => s \in own')
  BY <1>1 DEF RunFileInv, CodexTypeOK
<1>. HIDE DEF state
<1>4. IsFiniteSet({})
  BY FS_EmptySet
<1>5. /\ hook' \in [HookProcs -> {NoHook} \cup HookState]
      /\ \A q \in HookProcs : HookKnowsOwn(q)'
  BY <1>1, <1>2, <1>3, <1>4, OneHookMoves
<1>6. Recorded' = Recorded
  BY <1>1 DEF Recorded
<1>. QED
  BY <1>1, <1>3, <1>5, <1>6 DEF RunFileInv, CodexTypeOK

LEMMA ReadRunStep ==
  ASSUME RunFileInv, NEW p \in HookProcs, ReadRun(p)
  PROVE  RunFileInv'
<1>. DEFINE stage == IF hook[p].session \in Recorded THEN "post" ELSE "truncate"
            state == [stage |-> stage, session |-> hook[p].session, seen |-> Recorded]
<1>1. /\ hook[p].stage = "read"
      /\ hook' = [hook EXCEPT ![p].seen = Recorded, ![p].stage = stage]
      /\ UNCHANGED <<run_file, own, to_end>>
  BY DEF ReadRun
<1>2. hook[p] \in HookState /\ CodexTypeOK
  BY <1>1, StageIs DEF RunFileInv
<1>3. stage \in Working
  BY DEF Working
<1>4. hook' = [hook EXCEPT ![p] = state]
  BY <1>1, <1>2 DEF HookState, CodexTypeOK
<1>5. /\ hook[p].session \in own /\ Recorded \subseteq own
      /\ own \subseteq Sessions
      /\ IsFiniteSet(Recorded)
  BY <1>1, <1>2, RecordedIsFinite DEF RunFileInv, HookKnowsOwn, CodexTypeOK
<1>6. state \in HookState /\ state.session = hook[p].session /\ state.seen = Recorded
  BY <1>2, <1>3, <1>5 DEF HookState
<1>. HIDE DEF state
<1>7. /\ hook' \in [HookProcs -> {NoHook} \cup HookState]
      /\ \A q \in HookProcs : HookKnowsOwn(q)'
  BY <1>1, <1>4, <1>5, <1>6, OneHookMoves
<1>8. Recorded' = Recorded
  BY <1>1 DEF Recorded
<1>. QED
  BY <1>1, <1>2, <1>7, <1>8 DEF RunFileInv, CodexTypeOK

\* A hook that goes on to another step with what it knows, or ends.
LEMMA HookGoesOn ==
  ASSUME RunFileInv, NEW p \in HookProcs, NEW stage \in Working,
         hook[p].stage # "none",
         stage \in {"truncate", "write"} => hook[p].stage \in {"read", "truncate", "write"},
         stage # "read",
         UNCHANGED own,
         hook' \in {[hook EXCEPT ![p].stage = stage], [hook EXCEPT ![p] = NoHook]}
  PROVE  /\ hook' \in [HookProcs -> {NoHook} \cup HookState]
         /\ \A q \in HookProcs : HookKnowsOwn(q)'
<1>. DEFINE state == [stage |-> stage, session |-> hook[p].session, seen |-> hook[p].seen]
<1>1. hook[p] \in HookState /\ CodexTypeOK
  BY StageIs DEF RunFileInv
<1>2. state \in HookState /\ state.stage = stage
      /\ state.session = hook[p].session /\ state.seen = hook[p].seen
  BY <1>1 DEF HookState
<1>3. hook' \in {[hook EXCEPT ![p] = state], [hook EXCEPT ![p] = NoHook]}
  BY <1>1 DEF HookState, CodexTypeOK
<1>4. own \subseteq own' /\ own' \subseteq Sessions
  BY <1>1 DEF CodexTypeOK
<1>. HIDE DEF state
<1>5. CASE hook' = [hook EXCEPT ![p] = state]
  <2>1. stage \in {"truncate", "write"} =>
          hook[p].session \in own /\ hook[p].seen \subseteq own /\ IsFiniteSet(hook[p].seen)
    BY DEF RunFileInv, HookKnowsOwn
  <2>. QED
    BY <1>2, <1>4, <1>5, <2>1, OneHookMoves
<1>6. CASE hook' = [hook EXCEPT ![p] = NoHook]
  <2>1. NoHook.stage = "none"
    BY DEF NoHook
  <2>. QED
    BY <1>4, <1>6, <2>1, OneHookMoves
<1>. QED
  BY <1>3, <1>5, <1>6

LEMMA TruncateRunStep ==
  ASSUME RunFileInv, NEW p \in HookProcs, TruncateRun(p)
  PROVE  RunFileInv'
<1>1. /\ hook[p].stage = "truncate"
      /\ hook' = [hook EXCEPT ![p].stage = "write"]
      /\ run_file' = <<>>
      /\ UNCHANGED <<own, to_end>>
  BY DEF TruncateRun
<1>2. /\ hook' \in [HookProcs -> {NoHook} \cup HookState]
      /\ \A q \in HookProcs : HookKnowsOwn(q)'
  BY <1>1, HookGoesOn DEF Working
<1>3. Recorded' = {} /\ run_file' \in Seq(Sessions)
  BY <1>1 DEF Recorded
<1>. QED
  BY <1>1, <1>2, <1>3 DEF RunFileInv, CodexTypeOK

LEMMA WriteRunStep ==
  ASSUME RunFileInv, NEW p \in HookProcs, WriteRun(p)
  PROVE  RunFileInv'
<1>. DEFINE all == hook[p].seen \cup {hook[p].session}
<1>1. /\ hook[p].stage = "write"
      /\ hook' = [hook EXCEPT ![p].stage = "post"]
      /\ UNCHANGED <<own, to_end>>
  BY DEF WriteRun
<1>2. PICK ids \in Ascending(all) :
        run_file' = ids \o SubSeq(run_file, Len(ids) + 1, Len(run_file))
  BY DEF WriteRun
<1>3. all \subseteq own /\ all \in SUBSET Sessions /\ IsFiniteSet(all)
  <2>1. /\ hook[p].seen \subseteq own /\ hook[p].session \in own
        /\ IsFiniteSet(hook[p].seen)
    BY <1>1 DEF RunFileInv, HookKnowsOwn
  <2>. QED
    BY <2>1, FS_AddElement DEF RunFileInv, CodexTypeOK
<1>. HIDE DEF all
<1>4. ids \in Seq(Sessions) /\ {ids[i] : i \in 1..Len(ids)} = all
  BY <1>2, <1>3, AscendingHoldsAll
<1>. DEFINE rest == SubSeq(run_file, Len(ids) + 1, Len(run_file))
<1>5. run_file \in Seq(Sessions) /\ Len(run_file) \in Nat /\ Len(ids) \in Nat
  BY <1>4 DEF RunFileInv, CodexTypeOK
<1>6. /\ rest \in Seq(Sessions)
      /\ \A i \in 1..Len(rest) :
           Len(ids) + i \in 1..Len(run_file) /\ rest[i] = run_file[Len(ids) + i]
  BY <1>5
<1>. HIDE DEF rest
<1>7. run_file' = ids \o rest
  BY <1>2 DEF rest
<1>8. /\ run_file' \in Seq(Sessions)
      /\ \A i \in 1..Len(run_file') :
           \/ i \in 1..Len(ids) /\ run_file'[i] = ids[i]
           \/ i - Len(ids) \in 1..Len(rest) /\ run_file'[i] = rest[i - Len(ids)]
  BY <1>4, <1>6, <1>7
<1>9. Recorded' \subseteq all \cup Recorded
  BY <1>4, <1>6, <1>8 DEF Recorded
<1>10. /\ hook' \in [HookProcs -> {NoHook} \cup HookState]
       /\ \A q \in HookProcs : HookKnowsOwn(q)'
  BY <1>1, HookGoesOn DEF Working
<1>. QED
  BY <1>1, <1>3, <1>8, <1>9, <1>10 DEF RunFileInv, CodexTypeOK

LEMMA HookEndsStep ==
  ASSUME RunFileInv, NEW p \in HookProcs, HookFails(p) \/ PostHook(p)
  PROVE  RunFileInv'
<1>1. /\ hook[p].stage \in Working
      /\ hook' \in {[hook EXCEPT ![p].stage = "post"], [hook EXCEPT ![p] = NoHook]}
      /\ UNCHANGED <<run_file, own, to_end>>
  BY DEF HookFails, PostHook, Working
<1>2. /\ hook' \in [HookProcs -> {NoHook} \cup HookState]
      /\ \A q \in HookProcs : HookKnowsOwn(q)'
  BY <1>1, HookGoesOn DEF Working
<1>3. Recorded' = Recorded
  BY <1>1 DEF Recorded
<1>. QED
  BY <1>1, <1>2, <1>3 DEF RunFileInv, CodexTypeOK

LEMMA WrapperStepKeeps ==
  ASSUME RunFileInv, WrapperStep \/ WrapperKilled
  PROVE  RunFileInv'
<1>1. CASE StartEnding \/ (\E s \in Sessions : EndOne(s)) \/ WrapperKilled
  <2>1. /\ UNCHANGED <<hook, run_file, own>>
        /\ to_end' = Recorded \/ to_end' \subseteq to_end
    BY <1>1 DEF StartEnding, EndOne, WrapperKilled
  <2>. QED
    BY <2>1, FileUntouched DEF RunFileInv
<1>2. CASE RemoveRun
  <2>1. run_file' = <<>> /\ UNCHANGED <<hook, own, to_end>>
    BY <1>2 DEF RemoveRun
  <2>2. Recorded' = {} /\ run_file' \in Seq(Sessions)
    BY <2>1 DEF Recorded
  <2>. QED
    BY <2>1, <2>2 DEF RunFileInv, CodexTypeOK, HookKnowsOwn
<1>. QED
  BY <1>1, <1>2 DEF WrapperStep

LEMMA RunFileStep == RunFileInv /\ [CodexNext]_codexVars => RunFileInv'
<1>. SUFFICES ASSUME RunFileInv, [CodexNext]_codexVars PROVE RunFileInv'
  OBVIOUS
<1>1. ASSUME NEW p \in HookProcs, HookStep(p) \/ HookFails(p) PROVE RunFileInv'
  BY <1>1, ReadRunStep, TruncateRunStep, WriteRunStep, HookEndsStep DEF HookStep
<1>2. ASSUME NEW p \in HookProcs, NEW s \in Sessions, StartHook(p, s) PROVE RunFileInv'
  BY <1>2, StartHookStep
<1>3. CASE WrapperStep \/ WrapperKilled
  BY <1>3, WrapperStepKeeps
<1>4. CASE \/ \E s \in Sessions : OpenThread(s) \/ CloseThread(s)
           \/ CodexExits \/ Sweep \/ Deliver \/ UNCHANGED codexVars
  <2>1. UNCHANGED <<hook, run_file, own, to_end>>
    BY <1>4 DEF OpenThread, CloseThread, CodexExits, Sweep, Deliver, codexVars
  <2>. QED
    BY <2>1, FileUntouched DEF RunFileInv
<1>. QED
  BY <1>1, <1>2, <1>3, <1>4 DEF CodexNext

(***************************************************************************)
(* csm-codex ends only sessions of the Codex it wraps, for any number of   *)
(* hooks at any of their steps: a file that two of them overlay, that one  *)
(* of them left truncated, or that one writes again after csm-codex has    *)
(* removed it, may lack ids but never has one of another run.              *)
(***************************************************************************)
THEOREM OnlyOwnAreEnded == CodexSpec => []OnlyOwnSessionsAreEnded
<1>1. CodexInit => RunFileInv
  <2>. SUFFICES ASSUME CodexInit PROVE RunFileInv
    OBVIOUS
  <2>1. /\ hook = [p \in HookProcs |-> NoHook]
        /\ run_file = <<>> /\ own = {} /\ to_end = {}
    BY DEF CodexInit
  <2>2. \A p \in HookProcs : hook[p].stage = "none"
    BY <2>1 DEF NoHook
  <2>3. Recorded = {} /\ run_file \in Seq(Sessions)
    BY <2>1 DEF Recorded
  <2>. QED
    BY <2>1, <2>2, <2>3 DEF RunFileInv, CodexTypeOK, HookKnowsOwn
<1>2. RunFileInv => OnlyOwnSessionsAreEnded
  BY DEF RunFileInv, OnlyOwnSessionsAreEnded
<1>. QED
  BY <1>1, <1>2, RunFileStep, PTL DEF CodexSpec
=============================================================================
