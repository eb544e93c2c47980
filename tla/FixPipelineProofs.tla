------------------------- MODULE FixPipelineProofs -------------------------
(***************************************************************************)
(* Theorems about FixPipeline, for any number of items and processes, any  *)
(* assignment of commands to processes and every value of the bounds.      *)
(***************************************************************************)
EXTENDS FixPipeline, TLAPS

(* A process that is past its pick holds one of the items.                 *)
Holding(p) == proc[p].pc \notin {"idle", "pick"}
InHand == \A p \in Procs : Holding(p) => proc[p].item \in Items

ProcOK == proc \in [Procs -> ProcType] /\ InHand
TableOK == row \in [Items -> RowType] /\ dbErrors \in Nat
SiteOK ==
  /\ manifest \in [Items -> ManifestType]
  /\ live \in [Items -> {"orig", "fix"}]
  /\ inflight \subseteq (Items \X ManifestType)
CountOK == starts \in Nat /\ crashes \in Nat
HistoryOK ==
  /\ written \subseteq Items /\ human \subseteq Items
  /\ undone \subseteq Items /\ unstored \subseteq Items
TypeInv == ProcOK /\ TableOK /\ SiteOK /\ CountOK /\ HistoryOK

(* Moving a process on keeps it typed, if it then needs an item and has    *)
(* one.                                                                    *)
LEMMA GotoType ==
  ASSUME ProcOK, NEW p \in Procs, NEW pc \in Pcs, Goto(p, pc),
         pc \in {"idle", "pick"} \/ proc[p].item \in Items
  PROVE  ProcOK'
  BY DEF ProcOK, Goto, ProcType, InHand, Holding

(* So does sending it to a mark with a status the code writes.             *)
LEMMA GotoMarkType ==
  ASSUME ProcOK, NEW p \in Procs, NEW s \in Marks, GotoMark(p, s),
         proc[p].item \in Items
  PROVE  ProcOK'
  BY DEF ProcOK, GotoMark, ProcType, InHand, Holding, Pcs

(* The idle process is a process.                                          *)
LEMMA IdleType == Idle \in ProcType /\ Idle.pc = "idle"
<1>1. Blank \in RowType  BY DEF Blank, RowType, Statuses
<1>2. QED  BY <1>1 DEF Idle, ProcType, Commands, Pcs, Marks, Statuses

(* A process may end or be killed anywhere.                                *)
LEMMA IdleStepType ==
  ASSUME ProcOK, NEW p \in Procs, proc' = [proc EXCEPT ![p] = Idle]
  PROVE  ProcOK'
  BY IdleType DEF ProcOK, InHand, Holding

(* A command that has loaded its rows is a process about to pick one.      *)
LEMMA LoadedType ==
  ASSUME row \in [Items -> RowType], NEW cmd \in Commands, NEW b \in SUBSET Items
  PROVE  Loaded(cmd, b) \in ProcType /\ Loaded(cmd, b).pc = "pick"
<1>1. Blank \in RowType  BY DEF Blank, RowType, Statuses
<1>2. (IF cmd = "optimize" THEN row ELSE [i \in Items |-> Blank])
        \in [Items -> RowType]
  BY <1>1
<1>3. QED  BY <1>2 DEF Loaded, ProcType, Pcs, Marks, Statuses

(* What a command loads are items.                                         *)
LEMMA BatchesType ==
  \A cmd \in Commands : \A b \in Batches(cmd) : b \subseteq Items
  BY DEF Batches, Commands

(* A generated text leaves a row a row, of the same status.                *)
LEMMA WithAiType ==
  ASSUME NEW r \in RowType, NEW a \in AiResults
  PROVE  WithAi(r, a) \in RowType /\ WithAi(r, a).status = r.status
  BY DEF WithAi, AiResults, RowType

(* A generated text can raise the approval flag of a row and never lowers  *)
(* it.                                                                     *)
LEMMA WithAiApproval ==
  ASSUME NEW r \in RowType, NEW a \in AiResults
  PROVE  WithAi(r, a).approval <=> (r.approval \/ a.approval)
<1> DEFINE g == r.generated \/ a.generated
           b == r.approval \/ a.approval
           m == r.manual \/ a.manual
<1>1. WithAi(r, a) = [r EXCEPT !.generated = g, !.approval = b, !.manual = m]
  BY Zenon DEF WithAi
<1>2. g \in BOOLEAN /\ b \in BOOLEAN /\ m \in BOOLEAN  BY Zenon
<1>3. [r EXCEPT !.generated = g, !.approval = b, !.manual = m].approval = b
  <2> HIDE DEF g, b, m
  <2>1. QED  BY <1>2 DEF RowType
<1>4. QED  BY <1>1, <1>3

(* Setting one status leaves well-typed rows.                              *)
LEMMA SetStatusType ==
  ASSUME row \in [Items -> RowType], NEW i \in Items, NEW s \in Statuses,
         row' = [row EXCEPT ![i].status = s]
  PROVE  row' \in [Items -> RowType]
  BY DEF RowType

(* The manifest writes a process sends off are for real items.             *)
LEMMA SentType ==
  ASSUME SiteOK, NEW p \in Procs, proc[p].item \in Items
  PROVE  Sent(p) \subseteq Items \X ManifestType
<1> DEFINE i == proc[p].item
<1>1. live[i] \in {"orig", "fix"}  BY DEF SiteOK
<1>2. [shape |-> "adapter", before |-> live[i]] \in ManifestType
  BY <1>1 DEF ManifestType
<1>3. [shape |-> "resources", before |-> "orig"] \in ManifestType
  BY DEF ManifestType
<1>4. QED  BY <1>2, <1>3 DEF Sent

-----------------------------------------------------------------------------
(* Type correctness.                                                       *)

(* The audited rows are well typed, and no process is under way.           *)
THEOREM InitType == Init => TypeInv
<1>1. SUFFICES ASSUME Init PROVE TypeInv  OBVIOUS
<1>2. row \in [Items -> RowType]
  <2>1. [status : {"queued"}, approval : BOOLEAN, manual : BOOLEAN,
         generated : {FALSE}] \subseteq RowType
    BY DEF RowType, Statuses
  <2>2. QED  BY <1>1, <2>1 DEF Init
<1>3. NoManifest \in ManifestType  BY DEF NoManifest, ManifestType
<1>4. TypeOK  BY <1>1, <1>2, <1>3, IdleType DEF Init, TypeOK
<1>5. InHand  BY <1>1, IdleType DEF Init, InHand, Holding
<1>6. QED
  BY <1>4, <1>5
  DEF TypeOK, TypeInv, ProcOK, TableOK, SiteOK, CountOK, HistoryOK

(* A mark, written, refused or lost, keeps the types.                      *)
LEMMA MarkType ==
  ASSUME TypeInv, NEW p \in Procs, Mark(p)
  PROVE  TypeInv'
<1> USE DEF TypeInv, SiteOK, CountOK, HistoryOK, site, counters, history
<1>1. proc[p].item \in Items  BY DEF Mark, ProcOK, InHand, Holding
<1>2. ProcOK'  BY <1>1, GotoType DEF Mark, Pcs
<1>3. TableOK'
  BY <1>1 DEF Mark, TableOK, DbError, RowType, PipelineAssumption
<1>4. QED  BY <1>2, <1>3 DEF Mark, TableOK

(* Generation, with its write to the row done or lost, keeps the types.    *)
LEMMA GenerateType ==
  ASSUME TypeInv, NEW p \in Procs, Generate(p)
  PROVE  TypeInv'
<1> DEFINE i == proc[p].item
<1> USE DEF TypeInv, SiteOK, CountOK, HistoryOK, site, counters, history
<1>1. i \in Items  BY DEF Generate, ProcOK, InHand, Holding
<1>2. PICK a \in AiResults :
        /\ proc' = [proc EXCEPT ![p].copy[i] = WithAi(@, a), ![p].pc = "engine"]
        /\ \/ row' = [row EXCEPT ![i] = WithAi(@, a)] /\ UNCHANGED dbErrors
           \/ DbError /\ UNCHANGED row
  BY DEF Generate
<1>3. ProcOK'
  <2>1. WithAi(proc[p].copy[i], a) \in RowType
    BY <1>1, WithAiType DEF ProcOK, ProcType
  <2> DEFINE c == [proc[p].copy EXCEPT ![i] = WithAi(@, a)]
             r == [proc[p] EXCEPT !.copy = c, !.pc = "engine"]
  <2>a. c \in [Items -> RowType]  BY <2>1 DEF ProcOK, ProcType
  <2>b. proc[p] \in ProcType  BY DEF ProcOK
  <2>c. r \in ProcType
    <3> HIDE DEF c
    <3>1. QED  BY <2>a, <2>b DEF ProcType, Pcs
  <2>d. proc' = [proc EXCEPT ![p] = r]  BY <1>2 DEF ProcOK, ProcType
  <2>2. proc' \in [Procs -> ProcType]
    <3> HIDE DEF r
    <3>1. QED  BY <2>c, <2>d DEF ProcOK
  <2>3. InHand'
    BY <1>1, <1>2 DEF ProcOK, ProcType, InHand, Holding
  <2>4. QED  BY <2>2, <2>3 DEF ProcOK
<1>4. TableOK'
  BY <1>1, <1>2, WithAiType DEF TableOK, DbError
<1>5. QED  BY <1>3, <1>4 DEF Generate, TableOK

(* Taking the next item of a batch keeps the types; the item is then in    *)
(* hand.                                                                   *)
LEMMA PickType ==
  ASSUME TypeInv, NEW p \in Procs, Pick(p)
  PROVE  TypeInv'
<1> USE DEF TypeInv, SiteOK, CountOK, HistoryOK, site, counters, history
<1>1. PICK i \in Heads(p) :
        LET cmd == proc[p].cmd
            manual == cmd = "optimize" /\ proc[p].copy[i].manual
        IN /\ proc' = [proc EXCEPT
                ![p].todo = @ \ {i}, ![p].item = i, ![p].phase = "sandbox",
                ![p].pc = IF manual THEN "mark" ELSE FirstPc(cmd),
                ![p].mark = IF manual THEN "pending_approval" ELSE @]
           /\ human' = IF cmd = "promote" THEN human \cup {i} ELSE human
  BY DEF Pick
<1>2. i \in Items /\ i \in proc[p].todo  BY DEF Heads, ProcOK, ProcType
<1>3. proc[p].cmd \in Commands  BY DEF ProcOK, ProcType
<1>4. FirstPc(proc[p].cmd) \in Pcs  BY <1>3 DEF FirstPc, Commands, Pcs
<1>5. ProcOK'
  <2> DEFINE manual == proc[p].cmd = "optimize" /\ proc[p].copy[i].manual
             pc == IF manual THEN "mark" ELSE FirstPc(proc[p].cmd)
             s == IF manual THEN "pending_approval" ELSE proc[p].mark
             r == [proc[p] EXCEPT !.todo = @ \ {i}, !.item = i,
                     !.phase = "sandbox", !.pc = pc, !.mark = s]
  <2>a. proc[p] \in ProcType  BY DEF ProcOK
  <2>b. pc \in Pcs  BY <1>4 DEF Pcs
  <2>c. s \in Marks  BY <2>a DEF ProcType, Marks, Statuses
  <2>d. proc' = [proc EXCEPT ![p] = r]  BY <1>1 DEF ProcOK
  <2>e. r \in ProcType
    <3> HIDE DEF pc, s
    <3>1. QED  BY <1>2, <2>a, <2>b, <2>c DEF ProcType
  <2>1. proc' \in [Procs -> ProcType]
    <3> HIDE DEF r
    <3>1. QED  BY <2>d, <2>e DEF ProcOK
  <2>2. InHand'  BY <1>1, <1>2 DEF ProcOK, ProcType, InHand, Holding
  <2>3. QED  BY <2>1, <2>2 DEF ProcOK
<1>6. human' \subseteq Items  BY <1>1, <1>2
<1>7. TableOK'  BY DEF Pick, counters, TableOK
<1>8. QED  BY <1>5, <1>6, <1>7 DEF Pick, TableOK

(* What follows an apply, a mark or the live apply, keeps processes typed. *)
LEMMA AfterApplyType ==
  ASSUME ProcOK, NEW p \in Procs, proc[p].item \in Items, AfterApply(p)
  PROVE  ProcOK'
<1>1. CASE GotoMark(p, "pending_approval") \/ GotoMark(p, "deployed")
  BY <1>1, GotoMarkType DEF Marks, Statuses
<1>2. CASE proc' = [proc EXCEPT ![p].pc = "engine", ![p].phase = "live"]
  <2> DEFINE r == [proc[p] EXCEPT !.pc = "engine", !.phase = "live"]
  <2>1. proc[p] \in ProcType  BY DEF ProcOK
  <2>2. r \in ProcType  BY <2>1 DEF ProcType, Pcs
  <2>3. proc' = [proc EXCEPT ![p] = r]  BY <1>2 DEF ProcOK
  <2>4. proc' \in [Procs -> ProcType]  BY <2>2, <2>3 DEF ProcOK
  <2>5. InHand'  BY <2>1, <2>3 DEF ProcOK, InHand, Holding, ProcType
  <2>6. QED  BY <2>4, <2>5 DEF ProcOK
<1>3. QED  BY <1>1, <1>2 DEF AfterApply

(* Writing the site changes one page and records it as written.            *)
LEMMA WriteSiteType ==
  ASSUME NEW i \in Items, WriteSite(i), live \in [Items -> {"orig", "fix"}],
         written \subseteq Items
  PROVE  live' \in [Items -> {"orig", "fix"}] /\ written' \subseteq Items
  BY DEF WriteSite

(* Each step of a process, a late manifest, a crash and the dashboard keep *)
(* the types and the items in hand.                                        *)
THEOREM StepType == TypeInv /\ [Next]_vars => TypeInv'
<1> SUFFICES ASSUME TypeInv, [Next]_vars PROVE TypeInv'  OBVIOUS
<1> USE DEF TypeInv, SiteOK, CountOK, HistoryOK, site, counters, history
<1>1. ASSUME NEW p \in Procs, NEW cmd \in Commands, Start(p, cmd)
      PROVE  TypeInv'
  <2>1. PICK b \in Batches(cmd) \ {{}} : proc' = [proc EXCEPT ![p] = Loaded(cmd, b)]
    BY <1>1 DEF Start
  <2>2. Loaded(cmd, b) \in ProcType /\ Loaded(cmd, b).pc = "pick"
    BY <2>1, BatchesType, LoadedType DEF TableOK
  <2>3. ProcOK'  BY <2>1, <2>2 DEF ProcOK, InHand, Holding
  <2>4. QED  BY <1>1, <2>3 DEF Start, TableOK
<1>2. ASSUME NEW p \in Procs, Work(p) PROVE TypeInv'
  <2>0. Holding(p) => proc[p].item \in Items  BY DEF ProcOK, InHand
  <2>1. CASE Pick(p)  BY <2>1, PickType
  <2>2. CASE Finish(p)
    BY <2>2, IdleStepType DEF Finish, TableOK
  <2>3. CASE Validate(p)
    <3>1. proc[p].item \in Items  BY <2>0, <2>3 DEF Validate, Holding
    <3>2. ProcOK'
      BY <2>3, <3>1, GotoType, GotoMarkType DEF Validate, Pcs, Marks, Statuses
    <3>3. QED  BY <2>3, <3>2 DEF Validate, TableOK
  <2>4. CASE Generate(p)  BY <2>4, GenerateType
  <2>5. CASE StoreManifest(p)
    <3>1. proc[p].item \in Items  BY <2>0, <2>5 DEF StoreManifest, Holding
    <3>2. ProcOK'  BY <2>5, <3>1, GotoType DEF StoreManifest, Pcs
    <3>3. [shape |-> "engine", before |-> "orig"] \in ManifestType
      BY DEF ManifestType
    <3>4. manifest' \in [Items -> ManifestType] /\ TableOK'
      BY <2>5, <3>1, <3>3 DEF StoreManifest, TableOK, DbError
    <3>5. unstored' \subseteq Items  BY <2>5, <3>1 DEF StoreManifest
    <3>6. QED  BY <2>5, <3>2, <3>4, <3>5 DEF StoreManifest
  <2>6. CASE ApplySucceeds(p)
    <3>1. proc[p].item \in Items  BY <2>0, <2>6 DEF ApplySucceeds, Holding
    <3>2. ProcOK'  BY <2>6, <3>1, AfterApplyType DEF ApplySucceeds
    <3>3. live' \in [Items -> {"orig", "fix"}] /\ written' \subseteq Items
      BY <2>6, <3>1, WriteSiteType DEF ApplySucceeds
    <3>4. inflight' \subseteq (Items \X ManifestType)
      BY <2>6, <3>1, SentType DEF ApplySucceeds
    <3>5. QED  BY <2>6, <3>2, <3>3, <3>4 DEF ApplySucceeds, TableOK
  <2>7. CASE ApplyFails(p)
    <3>1. proc[p].item \in Items  BY <2>0, <2>7 DEF ApplyFails, Holding
    <3>2. ProcOK'
      BY <2>7, <3>1, GotoMarkType DEF ApplyFails, Marks, Statuses
    <3>3. live' \in [Items -> {"orig", "fix"}] /\ written' \subseteq Items
      BY <2>7, <3>1, WriteSiteType DEF ApplyFails
    <3>4. QED  BY <2>7, <3>2, <3>3 DEF ApplyFails, TableOK
  <2>8. CASE Decide(p)
    <3>1. proc[p].item \in Items  BY <2>0, <2>8 DEF Decide, Holding
    <3>2. ProcOK'
      BY <2>8, <3>1, GotoType, GotoMarkType DEF Decide, Pcs, Marks, Statuses
    <3>3. human' \subseteq Items  BY <2>8, <3>1 DEF Decide
    <3>4. QED  BY <2>8, <3>2, <3>3 DEF Decide, TableOK
  <2>9. CASE ReadManifest(p)
    <3>1. proc[p].item \in Items  BY <2>0, <2>9 DEF ReadManifest, Holding
    <3>2. ProcOK'
      BY <2>9, <3>1, GotoType, GotoMarkType DEF ReadManifest, Pcs, Marks
    <3>3. TableOK'  BY <2>9 DEF ReadManifest, TableOK, DbError
    <3>4. QED  BY <2>9, <3>2, <3>3 DEF ReadManifest
  <2>10. CASE RevertStub(p)
    <3>1. proc[p].item \in Items  BY <2>0, <2>10 DEF RevertStub, Holding
    <3>2. ProcOK'  BY <2>10, <3>1, GotoMarkType DEF RevertStub, Marks
    <3>3. QED  BY <2>10, <3>1, <3>2 DEF RevertStub, TableOK
  <2>11. CASE Revert(p)
    <3>1. proc[p].item \in Items  BY <2>0, <2>11 DEF Revert, Holding
    <3>2. ProcOK'  BY <2>11, <3>1, GotoMarkType DEF Revert, Marks
    <3>3. QED  BY <2>11, <3>1, <3>2 DEF Revert, TableOK
  <2>12. CASE Mark(p)  BY <2>12, MarkType
  <2>13. QED
    BY <1>2, <2>1, <2>2, <2>3, <2>4, <2>5, <2>6, <2>7, <2>8, <2>9, <2>10,
       <2>11, <2>12 DEF Work
<1>3. ASSUME NEW p \in Procs, Crash(p) PROVE TypeInv'
  <2>1. ProcOK'  BY <1>3, IdleStepType DEF Crash
  <2>2. QED  BY <1>3, <2>1 DEF Crash, TableOK
<1>4. CASE LandManifest
  <2>1. PICK m \in inflight :
          /\ inflight' = inflight \ {m}
          /\ \/ manifest' = [manifest EXCEPT ![m[1]] = m[2]] /\ UNCHANGED dbErrors
             \/ DbError /\ UNCHANGED manifest
    BY <1>4 DEF LandManifest
  <2>2. m[1] \in Items /\ m[2] \in ManifestType  OBVIOUS
  <2>3. manifest' \in [Items -> ManifestType] /\ dbErrors' \in Nat
    BY <2>1, <2>2 DEF DbError, TableOK
  <2>4. UNCHANGED <<row, live, proc, starts, crashes, history>>
    BY <1>4 DEF LandManifest
  <2>5. ProcOK'  BY <2>4 DEF ProcOK, InHand, Holding
  <2>6. inflight' \subseteq (Items \X ManifestType)  BY <2>1
  <2>7. QED  BY <2>3, <2>4, <2>5, <2>6 DEF TableOK
<1>5. ASSUME NEW i \in Items, PressButton(i) \/ PostFix(i) PROVE TypeInv'
  <2>1. TableOK' /\ human' \subseteq Items
    BY <1>5, SetStatusType
    DEF PressButton, PostFix, SetStatus, TableOK, Statuses
  <2>2. UNCHANGED <<site, proc, counters, written, undone, unstored>>
    BY <1>5 DEF PressButton, PostFix
  <2>3. QED  BY <2>1, <2>2 DEF ProcOK, InHand, Holding
<1>6. CASE UNCHANGED vars
  BY <1>6 DEF vars, ProcOK, TableOK, InHand, Holding
<1>7. QED  BY <1>1, <1>2, <1>3, <1>4, <1>5, <1>6 DEF Next

(* Every row, manifest and process record keeps its shape, and a process   *)
(* past its pick has an item in hand.                                      *)
THEOREM TypeCorrect == Spec => []TypeOK
<1>1. TypeInv => TypeOK
  BY DEF TypeInv, ProcOK, TableOK, SiteOK, CountOK, HistoryOK, TypeOK
<1>2. QED  BY InitType, StepType, <1>1, PTL DEF Spec

-----------------------------------------------------------------------------
(* What the control steps of a process change, and nothing else.           *)
LEMMA GotoFacts ==
  ASSUME ProcOK, NEW p \in Procs, NEW pc, Goto(p, pc)
  PROVE  /\ \A q \in Procs : q # p => proc'[q] = proc[q]
         /\ proc'[p].pc = pc /\ proc'[p].mark = proc[p].mark
         /\ proc'[p].cmd = proc[p].cmd /\ proc'[p].phase = proc[p].phase
         /\ proc'[p].todo = proc[p].todo /\ proc'[p].item = proc[p].item
         /\ proc'[p].copy = proc[p].copy
  BY DEF ProcOK, ProcType, Goto

(* Sending a process to a mark changes its place and its mark, and nothing *)
(* else.                                                                   *)
LEMMA GotoMarkFacts ==
  ASSUME ProcOK, NEW p \in Procs, NEW s, GotoMark(p, s)
  PROVE  /\ \A q \in Procs : q # p => proc'[q] = proc[q]
         /\ proc'[p].pc = "mark" /\ proc'[p].mark = s
         /\ proc'[p].cmd = proc[p].cmd /\ proc'[p].phase = proc[p].phase
         /\ proc'[p].todo = proc[p].todo /\ proc'[p].item = proc[p].item
         /\ proc'[p].copy = proc[p].copy
  BY DEF ProcOK, ProcType, GotoMark

(* Replacing one process leaves the others alone.                          *)
LEMMA IdleStepFacts ==
  ASSUME ProcOK, NEW p \in Procs, NEW r, proc' = [proc EXCEPT ![p] = r]
  PROVE  proc'[p] = r /\ \A q \in Procs : q # p => proc'[q] = proc[q]
  BY DEF ProcOK

(* Taking an item moves it from the batch into the hand; a manual one goes *)
(* straight to its mark.                                                   *)
LEMMA PickFacts ==
  ASSUME ProcOK, NEW p \in Procs, Pick(p)
  PROVE  \E i \in proc[p].todo :
           LET manual == proc[p].cmd = "optimize" /\ proc[p].copy[i].manual IN
           /\ \A q \in Procs : q # p => proc'[q] = proc[q]
           /\ proc'[p].cmd = proc[p].cmd /\ proc'[p].phase = "sandbox"
           /\ proc'[p].todo = proc[p].todo \ {i} /\ proc'[p].item = i
           /\ proc'[p].copy = proc[p].copy
           /\ proc'[p].pc = IF manual THEN "mark" ELSE FirstPc(proc[p].cmd)
           /\ manual => proc'[p].mark = "pending_approval"
           /\ human' = IF proc[p].cmd = "promote" THEN human \cup {i} ELSE human
<1>1. PICK i \in Heads(p) :
        LET cmd == proc[p].cmd
            manual == cmd = "optimize" /\ proc[p].copy[i].manual
        IN /\ proc' = [proc EXCEPT
                ![p].todo = @ \ {i}, ![p].item = i, ![p].phase = "sandbox",
                ![p].pc = IF manual THEN "mark" ELSE FirstPc(cmd),
                ![p].mark = IF manual THEN "pending_approval" ELSE @]
           /\ human' = IF cmd = "promote" THEN human \cup {i} ELSE human
  BY DEF Pick
<1>2. i \in proc[p].todo  BY DEF Heads
<1>3. proc[p] \in ProcType  BY DEF ProcOK
<1> DEFINE manual == proc[p].cmd = "optimize" /\ proc[p].copy[i].manual
           r == [proc[p] EXCEPT !.todo = @ \ {i}, !.item = i,
                   !.phase = "sandbox",
                   !.pc = IF manual THEN "mark" ELSE FirstPc(proc[p].cmd),
                   !.mark = IF manual THEN "pending_approval" ELSE @]
<1>4. proc'[p] = r /\ \A q \in Procs : q # p => proc'[q] = proc[q]
  BY <1>1 DEF ProcOK
<1>5. /\ r.cmd = proc[p].cmd /\ r.phase = "sandbox" /\ r.item = i
      /\ r.todo = proc[p].todo \ {i} /\ r.copy = proc[p].copy
      /\ r.pc = IF manual THEN "mark" ELSE FirstPc(proc[p].cmd)
      /\ manual => r.mark = "pending_approval"
  BY <1>3 DEF ProcType
<1> HIDE DEF r
<1>6. QED  BY <1>1, <1>2, <1>4, <1>5

(* Generation writes one text into the copy, and the same into the row or  *)
(* nothing.                                                                *)
LEMMA GenerateFacts ==
  ASSUME TypeInv, NEW p \in Procs, Generate(p)
  PROVE  \E a \in AiResults : LET i == proc[p].item IN
           /\ \A q \in Procs : q # p => proc'[q] = proc[q]
           /\ proc'[p].pc = "engine"
           /\ proc'[p].cmd = proc[p].cmd /\ proc'[p].phase = proc[p].phase
           /\ proc'[p].todo = proc[p].todo /\ proc'[p].item = i
           /\ proc'[p].copy = [proc[p].copy EXCEPT ![i] = WithAi(@, a)]
           /\ row' = [row EXCEPT ![i] = WithAi(@, a)] \/ row' = row
<1> DEFINE i == proc[p].item
<1>1. PICK a \in AiResults :
        /\ proc' = [proc EXCEPT ![p].copy[i] = WithAi(@, a), ![p].pc = "engine"]
        /\ \/ row' = [row EXCEPT ![i] = WithAi(@, a)] /\ UNCHANGED dbErrors
           \/ DbError /\ UNCHANGED row
  BY DEF Generate
<1>2. proc[p] \in ProcType  BY DEF TypeInv, ProcOK
<1> DEFINE c == [proc[p].copy EXCEPT ![i] = WithAi(@, a)]
           r == [proc[p] EXCEPT !.copy = c, !.pc = "engine"]
<1>3. proc' = [proc EXCEPT ![p] = r]  BY <1>1, <1>2 DEF TypeInv, ProcOK, ProcType
<1>4. /\ r.cmd = proc[p].cmd /\ r.phase = proc[p].phase /\ r.item = i
      /\ r.todo = proc[p].todo /\ r.copy = c /\ r.pc = "engine"
  <2> HIDE DEF c
  <2>1. QED  BY <1>2 DEF ProcType
<1>5. proc'[p] = r /\ \A q \in Procs : q # p => proc'[q] = proc[q]
  <2> HIDE DEF r
  <2>1. QED  BY <1>3 DEF TypeInv, ProcOK
<1>6. row' = [row EXCEPT ![i] = WithAi(@, a)] \/ row' = row  BY <1>1
<1> HIDE DEF r
<1>7. QED  BY <1>4, <1>5, <1>6

(* After the sandbox apply the process goes to `pending_approval' or to    *)
(* the live apply; after the live one, to its last mark.                   *)
LEMMA AfterApplyFacts ==
  ASSUME ProcOK, NEW p \in Procs, AfterApply(p)
  PROVE  LET first == proc[p].cmd = "optimize" /\ proc[p].phase = "sandbox" IN
         /\ \A q \in Procs : q # p => proc'[q] = proc[q]
         /\ proc'[p].cmd = proc[p].cmd /\ proc'[p].todo = proc[p].todo
         /\ proc'[p].item = proc[p].item /\ proc'[p].copy = proc[p].copy
         /\ \/ /\ first /\ NeedsApproval(p)
               /\ proc'[p].pc = "mark" /\ proc'[p].mark = "pending_approval"
            \/ first /\ ~NeedsApproval(p) /\ proc'[p].pc = "engine"
            \/ /\ ~first
               /\ proc'[p].pc = "mark" /\ proc'[p].mark = "deployed"
<1> DEFINE first == proc[p].cmd = "optimize" /\ proc[p].phase = "sandbox"
<1>1. CASE first /\ NeedsApproval(p)
  BY <1>1, GotoMarkFacts DEF AfterApply
<1>2. CASE first /\ ~NeedsApproval(p)
  <2>1. proc' = [proc EXCEPT ![p].pc = "engine", ![p].phase = "live"]
    BY <1>2 DEF AfterApply
  <2>2. QED  BY <1>2, <2>1 DEF ProcOK, ProcType
<1>3. CASE ~first
  BY <1>3, GotoMarkFacts DEF AfterApply
<1>4. QED  BY <1>1, <1>2, <1>3

-----------------------------------------------------------------------------
(* `deployed' means written.  The inductive invariant adds the item a      *)
(* process is about to mark deployed.                                      *)
MarkIsWritten(p) ==
  (proc[p].pc = "mark" /\ proc[p].mark = "deployed" /\ proc[p].item \in Wired)
    => proc[p].item \in written
WrittenInv == DeployedWasWritten /\ \A p \in Procs : MarkIsWritten(p)

(* A step of one process keeps WrittenInv if its own mark is backed and a  *)
(* row becomes deployed only for a written item.                           *)
LEMMA WrittenByStep ==
  ASSUME TypeInv, WrittenInv, NEW p \in Procs,
         \A q \in Procs : q # p => proc'[q] = proc[q],
         MarkIsWritten(p)',
         written \subseteq written',
         \A i \in Wired : row'[i].status = "deployed"
                            => row[i].status = "deployed" \/ i \in written'
  PROVE  WrittenInv'
<1>1. DeployedWasWritten'  BY DEF WrittenInv, DeployedWasWritten
<1>2. ASSUME NEW q \in Procs, q # p PROVE MarkIsWritten(q)'
  <2>1. proc'[q] = proc[q]  BY <1>2
  <2>2. QED  BY <2>1 DEF WrittenInv, MarkIsWritten
<1>3. QED  BY <1>1, <1>2 DEF WrittenInv

(* In particular a step that writes no row and is not headed for the mark  *)
(* `deployed'.                                                             *)
LEMMA WrittenByGoto ==
  ASSUME TypeInv, WrittenInv, NEW p \in Procs, UNCHANGED <<row, written>>,
         \/ \E pc \in Pcs \ {"mark"} : Goto(p, pc)
         \/ \E s \in Marks \ {"deployed"} : GotoMark(p, s)
         \/ proc' = [proc EXCEPT ![p] = Idle]
  PROVE  WrittenInv'
<1>1. CASE \E pc \in Pcs \ {"mark"} : Goto(p, pc)
  <2>1. (\A q \in Procs : q # p => proc'[q] = proc[q]) /\ proc'[p].pc # "mark"
    BY <1>1, GotoFacts DEF TypeInv
  <2>2. QED  BY <2>1, WrittenByStep DEF MarkIsWritten
<1>2. CASE \E s \in Marks \ {"deployed"} : GotoMark(p, s)
  <2>1. (\A q \in Procs : q # p => proc'[q] = proc[q]) /\ proc'[p].mark # "deployed"
    BY <1>2, GotoMarkFacts DEF TypeInv
  <2>2. QED  BY <2>1, WrittenByStep DEF MarkIsWritten
<1>3. CASE proc' = [proc EXCEPT ![p] = Idle]
  <2>1. (\A q \in Procs : q # p => proc'[q] = proc[q]) /\ proc'[p].pc # "mark"
    BY <1>3, IdleStepFacts, IdleType DEF TypeInv
  <2>2. QED  BY <2>1, WrittenByStep DEF MarkIsWritten
<1>4. QED  BY <1>1, <1>2, <1>3

(* Nothing is deployed at first.                                           *)
THEOREM InitWritten == Init => WrittenInv
<1>1. SUFFICES ASSUME Init PROVE WrittenInv  OBVIOUS
<1>2. \A i \in Items : row[i].status = "queued"  BY <1>1 DEF Init
<1>3. \A p \in Procs : proc[p].pc = "idle"  BY <1>1, IdleType DEF Init
<1>4. QED
  BY <1>2, <1>3, PipelineAssumption DEF WrittenInv, DeployedWasWritten, MarkIsWritten

(* Without the Approve button every step keeps the deployed items among    *)
(* the written ones.                                                       *)
THEOREM StepWritten ==
  ASSUME "buttons" \notin Dashboard
  PROVE  TypeInv /\ WrittenInv /\ [Next]_vars => WrittenInv'
<1> SUFFICES ASSUME TypeInv, WrittenInv, [Next]_vars PROVE WrittenInv'  OBVIOUS
<1> USE DEF site, counters, history
<1>0. ProcOK  BY DEF TypeInv
<1>1. ASSUME NEW p \in Procs, NEW cmd \in Commands, Start(p, cmd)
      PROVE  WrittenInv'
  <2>1. PICK b \in Batches(cmd) \ {{}} : proc' = [proc EXCEPT ![p] = Loaded(cmd, b)]
    BY <1>1 DEF Start
  <2>2. Loaded(cmd, b).pc = "pick"  BY DEF Loaded
  <2>3. (\A q \in Procs : q # p => proc'[q] = proc[q]) /\ proc'[p].pc = "pick"
    BY <1>0, <2>1, <2>2, IdleStepFacts
  <2>4. QED  BY <1>1, <2>3, WrittenByStep DEF Start, MarkIsWritten
<1>2. ASSUME NEW p \in Procs, Work(p) PROVE WrittenInv'
  <2>1. CASE Pick(p)
    <3>1. proc[p].cmd \in Commands  BY <1>0 DEF ProcOK, ProcType
    <3>2. FirstPc(proc[p].cmd) # "mark"  BY <3>1 DEF FirstPc, Commands
    <3>3. /\ \A q \in Procs : q # p => proc'[q] = proc[q]
          /\ proc'[p].pc = "mark" => proc'[p].mark = "pending_approval"
      BY <1>0, <2>1, <3>2, PickFacts
    <3>4. QED  BY <2>1, <3>3, WrittenByStep DEF Pick, MarkIsWritten
  <2>2. CASE Finish(p)  BY <2>2, WrittenByGoto DEF Finish
  <2>3. CASE Validate(p)
    BY <2>3, WrittenByGoto DEF Validate, Pcs, Marks, Statuses
  <2>4. CASE Generate(p)
    <3>1. PICK a \in AiResults :
            /\ \A q \in Procs : q # p => proc'[q] = proc[q]
            /\ proc'[p].pc = "engine"
            /\ \/ row' = [row EXCEPT ![proc[p].item] = WithAi(@, a)]
               \/ row' = row
      BY <2>4, GenerateFacts
    <3>2. \A i \in Items : row'[i].status = row[i].status
      BY <3>1, WithAiType DEF TypeInv, TableOK
    <3>3. QED
      BY <2>4, <3>1, <3>2, WrittenByStep, PipelineAssumption
      DEF Generate, MarkIsWritten
  <2>5. CASE StoreManifest(p)  BY <2>5, WrittenByGoto DEF StoreManifest, Pcs
  <2>6. CASE ApplySucceeds(p)
    <3>1. /\ \A q \in Procs : q # p => proc'[q] = proc[q]
          /\ proc'[p].item = proc[p].item
      BY <1>0, <2>6, AfterApplyFacts DEF ApplySucceeds
    <3>2. /\ written \subseteq written'
          /\ proc[p].item \in Wired => proc[p].item \in written'
      BY <2>6 DEF ApplySucceeds, WriteSite
    <3>3. QED  BY <2>6, <3>1, <3>2, WrittenByStep DEF ApplySucceeds, MarkIsWritten
  <2>7. CASE ApplyFails(p)
    <3>1. /\ \A q \in Procs : q # p => proc'[q] = proc[q]
          /\ proc'[p].mark = "failed"
      BY <1>0, <2>7, GotoMarkFacts DEF ApplyFails
    <3>2. written \subseteq written'  BY <2>7 DEF ApplyFails, WriteSite
    <3>3. QED  BY <2>7, <3>1, <3>2, WrittenByStep DEF ApplyFails, MarkIsWritten
  <2>8. CASE Decide(p)
    BY <2>8, WrittenByGoto DEF Decide, Pcs, Marks, Statuses
  <2>9. CASE ReadManifest(p)
    BY <2>9, WrittenByGoto DEF ReadManifest, Pcs, Marks
  <2>10. CASE RevertStub(p)  BY <2>10, WrittenByGoto DEF RevertStub, Marks
  <2>11. CASE Revert(p)  BY <2>11, WrittenByGoto DEF Revert, Marks
  <2>12. CASE Mark(p)
    <3>1. /\ \A q \in Procs : q # p => proc'[q] = proc[q]
          /\ proc'[p].pc = "pick"
      BY <1>0, <2>12, GotoFacts DEF Mark
    <3>2. \A i \in Wired : row'[i].status = "deployed"
                             => row[i].status = "deployed" \/ i \in written
      BY <2>12, PipelineAssumption
      DEF Mark, TypeInv, TableOK, RowType, WrittenInv, MarkIsWritten
    <3>3. QED  BY <2>12, <3>1, <3>2, WrittenByStep DEF Mark, MarkIsWritten
  <2>13. QED
    BY <1>2, <2>1, <2>2, <2>3, <2>4, <2>5, <2>6, <2>7, <2>8, <2>9, <2>10,
       <2>11, <2>12 DEF Work
<1>3. ASSUME NEW p \in Procs, Crash(p) PROVE WrittenInv'
  BY <1>3, WrittenByGoto DEF Crash
<1>4. ASSUME UNCHANGED <<row, proc, written>> PROVE WrittenInv'
  BY <1>4 DEF WrittenInv, DeployedWasWritten, MarkIsWritten
<1>5. ASSUME NEW i \in Items, PressButton(i) \/ PostFix(i) PROVE WrittenInv'
  <2>1. PostFix(i)  BY <1>5 DEF PressButton
  <2>2. \A k \in Wired : row'[k].status = "deployed" => row[k].status = "deployed"
    BY <2>1, PipelineAssumption DEF PostFix, SetStatus, TypeInv, TableOK, RowType
  <2>3. UNCHANGED <<proc, written>>  BY <2>1 DEF PostFix
  <2>4. QED  BY <2>2, <2>3 DEF WrittenInv, DeployedWasWritten, MarkIsWritten
<1>6. QED
  BY <1>1, <1>2, <1>3, <1>4, <1>5 DEF Next, LandManifest, vars

(* Unless the Approve button is used, which deploys without applying, a    *)
(* fix the adapter writes is marked deployed only after it reached the     *)
(* site, however many commands overlap and wherever they die.              *)
THEOREM DeployedIsWritten ==
  ASSUME "buttons" \notin Dashboard
  PROVE  Spec => []DeployedWasWritten
<1>1. WrittenInv => DeployedWasWritten  BY DEF WrittenInv
<1>2. TypeInv /\ WrittenInv /\ [Next]_vars => WrittenInv'  BY StepWritten
<1>3. QED  BY InitType, StepType, InitWritten, <1>1, <1>2, PTL DEF Spec

-----------------------------------------------------------------------------
(* No deployment without the decision it needs.  The rows optimize holds   *)
(* are copies; the invariant says how they may lag behind the table, and   *)
(* what the other commands can only have in hand after a person's choice.  *)
OneOptimizer ==
  \A p, q \in Procs : ("optimize" \in Runs[p] /\ "optimize" \in Runs[q]) => p = q

Ahead(p) == proc[p].todo \cup (IF Holding(p) THEN {proc[p].item} ELSE {})

(* Where a process can be.                                                 *)
Place(p) ==
  LET q == proc[p] IN
  /\ q.pc # "idle" => q.cmd \in Runs[p]
  /\ Holding(p) => q.item \notin q.todo
  /\ q.pc \in {"validate", "ai"} => q.phase = "sandbox"
  /\ q.pc \in {"ai", "engine"} => q.cmd = "optimize"
  /\ q.pc = "cms" => q.cmd \in {"optimize", "promote", "apply"}

(* What a person has decided about the item in hand.                       *)
Decided(p) ==
  LET q == proc[p] IN
  /\ q.cmd = "apply" => q.todo \subseteq human
  /\ (Holding(p) /\ q.cmd \in {"promote", "apply"}) => q.item \in human
  /\ (q.pc = "mark" /\ q.mark = "approved") => q.item \in human
  /\ (q.pc = "mark" /\ q.mark = "deployed" /\ q.cmd # "optimize") => q.item \in human

(* What optimize knows of its items.                                       *)
Informed(p) ==
  LET q == proc[p] IN
  q.cmd = "optimize" =>
    /\ q.pc # "idle" => \A i \in Ahead(p) :
         /\ row[i].status = "deployed" => i \in human
         /\ row[i].approval => q.copy[i].approval
    /\ (\/ q.pc \in {"engine", "cms"} /\ q.phase = "live"
        \/ q.pc = "mark" /\ q.mark = "deployed") => ~NeedsApproval(p)

ProcSafe(p) == Place(p) /\ Decided(p) /\ Informed(p)
ApprovedByHuman == \A i \in Items : row[i].status = "approved" => i \in human
ApprovalInv ==
  ApprovedByHuman /\ NoAutoDeployOfRisky /\ \A p \in Procs : ProcSafe(p)

(* A step of p leaves the other processes safe if it keeps, for optimize,  *)
(* what the copies know.                                                   *)
LEMMA OthersSafe ==
  ASSUME TypeInv, NEW q \in Procs, ProcSafe(q), proc'[q] = proc[q],
         human \subseteq human',
         (proc[q].pc # "idle" /\ proc[q].cmd = "optimize") =>
           \A i \in Items :
             /\ row'[i].status = "deployed" => row[i].status = "deployed" \/ i \in human'
             /\ row'[i].approval => row[i].approval
  PROVE  ProcSafe(q)'
<1> USE DEF ProcSafe
<1>1. Holding(q)' <=> Holding(q)  BY DEF Holding
<1>2. Place(q)'  BY <1>1 DEF Place
<1>3. Decided(q)'  BY <1>1 DEF Decided
<1>4. Informed(q)'
  <2>1. Ahead(q)' = Ahead(q)  BY <1>1 DEF Ahead
  <2>2. Ahead(q) \subseteq Items
    BY DEF Ahead, TypeInv, ProcOK, ProcType, InHand
  <2>3. NeedsApproval(q)' <=> NeedsApproval(q)  BY DEF NeedsApproval
  <2>4. QED  BY <2>1, <2>2, <2>3 DEF Informed
<1>5. QED  BY <1>2, <1>3, <1>4

(* A step of one process that writes no row keeps ApprovalInv if that      *)
(* process stays safe.                                                     *)
LEMMA SafeByStep ==
  ASSUME TypeInv, ApprovalInv, NEW p \in Procs, UNCHANGED row,
         human \subseteq human',
         \A q \in Procs : q # p => proc'[q] = proc[q],
         ProcSafe(p)'
  PROVE  ApprovalInv'
<1>1. ApprovedByHuman'  BY DEF ApprovalInv, ApprovedByHuman
<1>2. NoAutoDeployOfRisky'  BY DEF ApprovalInv, NoAutoDeployOfRisky
<1>3. \A q \in Procs : q # p => ProcSafe(q)'
  BY OthersSafe DEF ApprovalInv
<1>4. QED  BY <1>1, <1>2, <1>3 DEF ApprovalInv

(* An idle process has no item in hand and nothing ahead of it.            *)
LEMMA IdleIsSafe ==
  ASSUME NEW p \in Procs, proc'[p] = Idle
  PROVE  ProcSafe(p)'
  BY DEF ProcSafe, Place, Decided, Informed, Holding, Idle

(* A step that only moves p on with the item in hand.                      *)
LEMMA GotoIsSafe ==
  ASSUME TypeInv, NEW p \in Procs, NEW pc, ProcSafe(p), Goto(p, pc),
         UNCHANGED row, human \subseteq human', Holding(p),
         \/ pc \in {"pick", "revert", "revert_stub"}
         \/ proc[p].pc = "validate" /\ proc[p].cmd = "optimize" /\ pc \in {"ai", "engine"}
         \/ proc[p].pc = "validate" /\ proc[p].cmd = "promote" /\ pc = "cms"
         \/ proc[p].pc = "engine" /\ pc = "cms"
  PROVE  ProcSafe(p)'
<1> USE DEF ProcSafe
<1>1. /\ proc'[p].pc = pc /\ proc'[p].mark = proc[p].mark
      /\ proc'[p].cmd = proc[p].cmd /\ proc'[p].phase = proc[p].phase
      /\ proc'[p].todo = proc[p].todo /\ proc'[p].item = proc[p].item
      /\ proc'[p].copy = proc[p].copy
  BY GotoFacts DEF TypeInv
<1>2. Holding(p)' => Holding(p)  OBVIOUS
<1>3. Place(p)'  BY <1>1, <1>2 DEF Place, Holding
<1>4. Decided(p)'  BY <1>1, <1>2 DEF Decided, Holding
<1>5. Informed(p)'
  <2>1. Ahead(p)' \subseteq Ahead(p)  BY <1>1, <1>2 DEF Ahead
  <2>2. NeedsApproval(p)' <=> NeedsApproval(p)  BY <1>1 DEF NeedsApproval
  <2>3. proc[p].pc # "idle"  BY DEF Holding
  <2>4. QED  BY <1>1, <2>1, <2>2, <2>3 DEF Informed, Place
<1>6. QED  BY <1>3, <1>4, <1>5

(* Sending a process to a mark other than `deployed' is safe; `approved'   *)
(* needs a person's yes.                                                   *)
LEMMA GotoMarkIsSafe ==
  ASSUME TypeInv, NEW p \in Procs, NEW s, ProcSafe(p), GotoMark(p, s),
         UNCHANGED row, human \subseteq human', Holding(p),
         s = "approved" => proc[p].item \in human',
         s # "deployed"
  PROVE  ProcSafe(p)'
<1> USE DEF ProcSafe
<1>1. /\ proc'[p].pc = "mark" /\ proc'[p].mark = s
      /\ proc'[p].cmd = proc[p].cmd
      /\ proc'[p].todo = proc[p].todo /\ proc'[p].item = proc[p].item
      /\ proc'[p].copy = proc[p].copy
  BY GotoMarkFacts DEF TypeInv
<1>2. Holding(p)'  BY <1>1 DEF Holding
<1>3. Place(p)'  BY <1>1 DEF Place, Holding
<1>4. Decided(p)'  BY <1>1, <1>2 DEF Decided
<1>5. Informed(p)'
  <2>1. Ahead(p)' = Ahead(p)  BY <1>1, <1>2 DEF Ahead
  <2>2. proc[p].pc # "idle"  BY DEF Holding
  <2>3. QED  BY <1>1, <2>1, <2>2 DEF Informed
<1>6. QED  BY <1>3, <1>4, <1>5

(* A command starts with copies that are the rows.                         *)
LEMMA StartIsSafe ==
  ASSUME TypeInv, ApprovalInv, NEW p \in Procs, NEW cmd \in Commands, Start(p, cmd)
  PROVE  ApprovalInv'
<1>1. PICK b \in Batches(cmd) \ {{}} : proc' = [proc EXCEPT ![p] = Loaded(cmd, b)]
  BY DEF Start
<1>2. proc'[p] = Loaded(cmd, b) /\ \A q \in Procs : q # p => proc'[q] = proc[q]
  BY <1>1, IdleStepFacts DEF TypeInv
<1>3. /\ proc'[p].cmd = cmd /\ proc'[p].pc = "pick" /\ proc'[p].todo = b
      /\ cmd = "optimize" => proc'[p].copy = row
  BY <1>2 DEF Loaded
<1>4. Place(p)'  BY <1>3 DEF Start, Place, Holding
<1>5. Decided(p)'
  <2>1. cmd = "apply" => b \subseteq human
    BY <1>1 DEF Batches, Loads, ApprovalInv, ApprovedByHuman
  <2>2. UNCHANGED human  BY DEF Start, history
  <2>3. QED  BY <1>3, <2>1, <2>2 DEF Decided, Holding
<1>6. Informed(p)'
  <2>1. cmd = "optimize" => \A i \in b : row[i].status = "queued"
    BY <1>1 DEF Batches, Loads
  <2>2. UNCHANGED row  BY DEF Start
  <2>3. Ahead(p)' = b  BY <1>3 DEF Ahead, Holding
  <2>4. QED  BY <1>3, <2>1, <2>2, <2>3 DEF Informed
<1>7. QED  BY <1>2, <1>4, <1>5, <1>6, SafeByStep DEF Start, history, ProcSafe

(* Taking the next item is safe: a manual item goes to `pending_approval'. *)
LEMMA PickIsSafe ==
  ASSUME TypeInv, ApprovalInv, NEW p \in Procs, Pick(p)
  PROVE  ApprovalInv'
<1> DEFINE manual(i) == proc[p].cmd = "optimize" /\ proc[p].copy[i].manual
<1>1. PICK i \in proc[p].todo :
        /\ \A q \in Procs : q # p => proc'[q] = proc[q]
        /\ proc'[p].cmd = proc[p].cmd /\ proc'[p].phase = "sandbox"
        /\ proc'[p].todo = proc[p].todo \ {i} /\ proc'[p].item = i
        /\ proc'[p].copy = proc[p].copy
        /\ proc'[p].pc = IF manual(i) THEN "mark" ELSE FirstPc(proc[p].cmd)
        /\ manual(i) => proc'[p].mark = "pending_approval"
        /\ human' = IF proc[p].cmd = "promote" THEN human \cup {i} ELSE human
  BY PickFacts DEF TypeInv
<1>2. proc[p].cmd \in Commands  BY DEF TypeInv, ProcOK, ProcType
<1>3. proc[p].pc = "pick" /\ UNCHANGED row  BY DEF Pick
<1>4. ProcSafe(p)  BY DEF ApprovalInv
<1>5. proc'[p].pc = "cms" => proc[p].cmd = "apply"
  BY <1>1, <1>2 DEF FirstPc, Commands
<1>6. proc'[p].pc \notin {"ai", "engine", "idle", "pick"}
  BY <1>1, <1>2 DEF FirstPc, Commands
<1>7. proc'[p].pc = "mark" => proc'[p].mark = "pending_approval"
  BY <1>1, <1>2 DEF FirstPc, Commands
<1>8. Place(p)'  BY <1>1, <1>3, <1>4, <1>5, <1>6 DEF ProcSafe, Place, Holding
<1>9. Decided(p)'  BY <1>1, <1>4, <1>7 DEF ProcSafe, Decided
<1>10. Informed(p)'
  <2>1. Ahead(p)' \subseteq Ahead(p)  BY <1>1 DEF Ahead
  <2>2. human \subseteq human'  BY <1>1
  <2>3. QED
    BY <1>1, <1>3, <1>4, <1>5, <1>6, <1>7, <2>1, <2>2 DEF ProcSafe, Informed
<1>11. human \subseteq human'  BY <1>1
<1>12. QED  BY <1>1, <1>3, <1>8, <1>9, <1>10, <1>11, SafeByStep DEF ProcSafe

(* The text generated for an item may ask for approval: the copy learns    *)
(* it, the row may not, and with one optimizer no other copy is concerned. *)
LEMMA GenerateIsSafe ==
  ASSUME OneOptimizer, TypeInv, ApprovalInv, NEW p \in Procs, Generate(p)
  PROVE  ApprovalInv'
<1> DEFINE i == proc[p].item
<1>1. PICK a \in AiResults :
        /\ \A q \in Procs : q # p => proc'[q] = proc[q]
        /\ proc'[p].pc = "engine"
        /\ proc'[p].cmd = proc[p].cmd /\ proc'[p].phase = proc[p].phase
        /\ proc'[p].todo = proc[p].todo /\ proc'[p].item = i
        /\ proc'[p].copy = [proc[p].copy EXCEPT ![i] = WithAi(@, a)]
        /\ row' = [row EXCEPT ![i] = WithAi(@, a)] \/ row' = row
  BY GenerateFacts
<1>2. /\ ProcSafe(p) /\ proc[p].pc = "ai" /\ Holding(p)
      /\ UNCHANGED human
  BY DEF ApprovalInv, Generate, history, Holding
<1>3. /\ proc[p].cmd = "optimize" /\ proc[p].phase = "sandbox"
      /\ "optimize" \in Runs[p] /\ i \notin proc[p].todo
  BY <1>2 DEF ProcSafe, Place
<1>4. i \in Items /\ row \in [Items -> RowType] /\ proc[p].copy \in [Items -> RowType]
  BY <1>2 DEF TypeInv, ProcOK, TableOK, ProcType, InHand
<1>5. \A k \in Items : row'[k].status = row[k].status /\ (k # i => row'[k] = row[k])
  BY <1>1, <1>4, WithAiType
<1>6. row'[i].approval => (row[i].approval \/ a.approval)
  <2>1. CASE row' = row  BY <2>1
  <2>2. CASE row' = [row EXCEPT ![i] = WithAi(@, a)]
    <3>1. row'[i] = WithAi(row[i], a) /\ row[i] \in RowType  BY <1>4, <2>2
    <3>2. QED  BY <3>1, WithAiApproval
  <2>3. QED  BY <1>1, <2>1, <2>2
<1>7. proc'[p].copy[i].approval <=> (proc[p].copy[i].approval \/ a.approval)
  <2>1. proc'[p].copy[i] = WithAi(proc[p].copy[i], a)  BY <1>1, <1>4
  <2>2. proc[p].copy[i] \in RowType  BY <1>4
  <2>3. QED  BY <2>1, <2>2, WithAiApproval
<1>8. i \in Ahead(p) /\ Ahead(p) \subseteq Items
  BY <1>2, <1>4 DEF Ahead, TypeInv, ProcOK, ProcType
<1>9. row[i].status = "deployed" => i \in human
  BY <1>2, <1>3, <1>8 DEF ProcSafe, Informed
<1>10. ApprovedByHuman'  BY <1>2, <1>5 DEF ApprovalInv, ApprovedByHuman
<1>11. NoAutoDeployOfRisky'
  BY <1>2, <1>5, <1>9 DEF ApprovalInv, NoAutoDeployOfRisky
<1>12. ProcSafe(p)'
  <2>1. Place(p)'  BY <1>1, <1>2, <1>3 DEF ProcSafe, Place, Holding
  <2>2. Decided(p)'  BY <1>1, <1>2, <1>3 DEF ProcSafe, Decided
  <2>3. Ahead(p)' = Ahead(p)  BY <1>1, <1>2 DEF Ahead, Holding
  <2>4. \A k \in Ahead(p) :
          /\ row'[k].status = "deployed" => k \in human
          /\ row'[k].approval => proc'[p].copy[k].approval
    <3>1. ASSUME NEW k \in Ahead(p), k # i
          PROVE  proc'[p].copy[k] = proc[p].copy[k] /\ row'[k] = row[k]
      BY <1>1, <1>4, <1>5, <1>8, <3>1
    <3>2. \A k \in Ahead(p) : /\ row[k].status = "deployed" => k \in human
                              /\ row[k].approval => proc[p].copy[k].approval
      BY <1>2, <1>3 DEF ProcSafe, Informed
    <3>3. QED  BY <1>5, <1>6, <1>7, <1>8, <3>1, <3>2
  <2>5. Informed(p)'  BY <1>1, <1>2, <1>3, <2>3, <2>4 DEF Informed
  <2>6. QED  BY <2>1, <2>2, <2>5 DEF ProcSafe
<1>13. ASSUME NEW q \in Procs, q # p PROVE ProcSafe(q)'
  <2>1. ProcSafe(q)  BY DEF ApprovalInv
  <2>2. ~(proc[q].pc # "idle" /\ proc[q].cmd = "optimize")
    BY <1>3, <1>13, <2>1 DEF OneOptimizer, ProcSafe, Place
  <2>3. QED  BY <1>1, <1>2, <1>13, <2>1, <2>2, OthersSafe
<1>14. QED  BY <1>10, <1>11, <1>12, <1>13 DEF ApprovalInv

(* An apply is safe: optimize reaches the live apply only with an item its *)
(* copy lets through.                                                      *)
LEMMA ApplyIsSafe ==
  ASSUME TypeInv, ApprovalInv, NEW p \in Procs, ApplySucceeds(p)
  PROVE  ApprovalInv'
<1> DEFINE first == proc[p].cmd = "optimize" /\ proc[p].phase = "sandbox"
<1>1. /\ \A q \in Procs : q # p => proc'[q] = proc[q]
      /\ proc'[p].cmd = proc[p].cmd /\ proc'[p].todo = proc[p].todo
      /\ proc'[p].item = proc[p].item /\ proc'[p].copy = proc[p].copy
      /\ \/ /\ first /\ NeedsApproval(p)
            /\ proc'[p].pc = "mark" /\ proc'[p].mark = "pending_approval"
         \/ first /\ ~NeedsApproval(p) /\ proc'[p].pc = "engine"
         \/ /\ ~first
            /\ proc'[p].pc = "mark" /\ proc'[p].mark = "deployed"
  BY AfterApplyFacts DEF TypeInv, ApplySucceeds
<1>2. ProcSafe(p) /\ proc[p].pc = "cms" /\ Holding(p) /\ UNCHANGED <<row, human>>
  BY DEF ApprovalInv, ApplySucceeds, Holding
<1>3. proc[p].phase \in {"sandbox", "live"}  BY DEF TypeInv, ProcOK, ProcType
<1>4. Holding(p)'  BY <1>1 DEF Holding
<1>5. Place(p)'  BY <1>1, <1>2 DEF ProcSafe, Place, Holding
<1>6. Decided(p)'  BY <1>1, <1>2, <1>4 DEF ProcSafe, Place, Decided
<1>7. Informed(p)'
  <2>1. Ahead(p)' = Ahead(p)  BY <1>1, <1>2, <1>4 DEF Ahead
  <2>2. NeedsApproval(p)' <=> NeedsApproval(p)  BY <1>1 DEF NeedsApproval
  <2>3. QED  BY <1>1, <1>2, <1>3, <2>1, <2>2 DEF ProcSafe, Informed
<1>8. QED  BY <1>1, <1>2, <1>5, <1>6, <1>7, SafeByStep DEF ProcSafe

(* The mark goes by id to whatever the row is by now.                      *)
LEMMA MarkIsSafe ==
  ASSUME OneOptimizer, TypeInv, ApprovalInv, NEW p \in Procs, Mark(p)
  PROVE  ApprovalInv'
<1> DEFINE i == proc[p].item
<1>1. /\ \A q \in Procs : q # p => proc'[q] = proc[q]
      /\ proc'[p].pc = "pick"
      /\ proc'[p].cmd = proc[p].cmd /\ proc'[p].todo = proc[p].todo
      /\ proc'[p].copy = proc[p].copy
  BY GotoFacts DEF Mark, TypeInv
<1>2. /\ ProcSafe(p) /\ proc[p].pc = "mark" /\ Holding(p) /\ UNCHANGED human
  BY DEF ApprovalInv, Mark, history, Holding
<1>3. i \in Items /\ i \notin proc[p].todo /\ proc[p].todo \subseteq Items
  BY <1>2 DEF TypeInv, ProcOK, ProcType, InHand, ProcSafe, Place
<1>4. /\ \A k \in Items : k # i => row'[k] = row[k]
      /\ row'[i].status \in {row[i].status, proc[p].mark}
      /\ row'[i].approval <=> row[i].approval
  BY <1>3 DEF Mark, TypeInv, TableOK, RowType
<1>5. ApprovedByHuman'
  BY <1>2, <1>4 DEF ApprovalInv, ApprovedByHuman, ProcSafe, Decided
<1>6. NoAutoDeployOfRisky'
  <2>1. ASSUME proc[p].mark = "deployed", row[i].approval \/ i \in Risky
        PROVE  i \in human
    <3>1. CASE proc[p].cmd # "optimize"
      BY <1>2, <2>1, <3>1 DEF ProcSafe, Decided
    <3>2. CASE proc[p].cmd = "optimize"
      <4>1. ~NeedsApproval(p)  BY <1>2, <2>1, <3>2 DEF ProcSafe, Informed
      <4>2. i \in Ahead(p)  BY <1>2 DEF Ahead
      <4>3. row[i].approval => proc[p].copy[i].approval
        BY <1>2, <3>2, <4>2 DEF ProcSafe, Informed
      <4>4. QED  BY <2>1, <4>1, <4>3 DEF NeedsApproval
    <3>3. QED  BY <3>1, <3>2
  <2>2. QED  BY <1>2, <1>4, <2>1 DEF ApprovalInv, NoAutoDeployOfRisky
<1>7. ProcSafe(p)'
  <2>1. Place(p)'  BY <1>1, <1>2 DEF ProcSafe, Place, Holding
  <2>2. Decided(p)'  BY <1>1, <1>2 DEF ProcSafe, Decided, Holding
  <2>3. Informed(p)'
    <3>1. Ahead(p)' = proc[p].todo  BY <1>1 DEF Ahead, Holding
    <3>2. \A k \in proc[p].todo : row'[k] = row[k]  BY <1>3, <1>4
    <3>3. proc[p].todo \subseteq Ahead(p)  BY DEF Ahead
    <3>4. QED  BY <1>1, <1>2, <3>1, <3>2, <3>3 DEF ProcSafe, Informed
  <2>4. QED  BY <2>1, <2>2, <2>3 DEF ProcSafe
<1>8. ASSUME NEW q \in Procs, q # p PROVE ProcSafe(q)'
  <2>1. ProcSafe(q)  BY DEF ApprovalInv
  <2>2. ASSUME proc[q].pc # "idle" /\ proc[q].cmd = "optimize"
        PROVE  proc[p].mark = "deployed" => i \in human
    <3>1. proc[p].cmd # "optimize"
      BY <1>2, <1>8, <2>1, <2>2 DEF OneOptimizer, ProcSafe, Place
    <3>2. QED  BY <1>2, <3>1 DEF ProcSafe, Decided
  <2>3. (proc[q].pc # "idle" /\ proc[q].cmd = "optimize") =>
           \A k \in Items :
             /\ row'[k].status = "deployed" => row[k].status = "deployed" \/ k \in human'
             /\ row'[k].approval => row[k].approval
    BY <1>2, <1>4, <2>2
  <2>4. QED  BY <1>1, <1>2, <1>8, <2>1, <2>3, OthersSafe
<1>9. QED  BY <1>5, <1>6, <1>7, <1>8 DEF ApprovalInv

(* No process is under way and nothing is deployed.                        *)
THEOREM InitApproval == Init => ApprovalInv
<1>1. SUFFICES ASSUME Init PROVE ApprovalInv  OBVIOUS
<1>2. \A i \in Items : row[i].status = "queued"  BY <1>1 DEF Init
<1>3. ASSUME NEW p \in Procs PROVE ProcSafe(p)
  <2>1. proc[p] = Idle  BY <1>1 DEF Init
  <2>2. QED  BY <2>1 DEF ProcSafe, Place, Decided, Informed, Holding, Idle
<1>4. QED
  BY <1>2, <1>3 DEF ApprovalInv, ApprovedByHuman, NoAutoDeployOfRisky

(* With one optimize process every step keeps ApprovalInv.                 *)
THEOREM StepApproval ==
  ASSUME OneOptimizer
  PROVE  TypeInv /\ ApprovalInv /\ [Next]_vars => ApprovalInv'
<1> SUFFICES ASSUME TypeInv, ApprovalInv, [Next]_vars PROVE ApprovalInv'  OBVIOUS
<1> USE DEF site, counters, history
<1>0. \A p \in Procs : ProcSafe(p)  BY DEF ApprovalInv
<1>1. ASSUME NEW p \in Procs, NEW r, proc' = [proc EXCEPT ![p] = r], r = Idle,
             UNCHANGED <<row, human>>
      PROVE  ApprovalInv'
  <2>1. proc'[p] = Idle /\ \A q \in Procs : q # p => proc'[q] = proc[q]
    BY <1>1, IdleStepFacts DEF TypeInv
  <2>2. ProcSafe(p)'  BY <2>1, IdleIsSafe
  <2>3. QED  BY <1>1, <2>1, <2>2, SafeByStep
<1>2. ASSUME NEW p \in Procs, UNCHANGED row, human \subseteq human', Holding(p),
             NEW s, GotoMark(p, s), s # "deployed",
             s = "approved" => proc[p].item \in human'
      PROVE  ApprovalInv'
  <2>1. ProcSafe(p)'  BY <1>0, <1>2, GotoMarkIsSafe
  <2>2. \A q \in Procs : q # p => proc'[q] = proc[q]
    BY <1>2, GotoMarkFacts DEF TypeInv
  <2>3. QED  BY <1>2, <2>1, <2>2, SafeByStep
<1>3. ASSUME NEW p \in Procs, UNCHANGED row, human \subseteq human', Holding(p),
             NEW pc, Goto(p, pc),
             \/ pc \in {"pick", "revert", "revert_stub"}
             \/ /\ proc[p].pc = "validate" /\ proc[p].cmd = "optimize"
                /\ pc \in {"ai", "engine"}
             \/ proc[p].pc = "validate" /\ proc[p].cmd = "promote" /\ pc = "cms"
             \/ proc[p].pc = "engine" /\ pc = "cms"
      PROVE  ApprovalInv'
  <2>1. ProcSafe(p)'  BY <1>0, <1>3, GotoIsSafe
  <2>2. \A q \in Procs : q # p => proc'[q] = proc[q]
    BY <1>3, GotoFacts DEF TypeInv
  <2>3. QED  BY <1>3, <2>1, <2>2, SafeByStep
<1>4. ASSUME NEW p \in Procs, Work(p) PROVE ApprovalInv'
  <2>1. CASE Pick(p)  BY <2>1, PickIsSafe
  <2>2. CASE Finish(p)  BY <1>1, <2>2 DEF Finish
  <2>3. CASE Validate(p)
    <3>1. Holding(p) /\ UNCHANGED <<row, human>>
      BY <2>3 DEF Validate, Holding
    <3>2. CASE \E s \in {"failed", "regression_detected"} : GotoMark(p, s)
      BY <1>2, <3>1, <3>2
    <3>3. CASE proc[p].cmd = "optimize" /\ \E pc \in {"ai", "engine"} : Goto(p, pc)
      BY <1>3, <2>3, <3>1, <3>3 DEF Validate
    <3>4. CASE proc[p].cmd = "promote" /\ Goto(p, "cms")
      BY <1>3, <2>3, <3>1, <3>4 DEF Validate
    <3>5. CASE Goto(p, "pick")  BY <1>3, <3>1, <3>5
    <3>6. QED  BY <2>3, <3>2, <3>3, <3>4, <3>5 DEF Validate
  <2>4. CASE Generate(p)  BY <2>4, GenerateIsSafe
  <2>5. CASE StoreManifest(p)  BY <1>3, <2>5 DEF StoreManifest, Holding
  <2>6. CASE ApplySucceeds(p)  BY <2>6, ApplyIsSafe
  <2>7. CASE ApplyFails(p)
    <3>1. GotoMark(p, "failed") /\ Holding(p) /\ UNCHANGED <<row, human>>
      BY <2>7 DEF ApplyFails, Holding
    <3>2. QED  BY <1>2, <3>1
  <2>8. CASE Decide(p)
    <3>1. Holding(p) /\ UNCHANGED row /\ human \subseteq human'
      BY <2>8 DEF Decide, Holding
    <3>2. CASE GotoMark(p, "approved") /\ human' = human \cup {proc[p].item}
      BY <1>2, <3>1, <3>2
    <3>3. CASE GotoMark(p, "skipped")  BY <1>2, <3>1, <3>3
    <3>4. CASE Goto(p, "pick")  BY <1>3, <3>1, <3>4
    <3>5. QED  BY <2>8, <3>2, <3>3, <3>4 DEF Decide
  <2>9. CASE ReadManifest(p)
    <3>1. Holding(p) /\ UNCHANGED <<row, human>>
      BY <2>9 DEF ReadManifest, Holding
    <3>2. CASE \E pc \in {"pick", "revert", "revert_stub"} : Goto(p, pc)
      BY <1>3, <3>1, <3>2
    <3>3. CASE GotoMark(p, "rollback_failed")  BY <1>2, <3>1, <3>3
    <3>4. QED  BY <2>9, <3>2, <3>3 DEF ReadManifest
  <2>10. CASE RevertStub(p)  BY <1>2, <2>10 DEF RevertStub, Holding
  <2>11. CASE Revert(p)
    <3>1. Holding(p) /\ UNCHANGED <<row, human>>  BY <2>11 DEF Revert, Holding
    <3>2. \E s \in {"rolled_back", "rollback_failed"} : GotoMark(p, s)
      BY <2>11 DEF Revert
    <3>3. QED  BY <1>2, <3>1, <3>2
  <2>12. CASE Mark(p)  BY <2>12, MarkIsSafe
  <2>13. QED
    BY <1>4, <2>1, <2>2, <2>3, <2>4, <2>5, <2>6, <2>7, <2>8, <2>9, <2>10,
       <2>11, <2>12 DEF Work
<1>5. ASSUME NEW p \in Procs, Crash(p) PROVE ApprovalInv'
  BY <1>1, <1>5 DEF Crash
<1>6. ASSUME UNCHANGED <<row, proc, human>> PROVE ApprovalInv'
  <2>1. \A p \in Procs : ProcSafe(p)'
    BY <1>0, <1>6
    DEF ProcSafe, Place, Decided, Informed, Ahead, Holding, NeedsApproval
  <2>2. QED
    BY <1>6, <2>1 DEF ApprovalInv, ApprovedByHuman, NoAutoDeployOfRisky
<1>7. ASSUME NEW i \in Items, PressButton(i) \/ PostFix(i) PROVE ApprovalInv'
  <2>1. /\ UNCHANGED proc /\ human \subseteq human'
        /\ \A k \in Items : k # i => row'[k] = row[k]
        /\ row'[i].approval <=> row[i].approval
        /\ row'[i].status \in {"deployed", "approved"} => i \in human'
    BY <1>7 DEF PressButton, PostFix, SetStatus, TypeInv, TableOK, RowType
  <2>2. ApprovedByHuman' /\ NoAutoDeployOfRisky'
    BY <2>1 DEF ApprovalInv, ApprovedByHuman, NoAutoDeployOfRisky
  <2>3. \A q \in Procs : ProcSafe(q)'  BY <1>0, <2>1, OthersSafe
  <2>4. QED  BY <2>2, <2>3 DEF ApprovalInv
<1>8. ASSUME NEW p \in Procs, NEW cmd \in Commands, Start(p, cmd) PROVE ApprovalInv'
  BY <1>8, StartIsSafe
<1>9. QED
  BY <1>4, <1>5, <1>6, <1>7, <1>8 DEF Next, LandManifest, vars

(* Whatever commands and dashboard controls run beside it, and wherever    *)
(* they die, a single optimize process deploys no item that asks for       *)
(* approval or is above the risk limit, unless a person let it through.    *)
THEOREM ApprovalIsKept ==
  ASSUME OneOptimizer
  PROVE  Spec => []NoAutoDeployOfRisky
<1>1. ApprovalInv => NoAutoDeployOfRisky  BY DEF ApprovalInv
<1>2. TypeInv /\ ApprovalInv /\ [Next]_vars => ApprovalInv'  BY StepApproval
<1>3. QED  BY InitType, StepType, InitApproval, <1>1, <1>2, PTL DEF Spec
-----------------------------------------------------------------------------
(* Rollback finds a manifest for what was deployed without a person.  The  *)
(* invariant follows the manifest from the engine to the mark, and the     *)
(* person's decision from where it is made to the mark.                    *)
HasManifest(i) == manifest[i].shape # "none"
Covered(i) == HasManifest(i) \/ i \in unstored

Backed(p) ==
  LET q == proc[p] IN
  /\ q.cmd = "apply" => q.todo \subseteq human
  /\ (Holding(p) /\ q.cmd \in {"promote", "apply"}) => q.item \in human
  /\ (q.pc = "mark" /\ q.mark = "approved") => q.item \in human
  /\ q.pc = "cms" => q.item \in human \/ Covered(q.item)
  /\ (q.pc = "mark" /\ q.mark = "deployed") => q.item \in human \/ Covered(q.item)

ManifestInv ==
  /\ ApprovedByHuman /\ DeployedHasManifest
  /\ \A m \in inflight : m[2].shape # "none"
  /\ \A p \in Procs : Backed(p)

(* What a step may not take back: decisions, manifests, and that one could *)
(* not be stored.                                                          *)
Kept ==
  /\ human \subseteq human'
  /\ \A i \in Items : Covered(i) => Covered(i)'
  /\ \A m \in inflight' : m[2].shape # "none"

(* A process that does not move stays backed.                              *)
LEMMA OthersBacked ==
  ASSUME TypeInv, NEW q \in Procs, Backed(q), proc'[q] = proc[q], Kept
  PROVE  Backed(q)'
<1>1. Holding(q)' <=> Holding(q)  BY DEF Holding
<1>2. proc[q].pc \in {"cms", "mark"} => proc[q].item \in Items
  BY DEF TypeInv, ProcOK, InHand, Holding
<1>3. QED  BY <1>1, <1>2 DEF Backed, Kept

(* A step of one process keeps ManifestInv if that process stays backed    *)
(* and a row is deployed or approved only with what it takes.              *)
LEMMA BackedByStep ==
  ASSUME TypeInv, ManifestInv, NEW p \in Procs, Kept,
         \A q \in Procs : q # p => proc'[q] = proc[q],
         Backed(p)',
         \A i \in Items :
           /\ row'[i].status = "deployed" =>
                row[i].status = "deployed" \/ i \in human' \/ Covered(i)'
           /\ row'[i].status = "approved" => row[i].status = "approved" \/ i \in human'
  PROVE  ManifestInv'
<1>1. \A q \in Procs : q # p => Backed(q)'  BY OthersBacked DEF ManifestInv
<1>2. ApprovedByHuman'  BY DEF ManifestInv, ApprovedByHuman, Kept
<1>3. DeployedHasManifest'
  BY DEF ManifestInv, DeployedHasManifest, Kept, Covered, HasManifest
<1>4. QED  BY <1>1, <1>2, <1>3 DEF ManifestInv, Kept

(* Moving on with the item in hand, but not to the CMS, and neither to the *)
(* mark `approved' nor `deployed', asks for nothing new.                   *)
LEMMA BackedByGoto ==
  ASSUME TypeInv, ManifestInv, NEW p \in Procs, Kept, Holding(p), UNCHANGED row,
         \/ \E pc \in Pcs \ {"mark", "cms"} : Goto(p, pc)
         \/ \E s \in Marks : /\ GotoMark(p, s)
                             /\ s \in {"approved", "deployed"} => proc[p].item \in human'
         \/ proc' = [proc EXCEPT ![p] = Idle]
  PROVE  ManifestInv'
<1>0. ProcOK /\ Backed(p)  BY DEF TypeInv, ManifestInv
<1>1. CASE \E pc \in Pcs \ {"mark", "cms"} : Goto(p, pc)
  <2>1. /\ \A q \in Procs : q # p => proc'[q] = proc[q]
        /\ proc'[p].pc \notin {"mark", "cms"}
        /\ proc'[p].cmd = proc[p].cmd
        /\ proc'[p].todo = proc[p].todo /\ proc'[p].item = proc[p].item
    BY <1>0, <1>1, GotoFacts
  <2>2. Backed(p)'  BY <1>0, <2>1 DEF Backed, Kept
  <2>3. QED  BY <2>1, <2>2, BackedByStep
<1>2. CASE \E s \in Marks : /\ GotoMark(p, s)
                            /\ s \in {"approved", "deployed"} => proc[p].item \in human'
  <2>1. /\ \A q \in Procs : q # p => proc'[q] = proc[q]
        /\ proc'[p].pc = "mark"
        /\ proc'[p].mark \in {"approved", "deployed"} => proc[p].item \in human'
        /\ proc'[p].cmd = proc[p].cmd
        /\ proc'[p].todo = proc[p].todo /\ proc'[p].item = proc[p].item
    BY <1>0, <1>2, GotoMarkFacts
  <2>2. Backed(p)'  BY <1>0, <2>1 DEF Backed, Kept
  <2>3. QED  BY <2>1, <2>2, BackedByStep
<1>3. CASE proc' = [proc EXCEPT ![p] = Idle]
  <2>1. proc'[p] = Idle /\ \A q \in Procs : q # p => proc'[q] = proc[q]
    BY <1>0, <1>3, IdleStepFacts
  <2>2. Backed(p)'  BY <2>1 DEF Backed, Holding, Idle
  <2>3. QED  BY <2>1, <2>2, BackedByStep
<1>4. QED  BY <1>1, <1>2, <1>3

(* Nothing is deployed, sent or under way at first.                        *)
LEMMA InitManifest == Init => ManifestInv
<1>1. SUFFICES ASSUME Init PROVE ManifestInv  OBVIOUS
<1>2. \A i \in Items : row[i].status = "queued"  BY <1>1 DEF Init
<1>3. ASSUME NEW p \in Procs PROVE Backed(p)
  <2>1. proc[p] = Idle  BY <1>1 DEF Init
  <2>2. QED  BY <2>1 DEF Backed, Holding, Idle
<1>4. QED
  BY <1>1, <1>2, <1>3
  DEF ManifestInv, ApprovedByHuman, DeployedHasManifest, Init

(* Every step keeps the manifests behind what is deployed.                 *)
LEMMA StepManifest == TypeInv /\ ManifestInv /\ [Next]_vars => ManifestInv'
<1> SUFFICES ASSUME TypeInv, ManifestInv, [Next]_vars PROVE ManifestInv'  OBVIOUS
<1> USE DEF site, counters, history
<1>0. ProcOK /\ \A p \in Procs : Backed(p)  BY DEF TypeInv, ManifestInv
<1>b. UNCHANGED <<manifest, inflight, unstored>> /\ human \subseteq human' => Kept
  BY DEF Kept, Covered, HasManifest, ManifestInv
<1>1. ASSUME NEW p \in Procs, NEW cmd \in Commands, Start(p, cmd)
      PROVE  ManifestInv'
  <2>1. PICK b \in Batches(cmd) \ {{}} : proc' = [proc EXCEPT ![p] = Loaded(cmd, b)]
    BY <1>1 DEF Start
  <2>2. proc'[p] = Loaded(cmd, b) /\ \A q \in Procs : q # p => proc'[q] = proc[q]
    BY <1>0, <2>1, IdleStepFacts
  <2>3. cmd = "apply" => b \subseteq human
    BY <2>1 DEF Batches, Loads, ManifestInv, ApprovedByHuman
  <2>4. Backed(p)'  BY <1>1, <2>2, <2>3 DEF Start, Backed, Holding, Loaded
  <2>5. QED  BY <1>1, <1>b, <2>2, <2>4, BackedByStep DEF Start
<1>2. ASSUME NEW p \in Procs, Work(p) PROVE ManifestInv'
  <2>1. CASE Pick(p)
    <3>1. PICK i \in proc[p].todo :
            LET manual == proc[p].cmd = "optimize" /\ proc[p].copy[i].manual IN
            /\ \A q \in Procs : q # p => proc'[q] = proc[q]
            /\ proc'[p].cmd = proc[p].cmd
            /\ proc'[p].todo = proc[p].todo \ {i} /\ proc'[p].item = i
            /\ proc'[p].pc = IF manual THEN "mark" ELSE FirstPc(proc[p].cmd)
            /\ manual => proc'[p].mark = "pending_approval"
            /\ human' = IF proc[p].cmd = "promote" THEN human \cup {i} ELSE human
      BY <1>0, <2>1, PickFacts
    <3>2. proc[p].cmd \in Commands  BY <1>0 DEF ProcOK, ProcType
    <3>3. /\ proc'[p].pc = "cms" => proc[p].cmd = "apply"
          /\ proc'[p].pc = "mark" => proc'[p].mark = "pending_approval"
      BY <3>1, <3>2 DEF FirstPc, Commands
    <3>4. Backed(p)'  BY <1>0, <3>1, <3>3 DEF Backed
    <3>5. Kept /\ UNCHANGED row  BY <1>b, <2>1, <3>1 DEF Pick
    <3>6. QED  BY <3>1, <3>4, <3>5, BackedByStep
  <2>2. CASE Finish(p)
    <3>1. proc'[p] = Idle /\ \A q \in Procs : q # p => proc'[q] = proc[q]
      BY <1>0, <2>2, IdleStepFacts DEF Finish
    <3>2. Backed(p)'  BY <3>1 DEF Backed, Holding, Idle
    <3>3. QED  BY <1>b, <2>2, <3>1, <3>2, BackedByStep DEF Finish
  <2>3. CASE Validate(p)
    <3>1. Holding(p) /\ Kept /\ UNCHANGED <<row, human, manifest>>
      BY <1>b, <2>3 DEF Validate, Holding
    <3>2. CASE proc[p].cmd = "promote" /\ Goto(p, "cms")
      <4>1. /\ \A q \in Procs : q # p => proc'[q] = proc[q]
            /\ proc'[p].pc = "cms" /\ proc'[p].cmd = proc[p].cmd
            /\ proc'[p].todo = proc[p].todo /\ proc'[p].item = proc[p].item
        BY <1>0, <3>2, GotoFacts
      <4>2. Backed(p)'  BY <1>0, <3>1, <3>2, <4>1 DEF Backed
      <4>3. QED  BY <3>1, <4>1, <4>2, BackedByStep
    <3>3. CASE ~(proc[p].cmd = "promote" /\ Goto(p, "cms"))
      BY <2>3, <3>1, <3>3, BackedByGoto DEF Validate, Pcs, Marks, Statuses
    <3>4. QED  BY <3>2, <3>3
  <2>4. CASE Generate(p)
    <3>1. PICK a \in AiResults :
            /\ \A q \in Procs : q # p => proc'[q] = proc[q]
            /\ proc'[p].pc = "engine" /\ proc'[p].cmd = proc[p].cmd
            /\ proc'[p].todo = proc[p].todo /\ proc'[p].item = proc[p].item
            /\ \/ row' = [row EXCEPT ![proc[p].item] = WithAi(@, a)]
               \/ row' = row
      BY <2>4, GenerateFacts
    <3>2. \A i \in Items : row'[i].status = row[i].status
      BY <3>1, WithAiType DEF TypeInv, TableOK
    <3>3. Holding(p) /\ Kept /\ UNCHANGED human
      BY <1>b, <2>4 DEF Generate, Holding
    <3>4. Backed(p)'  BY <1>0, <3>1, <3>3 DEF Backed
    <3>5. QED  BY <3>1, <3>2, <3>3, <3>4, BackedByStep
  <2>5. CASE StoreManifest(p)
    <3>1. proc[p].item \in Items
      BY <1>0, <2>5 DEF StoreManifest, ProcOK, InHand, Holding
    <3>2. /\ \/ /\ manifest' = [manifest EXCEPT ![proc[p].item] =
                                  [shape |-> "engine", before |-> "orig"]]
                /\ UNCHANGED unstored
             \/ /\ unstored' = unstored \cup {proc[p].item}
                /\ UNCHANGED manifest
          /\ UNCHANGED <<row, human, inflight>>
      BY <2>5 DEF StoreManifest
    <3>3. Kept /\ Covered(proc[p].item)'
      <4>1. \/ /\ manifest'[proc[p].item].shape = "engine"
               /\ \A k \in Items : k # proc[p].item => manifest'[k] = manifest[k]
               /\ UNCHANGED unstored
            \/ /\ unstored' = unstored \cup {proc[p].item}
               /\ UNCHANGED manifest
        BY <3>1, <3>2 DEF TypeInv, SiteOK
      <4>2. /\ \A k \in Items : Covered(k) => Covered(k)'
            /\ manifest'[proc[p].item].shape # "none" \/ proc[p].item \in unstored'
        BY <4>1 DEF Covered, HasManifest
      <4>3. Covered(proc[p].item)'
        <5>1. proc'[p].item = proc[p].item
          BY <1>0, <2>5, GotoFacts DEF StoreManifest
        <5>2. QED  BY <4>2, <5>1 DEF Covered, HasManifest
      <4>4. QED  BY <3>2, <4>2, <4>3 DEF Kept, ManifestInv
    <3>4. /\ \A q \in Procs : q # p => proc'[q] = proc[q]
          /\ proc'[p].pc = "cms" /\ proc'[p].cmd = proc[p].cmd
          /\ proc'[p].todo = proc[p].todo /\ proc'[p].item = proc[p].item
      BY <1>0, <2>5, GotoFacts DEF StoreManifest
    <3>5. Holding(p)  BY <2>5 DEF StoreManifest, Holding
    <3>6. Backed(p)'  BY <1>0, <3>2, <3>3, <3>4, <3>5 DEF Backed
    <3>7. QED  BY <3>2, <3>3, <3>4, <3>6, BackedByStep
  <2>6. CASE ApplySucceeds(p)
    <3>1. /\ \A q \in Procs : q # p => proc'[q] = proc[q]
          /\ proc'[p].cmd = proc[p].cmd /\ proc'[p].todo = proc[p].todo
          /\ proc'[p].item = proc[p].item
          /\ proc'[p].pc \in {"mark", "engine"}
          /\ proc'[p].pc = "mark" => proc'[p].mark \in {"pending_approval", "deployed"}
      BY <1>0, <2>6, AfterApplyFacts DEF ApplySucceeds
    <3>2. /\ proc[p].pc = "cms" /\ Holding(p)
          /\ UNCHANGED <<row, human, manifest, unstored>>
          /\ inflight' = inflight \cup Sent(p)
      BY <2>6 DEF ApplySucceeds, Holding
    <3>3. \A m \in Sent(p) : m[2].shape # "none"  BY DEF Sent
    <3>4. Kept  BY <3>2, <3>3 DEF Kept, Covered, HasManifest, ManifestInv
    <3>5. Backed(p)'  BY <1>0, <3>1, <3>2 DEF Backed, Covered, HasManifest
    <3>6. QED  BY <3>1, <3>2, <3>4, <3>5, BackedByStep
  <2>7. CASE ApplyFails(p)
    <3>1. Holding(p) /\ Kept /\ UNCHANGED row /\ GotoMark(p, "failed")
      BY <1>b, <2>7 DEF ApplyFails, Holding
    <3>2. QED  BY <3>1, BackedByGoto DEF Marks, Statuses
  <2>8. CASE Decide(p)
    <3>1. Holding(p) /\ Kept /\ UNCHANGED row
      BY <1>b, <2>8 DEF Decide, Holding
    <3>2. QED  BY <2>8, <3>1, BackedByGoto DEF Decide, Pcs, Marks, Statuses
  <2>9. CASE ReadManifest(p)
    <3>1. Holding(p) /\ Kept /\ UNCHANGED row
      BY <1>b, <2>9 DEF ReadManifest, Holding
    <3>2. \/ \E pc \in {"pick", "revert", "revert_stub"} : Goto(p, pc)
          \/ GotoMark(p, "rollback_failed")
      BY <2>9 DEF ReadManifest
    <3>3. QED  BY <3>1, <3>2, BackedByGoto DEF Pcs, Marks
  <2>10. CASE RevertStub(p)
    BY <1>b, <2>10, BackedByGoto DEF RevertStub, Holding, Marks
  <2>11. CASE Revert(p)
    <3>1. /\ Holding(p) /\ Kept /\ UNCHANGED row
          /\ \E s \in {"rolled_back", "rollback_failed"} : GotoMark(p, s)
      BY <1>b, <2>11 DEF Revert, Holding
    <3>2. QED  BY <3>1, BackedByGoto DEF Marks
  <2>12. CASE Mark(p)
    <3>1. /\ \A q \in Procs : q # p => proc'[q] = proc[q]
          /\ proc'[p].pc = "pick" /\ proc'[p].cmd = proc[p].cmd
          /\ proc'[p].todo = proc[p].todo /\ proc'[p].item = proc[p].item
      BY <1>0, <2>12, GotoFacts DEF Mark
    <3>2. proc[p].item \in Items
      BY <1>0, <2>12 DEF Mark, ProcOK, InHand, Holding
    <3>3. /\ \A k \in Items : k # proc[p].item => row'[k] = row[k]
          /\ row'[proc[p].item].status \in {row[proc[p].item].status, proc[p].mark}
      BY <2>12, <3>2 DEF Mark, TypeInv, TableOK, RowType
    <3>4. proc[p].pc = "mark" /\ Kept /\ UNCHANGED <<human, manifest, unstored>>
      BY <1>b, <2>12 DEF Mark
    <3>5. Backed(p)'  BY <1>0, <3>1, <3>4 DEF Backed, Holding
    <3>6. QED
      BY <1>0, <3>1, <3>3, <3>4, <3>5, BackedByStep DEF Backed, Covered, HasManifest
  <2>13. QED
    BY <1>2, <2>1, <2>2, <2>3, <2>4, <2>5, <2>6, <2>7, <2>8, <2>9, <2>10,
       <2>11, <2>12 DEF Work
<1>3. ASSUME NEW p \in Procs, Crash(p) PROVE ManifestInv'
  <2>1. proc'[p] = Idle /\ \A q \in Procs : q # p => proc'[q] = proc[q]
    BY <1>0, <1>3, IdleStepFacts DEF Crash
  <2>2. Backed(p)'  BY <2>1 DEF Backed, Holding, Idle
  <2>3. QED  BY <1>b, <1>3, <2>1, <2>2, BackedByStep DEF Crash
<1>4. ASSUME Kept, UNCHANGED <<row, proc, human>> PROVE ManifestInv'
  <2>1. \A p \in Procs : Backed(p)'  BY <1>0, <1>4, OthersBacked
  <2>2. QED
    BY <1>4, <2>1
    DEF ManifestInv, ApprovedByHuman, DeployedHasManifest, Kept, Covered, HasManifest
<1>5. CASE LandManifest
  <2>1. PICK m \in inflight :
          /\ inflight' = inflight \ {m}
          /\ \/ manifest' = [manifest EXCEPT ![m[1]] = m[2]]
             \/ UNCHANGED manifest
    BY <1>5 DEF LandManifest
  <2>2. m[2].shape # "none" /\ m[1] \in Items
    BY DEF ManifestInv, TypeInv, SiteOK
  <2>3. Kept
    <3>1. \A i \in Items : HasManifest(i) => HasManifest(i)'
      BY <2>1, <2>2 DEF HasManifest, TypeInv, SiteOK
    <3>2. QED  BY <1>5, <2>1, <3>1 DEF LandManifest, Kept, Covered, ManifestInv
  <2>4. QED  BY <1>4, <1>5, <2>3 DEF LandManifest
<1>6. ASSUME NEW i \in Items, PressButton(i) \/ PostFix(i) PROVE ManifestInv'
  <2>1. /\ UNCHANGED proc /\ Kept
        /\ \A k \in Items : k # i => row'[k] = row[k]
        /\ row'[i].status \in {"deployed", "approved"} => i \in human'
    BY <1>6, <1>b DEF PressButton, PostFix, SetStatus, TypeInv, TableOK, RowType
  <2>2. \A q \in Procs : Backed(q)'  BY <1>0, <2>1, OthersBacked
  <2>3. QED
    BY <2>1, <2>2
    DEF ManifestInv, ApprovedByHuman, DeployedHasManifest, Kept, Covered, HasManifest
<1>7. CASE UNCHANGED vars  BY <1>4, <1>7, <1>b DEF vars
<1>8. QED  BY <1>1, <1>2, <1>3, <1>5, <1>6, <1>7 DEF Next

(* However many commands overlap or die, in whatever order the writes that *)
(* are not awaited land, and whichever statements fail, an item optimize   *)
(* deployed on its own has a manifest for rollback to find, unless the     *)
(* engine's own statement failed to store it.                              *)
THEOREM ManifestIsKept == Spec => []DeployedHasManifest
<1>1. ManifestInv => DeployedHasManifest  BY DEF ManifestInv
<1>2. TypeInv /\ ManifestInv /\ [Next]_vars => ManifestInv'  BY StepManifest
<1>3. QED  BY InitType, StepType, InitManifest, <1>1, <1>2, PTL DEF Spec
-----------------------------------------------------------------------------
(* The refinement of FixLifecycle.  Commands may overlap as long as those  *)
(* of two processes work on different stages: what one loads, the other    *)
(* does not.  The buttons work on pending items, the stage of promote and  *)
(* approve; the fixes route skips a stage and is not used.  The invariant: *)
(* processes are at different stages, the rows a process has not marked    *)
(* yet are at the stage it loaded them from, and what it is about to do is *)
(* what its command does.                                                  *)
StagesApart ==
  /\ "fixes" \notin Dashboard
  /\ Overlap =>
       /\ \A p, q \in Procs : p # q =>
            \A c \in Runs[p], d \in Runs[q] : Loads(c) \cap Loads(d) = {}
       /\ "buttons" \in Dashboard =>
            \A p \in Procs : Runs[p] \cap {"promote", "approve"} = {}

MarksOf(cmd) ==
  CASE cmd = "optimize" -> {"pending_approval", "failed", "deployed"}
    [] cmd \in {"promote", "apply"} -> {"failed", "deployed"}
    [] cmd = "approve"  -> {"approved", "skipped"}
    [] cmd = "verify"   -> {"regression_detected"}
    [] cmd = "rollback" -> {"rolled_back", "rollback_failed"}

Course(p) ==
  LET q == proc[p] IN
  /\ Holding(p) => q.item \notin q.todo
  /\ q.pc = "validate" => q.cmd \in {"optimize", "promote", "verify"}
  /\ q.pc \in {"ai", "engine"} => q.cmd = "optimize"
  /\ q.pc = "cms" => q.cmd \in {"optimize", "promote", "apply"}
  /\ q.pc = "decide" => q.cmd = "approve"
  /\ q.pc \in {"read_manifest", "revert", "revert_stub"} => q.cmd = "rollback"
  /\ q.pc = "mark" => q.mark \in MarksOf(q.cmd)

(* The copies a process works from are still what the table says.          *)
Fresh(p) ==
  proc[p].pc # "idle" => \A i \in Ahead(p) : row[i].status \in Loads(proc[p].cmd)

OnDuty ==
  /\ \A p \in Procs : proc[p].pc # "idle" => proc[p].cmd \in Runs[p]
  /\ \A p, q \in Procs :
       (p # q /\ proc[p].pc # "idle" /\ proc[q].pc # "idle") => Overlap

StageInv == OnDuty /\ \A p \in Procs : Course(p) /\ Fresh(p)

(* What the abstract specification sees.                                   *)
StatusColumn == [i \in Items |-> row[i].status]
StatusBecomes(i, s) == StatusColumn' = [StatusColumn EXCEPT ![i] = s]

(* A write of one status is the same write in the column.                  *)
LEMMA ColumnSet ==
  ASSUME row \in [Items -> RowType], NEW i \in Items, NEW s,
         row' = [row EXCEPT ![i].status = s]
  PROVE  /\ StatusBecomes(i, s)
         /\ row'[i].status = s
         /\ \A k \in Items : k # i => row'[k] = row[k]
  BY DEF RowType, StatusBecomes, StatusColumn

(* Rows that keep their statuses keep the column.                          *)
LEMMA ColumnKept ==
  ASSUME \A i \in Items : row'[i].status = row[i].status
  PROVE  UNCHANGED StatusColumn
  BY DEF StatusColumn

(* Who works at another stage has nothing to do with the items of p.       *)
LEMMA OthersApart ==
  ASSUME StagesApart, StageInv, NEW p \in Procs, NEW q \in Procs, p # q,
         proc[p].pc # "idle", proc[q].pc # "idle"
  PROVE  Ahead(p) \cap Ahead(q) = {}
<1>1. Loads(proc[p].cmd) \cap Loads(proc[q].cmd) = {}
  BY DEF StageInv, OnDuty, StagesApart
<1>2. Fresh(p) /\ Fresh(q)  BY DEF StageInv
<1>3. QED  BY <1>1, <1>2 DEF Fresh

(* A step of one process keeps StageInv if it stays on its course with the *)
(* rows ahead of it fresh, and changes no other row.                       *)
LEMMA StageByStep ==
  ASSUME TypeInv, StagesApart, StageInv, NEW p \in Procs,
         \A q \in Procs : q # p => proc'[q] = proc[q],
         proc[p].pc # "idle", proc'[p].cmd = proc[p].cmd,
         \A i \in Items : i \notin Ahead(p) => row'[i].status = row[i].status,
         Course(p)', Fresh(p)'
  PROVE  StageInv'
<1>1. OnDuty'
  <2>1. OnDuty  BY DEF StageInv
  <2>2. QED  BY <2>1 DEF OnDuty
<1>2. ASSUME NEW q \in Procs, q # p PROVE Course(q)' /\ Fresh(q)'
  <2>1. proc'[q] = proc[q] /\ Course(q) /\ Fresh(q)  BY <1>2 DEF StageInv
  <2>2. Course(q)'  BY <2>1 DEF Course, Holding
  <2>3. Ahead(q)' = Ahead(q)  BY <2>1 DEF Ahead, Holding
  <2>4. Ahead(q) \subseteq Items
    BY DEF TypeInv, ProcOK, ProcType, InHand, Ahead
  <2>5. CASE proc[q].pc = "idle"  BY <2>1, <2>2, <2>5 DEF Fresh
  <2>6. CASE proc[q].pc # "idle"
    <3>1. Ahead(p) \cap Ahead(q) = {}  BY <1>2, <2>6, OthersApart
    <3>2. \A i \in Ahead(q) : row'[i].status = row[i].status  BY <2>4, <3>1
    <3>3. QED  BY <2>1, <2>2, <2>3, <3>2 DEF Fresh
  <2>7. QED  BY <2>5, <2>6
<1>3. QED  BY <1>1, <1>2 DEF StageInv

(* Moving on with the same item in hand, or putting it away.               *)
LEMMA StageByGoto ==
  ASSUME TypeInv, StagesApart, StageInv, NEW p \in Procs, Holding(p),
         \A i \in Items : row'[i].status = row[i].status,
         \/ \E pc \in Pcs :
              /\ Goto(p, pc)
              /\ \/ pc = "pick"
                 \/ proc[p].cmd = "optimize" /\ pc \in {"ai", "engine", "cms"}
                 \/ proc[p].cmd = "promote" /\ pc = "cms"
                 \/ proc[p].cmd = "rollback" /\ pc \in {"revert", "revert_stub"}
         \/ \E s \in MarksOf(proc[p].cmd) : GotoMark(p, s)
  PROVE  StageInv'
<1>0. ProcOK /\ Course(p) /\ Fresh(p)  BY DEF TypeInv, StageInv
<1>1. /\ \A q \in Procs : q # p => proc'[q] = proc[q]
      /\ proc'[p].cmd = proc[p].cmd
      /\ proc'[p].todo = proc[p].todo /\ proc'[p].item = proc[p].item
      /\ \/ proc'[p].pc = "mark" /\ proc'[p].mark \in MarksOf(proc[p].cmd)
         \/ proc'[p].pc = "pick"
         \/ proc[p].cmd = "optimize" /\ proc'[p].pc \in {"ai", "engine", "cms"}
         \/ proc[p].cmd = "promote" /\ proc'[p].pc = "cms"
         \/ proc[p].cmd = "rollback" /\ proc'[p].pc \in {"revert", "revert_stub"}
  BY <1>0, GotoFacts, GotoMarkFacts
<1>2. Course(p)'  BY <1>0, <1>1 DEF Course, Holding
<1>3. Fresh(p)'
  <2>1. Ahead(p)' \subseteq Ahead(p)  BY <1>1 DEF Ahead, Holding
  <2>2. Ahead(p) \subseteq Items
    BY <1>0 DEF Ahead, ProcOK, ProcType, InHand
  <2>3. proc[p].pc # "idle"  BY DEF Holding
  <2>4. QED  BY <1>0, <1>1, <2>1, <2>2, <2>3 DEF Fresh
<1>4. proc[p].pc # "idle"  BY DEF Holding
<1>5. QED  BY <1>1, <1>2, <1>3, <1>4, StageByStep

(* A process that ends, or dies, has nothing ahead of it.                  *)
LEMMA StageByEnd ==
  ASSUME TypeInv, StageInv, NEW p \in Procs, UNCHANGED row,
         proc' = [proc EXCEPT ![p] = Idle]
  PROVE  StageInv'
<1>1. proc'[p] = Idle /\ \A q \in Procs : q # p => proc'[q] = proc[q]
  BY IdleStepFacts DEF TypeInv
<1>2. \A q \in Procs : q # p => Course(q)' /\ Fresh(q)'
  BY <1>1 DEF StageInv, Course, Fresh, Ahead, Holding
<1>3. Course(p)' /\ Fresh(p)'  BY <1>1 DEF Course, Fresh, Holding, Idle
<1>4. OnDuty'
  <2>1. OnDuty  BY DEF StageInv
  <2>2. proc'[p].pc = "idle"  BY <1>1 DEF Idle
  <2>3. QED  BY <1>1, <2>1, <2>2 DEF OnDuty
<1>5. QED  BY <1>2, <1>3, <1>4 DEF StageInv

(* No process is at work at first.                                         *)
LEMMA InitStage == Init => StageInv /\ Lifecycle!Init
<1>1. SUFFICES ASSUME Init PROVE StageInv /\ Lifecycle!Init  OBVIOUS
<1>2. \A i \in Items : row[i].status = "queued"  BY <1>1 DEF Init
<1>3. \A p \in Procs : proc[p] = Idle  BY <1>1 DEF Init
<1>4. StageInv
  BY <1>3, IdleType DEF StageInv, OnDuty, Course, Fresh, Holding
<1>5. Lifecycle!Init  BY <1>1, <1>2 DEF Lifecycle!Init, Init
<1>6. QED  BY <1>4, <1>5

(* A command starts with fresh rows, beside others only if it may.         *)
LEMMA StartStage ==
  ASSUME TypeInv, StageInv, NEW p \in Procs, NEW cmd \in Commands,
         Start(p, cmd)
  PROVE  StageInv'
<1>1. PICK b \in Batches(cmd) \ {{}} : proc' = [proc EXCEPT ![p] = Loaded(cmd, b)]
  BY DEF Start
<1>2. proc'[p] = Loaded(cmd, b) /\ \A q \in Procs : q # p => proc'[q] = proc[q]
  BY <1>1, IdleStepFacts DEF TypeInv
<1>3. proc'[p].cmd = cmd /\ proc'[p].pc = "pick" /\ proc'[p].todo = b
  BY <1>2 DEF Loaded
<1>4. \A i \in b : row[i].status \in Loads(cmd)
  BY <1>1 DEF Batches, Commands
<1>5. UNCHANGED row  BY DEF Start
<1>6. Course(p)'  BY <1>3 DEF Course, Holding
<1>7. Fresh(p)'
  <2>1. Ahead(p)' = b  BY <1>3 DEF Ahead, Holding
  <2>2. QED  BY <1>3, <1>4, <1>5, <2>1 DEF Fresh
<1>8. \A q \in Procs : q # p => Course(q)' /\ Fresh(q)'
  BY <1>2, <1>5 DEF StageInv, Course, Fresh, Ahead, Holding
<1>9. OnDuty'
  <2>1. OnDuty  BY DEF StageInv
  <2>2. cmd \in Runs[p] /\ (Overlap \/ \A q \in Procs : proc[q].pc = "idle")
    BY DEF Start, Quiet
  <2>3. QED  BY <1>2, <1>3, <2>1, <2>2 DEF OnDuty
<1>10. QED  BY <1>6, <1>7, <1>8, <1>9 DEF StageInv

(* Taking an item puts the process on the course of its command.           *)
LEMMA PickStage ==
  ASSUME TypeInv, StagesApart, StageInv, NEW p \in Procs, Pick(p)
  PROVE  StageInv'
<1>0. ProcOK /\ Course(p) /\ Fresh(p)  BY DEF TypeInv, StageInv
<1>1. PICK i \in proc[p].todo :
        LET manual == proc[p].cmd = "optimize" /\ proc[p].copy[i].manual IN
        /\ \A q \in Procs : q # p => proc'[q] = proc[q]
        /\ proc'[p].cmd = proc[p].cmd
        /\ proc'[p].todo = proc[p].todo \ {i} /\ proc'[p].item = i
        /\ proc'[p].pc = IF manual THEN "mark" ELSE FirstPc(proc[p].cmd)
        /\ manual => proc'[p].mark = "pending_approval"
  BY <1>0, PickFacts
<1>2. proc[p].cmd \in Commands  BY <1>0 DEF ProcOK, ProcType
<1>3. proc[p].pc = "pick" /\ UNCHANGED row  BY DEF Pick
<1>4. Course(p)'
  <2>1. CASE proc[p].cmd = "optimize" /\ proc[p].copy[i].manual
    BY <1>1, <2>1 DEF Course, MarksOf
  <2>2. CASE ~(proc[p].cmd = "optimize" /\ proc[p].copy[i].manual)
    <3>1. proc'[p].pc = FirstPc(proc[p].cmd)  BY <1>1, <2>2
    <3>2. QED  BY <1>1, <1>2, <3>1 DEF Course, FirstPc, Commands
  <2>3. QED  BY <2>1, <2>2
<1>5. Fresh(p)'
  <2>1. Ahead(p)' \subseteq Ahead(p)  BY <1>1 DEF Ahead
  <2>2. QED  BY <1>0, <1>1, <1>3, <2>1 DEF Fresh
<1>6. QED  BY <1>1, <1>3, <1>4, <1>5, StageByStep

(* A mark writes what the lifecycle allows for the row it was loaded with, *)
(* is refused, or is lost.                                                 *)
LEMMA MarkStage ==
  ASSUME TypeInv, StagesApart, StageInv, NEW p \in Procs, Mark(p)
  PROVE  StageInv' /\ [Lifecycle!Next]_(Lifecycle!vars)
<1> DEFINE i == proc[p].item
<1>0. ProcOK /\ Course(p) /\ Fresh(p) /\ TableOK  BY DEF TypeInv, StageInv
<1>1. /\ \A q \in Procs : q # p => proc'[q] = proc[q]
      /\ proc'[p].pc = "pick" /\ proc'[p].cmd = proc[p].cmd
      /\ proc'[p].todo = proc[p].todo
  BY <1>0, GotoFacts DEF Mark
<1>2. proc[p].pc = "mark" /\ Holding(p) /\ UNCHANGED live
  BY DEF Mark, site, Holding
<1>3. i \in Items /\ i \notin proc[p].todo /\ proc[p].todo \subseteq Items
  BY <1>0, <1>2 DEF ProcOK, ProcType, InHand, Course
<1>4. proc[p].cmd \in Commands /\ proc[p].mark \in MarksOf(proc[p].cmd)
  BY <1>0, <1>2 DEF ProcOK, ProcType, Course
<1>5. row[i].status \in Loads(proc[p].cmd)
  BY <1>0, <1>2 DEF Fresh, Ahead
<1>6. \/ proc[p].mark \in Statuses /\ row' = [row EXCEPT ![i].status = proc[p].mark]
      \/ UNCHANGED row
  BY DEF Mark
<1>7. \A k \in proc[p].todo : row'[k] = row[k]
  BY <1>0, <1>3, <1>6 DEF TableOK, RowType
<1>8. StageInv'
  <2>1. Course(p)'  BY <1>1 DEF Course, Holding
  <2>2. Fresh(p)'
    <3>1. Ahead(p)' = proc[p].todo  BY <1>1 DEF Ahead, Holding
    <3>2. proc[p].todo \subseteq Ahead(p)  BY DEF Ahead
    <3>3. QED  BY <1>0, <1>1, <1>2, <1>7, <3>1, <3>2 DEF Fresh
  <2>3. \A k \in Items : k \notin Ahead(p) => row'[k].status = row[k].status
    BY <1>0, <1>2, <1>3, <1>6 DEF Ahead, TableOK
  <2>4. QED  BY <1>1, <1>2, <2>1, <2>2, <2>3, StageByStep
<1>9. [Lifecycle!Next]_(Lifecycle!vars)
  <2>1. CASE UNCHANGED row
    BY <1>2, <2>1 DEF Lifecycle!vars
  <2>2. CASE /\ proc[p].mark \in Statuses
             /\ row' = [row EXCEPT ![i].status = proc[p].mark]
    <3>1. StatusBecomes(i, proc[p].mark)  BY <1>0, <1>3, <2>2, ColumnSet DEF TableOK
    <3>2. StatusColumn[i] = row[i].status  BY <1>3 DEF StatusColumn
    <3>3. PICK k \in Items : k = i  BY <1>3
    <3>4. \/ Lifecycle!Hold(k) \/ Lifecycle!Approve(k) \/ Lifecycle!Skip(k)
          \/ Lifecycle!Fail(k) \/ Lifecycle!Deploy(k) \/ Lifecycle!Regress(k)
      <4> DEFINE s == proc[p].mark
                 old == row[i].status
      <4>1. \/ s = "pending_approval" /\ old = "queued"
            \/ s = "approved" /\ old = "pending_approval"
            \/ s = "skipped" /\ old = "pending_approval"
            \/ s = "failed" /\ old \in {"queued", "pending_approval", "approved"}
            \/ s = "deployed" /\ old \in {"queued", "pending_approval", "approved"}
            \/ s = "regression_detected" /\ old = "deployed"
        BY <1>4, <1>5, <2>2 DEF Commands, MarksOf, Loads, Statuses
      <4> HIDE DEF s, old
      <4>2. StatusBecomes(k, s) /\ StatusColumn[k] = old
        BY <3>1, <3>2, <3>3 DEF s, old, StatusBecomes
      <4>3. QED
        BY <1>2, <4>1, <4>2
        DEF Lifecycle!Hold, Lifecycle!Approve, Lifecycle!Skip, Lifecycle!Fail,
            Lifecycle!Deploy, Lifecycle!Regress, Lifecycle!Move, Lifecycle!Open,
            StatusBecomes, StatusColumn
    <3>5. Lifecycle!Next  BY <3>4, Zenon DEF Lifecycle!Next
    <3>6. QED  BY <3>5
  <2>3. QED  BY <1>6, <2>1, <2>2
<1>10. QED  BY <1>8, <1>9

(* A write of the site, done, lost or only half answered, is for an item   *)
(* that is still open.                                                     *)
LEMMA PutStage ==
  ASSUME TypeInv, StagesApart, StageInv, NEW p \in Procs, proc[p].pc = "cms", UNCHANGED row,
         WriteSite(proc[p].item) \/ UNCHANGED live
  PROVE  [Lifecycle!Next]_(Lifecycle!vars)
<1> DEFINE i == proc[p].item
<1>0. Course(p) /\ Fresh(p) /\ Holding(p)  BY DEF StageInv, Holding
<1>1. i \in Items  BY <1>0 DEF TypeInv, ProcOK, InHand
<1>2. row[i].status \in {"queued", "pending_approval", "approved"}
  BY <1>0 DEF Course, Fresh, Ahead, Loads
<1>3. UNCHANGED StatusColumn /\ StatusColumn[i] = row[i].status
  BY <1>1 DEF StatusColumn
<1>4. CASE UNCHANGED live  BY <1>3, <1>4 DEF Lifecycle!vars, StatusColumn
<1>5. CASE live' = [live EXCEPT ![i] = "fix"]
  <2>1. Lifecycle!Put(i)
    BY <1>2, <1>3, <1>5 DEF Lifecycle!Put, Lifecycle!Open, StatusColumn
  <2>2. QED  BY <1>1, <2>1 DEF Lifecycle!Next
<1>6. QED  BY <1>4, <1>5 DEF WriteSite

(* Every step keeps StageInv and is a step of the lifecycle or a stutter. *)
LEMMA StepLifecycle ==
  ASSUME StagesApart
  PROVE  TypeInv /\ StageInv /\ [Next]_vars
           => StageInv' /\ [Lifecycle!Next]_(Lifecycle!vars)
<1> SUFFICES ASSUME TypeInv, StageInv, [Next]_vars
             PROVE  StageInv' /\ [Lifecycle!Next]_(Lifecycle!vars)
  OBVIOUS
<1> USE DEF site, counters, history
<1>0. ProcOK /\ TableOK /\ \A p \in Procs : Course(p) /\ Fresh(p)
  BY DEF TypeInv, StageInv
<1>s. (\A i \in Items : row'[i].status = row[i].status) /\ UNCHANGED live
        => [Lifecycle!Next]_(Lifecycle!vars)
  BY DEF Lifecycle!vars
<1>1. ASSUME NEW p \in Procs, NEW cmd \in Commands, Start(p, cmd)
      PROVE  StageInv' /\ [Lifecycle!Next]_(Lifecycle!vars)
  BY <1>1, <1>s, StartStage DEF Start
<1>2. ASSUME NEW p \in Procs, Work(p)
      PROVE  StageInv' /\ [Lifecycle!Next]_(Lifecycle!vars)
  <2>1. CASE Pick(p)
    <3>1. UNCHANGED <<row, live>>  BY <2>1, Zenon DEF Pick
    <3>2. QED  BY <1>s, <2>1, <3>1, PickStage
  <2>2. CASE Finish(p)  BY <1>s, <2>2, StageByEnd DEF Finish
  <2>3. CASE Validate(p)
    <3>1. Holding(p) /\ UNCHANGED <<row, live>>  BY <2>3 DEF Validate, Holding
    <3>2. proc[p].cmd \in {"optimize", "promote", "verify"}
      BY <1>0, <2>3 DEF Validate, Course
    <3>3. (IF proc[p].cmd = "verify" THEN "regression_detected" ELSE "failed")
             \in MarksOf(proc[p].cmd)
      BY <3>2 DEF MarksOf
    <3>4. StageInv'
      BY <2>3, <3>1, <3>3, StageByGoto DEF Validate, Pcs
    <3>5. QED  BY <1>s, <3>1, <3>4
  <2>4. CASE Generate(p)
    <3>1. PICK a \in AiResults :
            /\ \A q \in Procs : q # p => proc'[q] = proc[q]
            /\ proc'[p].pc = "engine" /\ proc'[p].cmd = proc[p].cmd
            /\ proc'[p].todo = proc[p].todo /\ proc'[p].item = proc[p].item
            /\ \/ row' = [row EXCEPT ![proc[p].item] = WithAi(@, a)]
               \/ row' = row
      BY <2>4, GenerateFacts
    <3>2. \A i \in Items : row'[i].status = row[i].status
      BY <1>0, <3>1, WithAiType DEF TableOK
    <3>3. proc[p].pc = "ai" /\ UNCHANGED live  BY <2>4 DEF Generate
    <3>4. Course(p)'  BY <1>0, <3>1, <3>3 DEF Course, Holding
    <3>5. Fresh(p)'
      <4>1. Ahead(p)' = Ahead(p)  BY <3>1, <3>3 DEF Ahead, Holding
      <4>2. Ahead(p) \subseteq Items  BY <1>0 DEF Ahead, ProcOK, ProcType, InHand
      <4>3. QED  BY <1>0, <3>1, <3>2, <3>3, <4>1, <4>2 DEF Fresh
    <3>6. StageInv'  BY <3>1, <3>2, <3>3, <3>4, <3>5, StageByStep
    <3>7. QED  BY <1>s, <3>2, <3>3, <3>6
  <2>5. CASE StoreManifest(p)
    <3>1. /\ Holding(p) /\ UNCHANGED <<row, live>> /\ Goto(p, "cms")
          /\ proc[p].cmd = "optimize"
      BY <1>0, <2>5 DEF StoreManifest, Holding, Course
    <3>2. StageInv'  BY <3>1, StageByGoto DEF Pcs
    <3>3. QED  BY <1>s, <3>1, <3>2
  <2>6. CASE ApplySucceeds(p)
    <3>1. /\ \A q \in Procs : q # p => proc'[q] = proc[q]
          /\ proc'[p].cmd = proc[p].cmd /\ proc'[p].todo = proc[p].todo
          /\ proc'[p].item = proc[p].item
          /\ \/ /\ proc[p].cmd = "optimize" /\ proc'[p].pc = "mark"
                /\ proc'[p].mark = "pending_approval"
             \/ proc[p].cmd = "optimize" /\ proc'[p].pc = "engine"
             \/ proc'[p].pc = "mark" /\ proc'[p].mark = "deployed"
      BY <1>0, <2>6, AfterApplyFacts DEF ApplySucceeds
    <3>2. proc[p].pc = "cms" /\ UNCHANGED row  BY <2>6 DEF ApplySucceeds
    <3>3. proc[p].cmd \in {"optimize", "promote", "apply"}
      BY <1>0, <3>2 DEF Course
    <3>4. Course(p)'  BY <1>0, <3>1, <3>2, <3>3 DEF Course, Holding, MarksOf
    <3>5. Fresh(p)'
      <4>1. Ahead(p)' = Ahead(p)  BY <3>1, <3>2 DEF Ahead, Holding
      <4>2. QED  BY <1>0, <3>1, <3>2, <4>1 DEF Fresh
    <3>7. StageInv'  BY <3>1, <3>2, <3>4, <3>5, StageByStep
    <3>8. WriteSite(proc[p].item)  BY <2>6 DEF ApplySucceeds
    <3>9. QED  BY <3>2, <3>7, <3>8, PutStage
  <2>7. CASE ApplyFails(p)
    <3>1. /\ proc[p].pc = "cms" /\ Holding(p) /\ UNCHANGED row
          /\ WriteSite(proc[p].item) \/ UNCHANGED live
          /\ GotoMark(p, "failed")
      BY <2>7 DEF ApplyFails, Holding
    <3>2. "failed" \in MarksOf(proc[p].cmd)  BY <1>0, <3>1 DEF Course, MarksOf
    <3>3. StageInv'  BY <3>1, <3>2, StageByGoto
    <3>4. QED  BY <3>1, <3>3, PutStage
  <2>8. CASE Decide(p)
    <3>1. Holding(p) /\ UNCHANGED <<row, live>>  BY <2>8 DEF Decide, Holding
    <3>2. \/ \E s \in MarksOf(proc[p].cmd) : GotoMark(p, s)
          \/ Goto(p, "pick")
      BY <1>0, <2>8 DEF Decide, Course, MarksOf
    <3>3. StageInv'  BY <3>1, <3>2, StageByGoto DEF Pcs
    <3>4. QED  BY <1>s, <3>1, <3>3
  <2>9. CASE ReadManifest(p)
    <3>1. /\ Holding(p) /\ UNCHANGED <<row, live>> /\ proc[p].cmd = "rollback"
      BY <1>0, <2>9 DEF ReadManifest, Holding, Course
    <3>2. \/ GotoMark(p, "rollback_failed")
          \/ \E pc \in {"pick", "revert", "revert_stub"} : Goto(p, pc)
      BY <2>9 DEF ReadManifest
    <3>3. StageInv'  BY <3>1, <3>2, StageByGoto DEF MarksOf, Pcs
    <3>4. QED  BY <1>s, <3>1, <3>3
  <2>10. CASE RevertStub(p)
    <3>1. /\ Holding(p) /\ UNCHANGED <<row, live>> /\ proc[p].cmd = "rollback"
          /\ GotoMark(p, "rolled_back")
      BY <1>0, <2>10 DEF RevertStub, Holding, Course
    <3>2. StageInv'  BY <3>1, StageByGoto DEF MarksOf
    <3>3. QED  BY <1>s, <3>1, <3>2
  <2>11. CASE Revert(p)
    <3>1. /\ Holding(p) /\ UNCHANGED row /\ proc[p].cmd = "rollback"
          /\ \E s \in {"rolled_back", "rollback_failed"} : GotoMark(p, s)
          /\ live' = [live EXCEPT ![proc[p].item] = "orig"] \/ UNCHANGED live
      BY <1>0, <2>11 DEF Revert, Holding, Course
    <3>2. StageInv'  BY <3>1, StageByGoto DEF MarksOf
    <3>3. CASE UNCHANGED live  BY <1>s, <3>1, <3>2, <3>3
    <3>4. CASE live' = [live EXCEPT ![proc[p].item] = "orig"]
      <4>1. proc[p].item \in Items  BY <1>0, <3>1 DEF ProcOK, InHand
      <4>2. row[proc[p].item].status \in {"deployed", "regression_detected"}
        BY <1>0, <3>1 DEF Fresh, Ahead, Loads, Holding
      <4>3. Lifecycle!Restore(proc[p].item)
        BY <3>1, <3>4, <4>1, <4>2 DEF Lifecycle!Restore
      <4>4. QED  BY <3>2, <4>1, <4>3 DEF Lifecycle!Next
    <3>5. QED  BY <3>1, <3>3, <3>4
  <2>12. CASE Mark(p)  BY <2>12, MarkStage
  <2>13. QED
    BY <1>2, <2>1, <2>2, <2>3, <2>4, <2>5, <2>6, <2>7, <2>8, <2>9, <2>10,
       <2>11, <2>12 DEF Work
<1>3. ASSUME NEW p \in Procs, Crash(p)
      PROVE  StageInv' /\ [Lifecycle!Next]_(Lifecycle!vars)
  BY <1>3, <1>s, StageByEnd DEF Crash
<1>4. ASSUME UNCHANGED <<row, proc, live>>
      PROVE  StageInv' /\ [Lifecycle!Next]_(Lifecycle!vars)
  <2>1. StageInv'
    BY <1>4 DEF StageInv, OnDuty, Course, Fresh, Ahead, Holding
  <2>2. QED  BY <1>4, <1>s, <2>1
<1>5. ASSUME NEW i \in Items, PressButton(i) \/ PostFix(i)
      PROVE  StageInv' /\ [Lifecycle!Next]_(Lifecycle!vars)
  <2>1. PressButton(i)  BY <1>5 DEF PostFix, StagesApart
  <2>2. StageInv'
    <3>1. UNCHANGED proc /\ OnDuty  BY <2>1 DEF PressButton, StageInv
    <3>2. \A k \in Items : k # i => row'[k] = row[k]
      BY <1>0, <2>1 DEF PressButton, SetStatus, TableOK
    <3>3. ASSUME NEW q \in Procs, proc[q].pc # "idle" PROVE i \notin Ahead(q)
      <4>1. proc[q].cmd \in Runs[q] /\ Overlap /\ "buttons" \in Dashboard
        BY <2>1, <3>1, <3>3 DEF PressButton, Quiet, OnDuty
      <4>2. proc[q].cmd \in Commands \ {"promote", "approve"}
        BY <1>0, <4>1 DEF StagesApart, ProcOK, ProcType
      <4>3. "pending_approval" \notin Loads(proc[q].cmd)
        BY <4>2 DEF Loads, Commands
      <4>4. QED  BY <1>0, <2>1, <3>3, <4>3 DEF Fresh, PressButton
    <3>4. \A q \in Procs : Ahead(q) \subseteq Items
      BY <1>0 DEF ProcOK, ProcType, InHand, Ahead
    <3>5. \A q \in Procs : Course(q)' /\ Fresh(q)'
      BY <1>0, <3>1, <3>2, <3>3, <3>4 DEF Course, Fresh, Ahead, Holding
    <3>6. OnDuty'  BY <3>1 DEF OnDuty
    <3>7. QED  BY <3>5, <3>6 DEF StageInv
  <2>3. PICK s \in {"deployed", "failed"} : row' = [row EXCEPT ![i].status = s]
    BY <2>1 DEF PressButton, SetStatus
  <2>4. StatusBecomes(i, s)  BY <1>0, <2>3, ColumnSet DEF TableOK
  <2>5. StatusColumn[i] = "pending_approval" /\ UNCHANGED live
    BY <2>1 DEF PressButton, StatusColumn
  <2>6. Lifecycle!Fail(i) \/ Lifecycle!Deploy(i)
    BY <2>4, <2>5
    DEF Lifecycle!Fail, Lifecycle!Deploy, Lifecycle!Move, Lifecycle!Open,
        StatusBecomes, StatusColumn
  <2>7. QED  BY <2>2, <2>6 DEF Lifecycle!Next
<1>6. QED
  BY <1>1, <1>2, <1>3, <1>4, <1>5 DEF Next, LandManifest, vars

(* While commands that overlap work on different stages, and without the   *)
(* fixes route, a fix only moves along its lifecycle and its page is       *)
(* written and restored only where the lifecycle allows it: whichever      *)
(* marks are lost, wherever a command dies and whenever the late manifests *)
(* land.                                                                   *)
THEOREM Implements == ASSUME StagesApart PROVE Spec => ImplementsLifecycle
<1>1. TypeInv /\ StageInv /\ [Next]_vars
        => StageInv' /\ [Lifecycle!Next]_(Lifecycle!vars)
  BY StepLifecycle
<1>2. QED
  BY InitType, StepType, InitStage, <1>1, PTL
  DEF Spec, ImplementsLifecycle, Lifecycle!Spec
=============================================================================
