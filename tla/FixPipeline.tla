---------------------------- MODULE FixPipeline ----------------------------
(***************************************************************************)
(* The life of the fixes in `action_queue': the commands optimize, promote,*)
(* approve, verify and rollback (packages/commands), the dashboard's apply *)
(* route and fixes route, the patch engine and the CMS adapter they drive. *)
(*                                                                         *)
(* A command loads its rows once and works through the copies one at a     *)
(* time; every awaited call is one step.  Rows are written back by id,     *)
(* whatever their status is by then, and a failed write is swallowed.      *)
(* Two kinds of writes are not awaited at all: the before-state persisted  *)
(* by the adapter and the rollback manifest of optimize; they wait in      *)
(* `inflight' and land, or are lost, at any later moment.                  *)
(***************************************************************************)
EXTENDS Integers, FiniteSets

CONSTANTS
  Items,      \* action_queue rows of one run of one site
  NoItem,     \* no item in hand
  Rank,       \* [Items -> Nat]: order by priority, then risk_score
  Risky,      \* items with risk_score > auto_approve_max_risk
  NeedsAi,    \* items of the AI_ISSUE_TYPES
  Wired,      \* items whose fix type the adapter really writes (no stub)
  Procs,      \* processes that run commands
  Runs,       \* [Procs -> SUBSET Commands]
  Overlap,    \* whether commands and the dashboard may act at the same time
  Dashboard,  \* which dashboard controls are used, a subset of Controls
  MaxStarts,  \* bound: commands started
  MaxCrashes, \* bound: commands killed midway
  MaxDbErrors \* bound: statements that fail

Commands == {"optimize", "promote", "approve", "verify", "rollback", "apply"}
Controls == {"buttons", "fixes"}

ASSUME PipelineAssumption ==
  /\ NoItem \notin Items
  /\ Rank \in [Items -> Nat]
  /\ Risky \subseteq Items /\ NeedsAi \subseteq Items /\ Wired \subseteq Items
  /\ Runs \in [Procs -> SUBSET Commands]
  /\ Overlap \in BOOLEAN
  /\ Dashboard \subseteq Controls
  /\ {MaxStarts, MaxCrashes, MaxDbErrors} \subseteq Nat

VARIABLES
  row,      \* the action_queue table
  manifest, \* its rollback_manifest column
  live,     \* what the site shows for the item: "orig" or "fix"
  inflight, \* manifest writes sent and not awaited
  proc,     \* control state of each process, with the rows optimize holds
  starts, crashes, dbErrors, \* how much of each bound is used
  written,  \* history: items whose fix was written to the site
  human,    \* history: items a person decided to let through
  undone,   \* history: items the rollback command counted as rolled back
  unstored  \* history: items whose manifest the engine failed to store

vars == <<row, manifest, live, inflight, proc, starts, crashes, dbErrors,
          written, human, undone, unstored>>
site == <<manifest, live, inflight>>
counters == <<starts, crashes, dbErrors>>
history == <<written, human, undone, unstored>>

(* The CHECK constraint of the column, without the two unused values.      *)
Statuses == {"queued", "pending_approval", "approved", "skipped", "failed",
             "deployed", "regression_detected"}
Marks == Statuses \cup {"rolled_back", "rollback_failed"}

RowType == [status : Statuses, approval : BOOLEAN, manual : BOOLEAN,
            generated : BOOLEAN]
ManifestType == [shape : {"none", "engine", "adapter", "resources"},
                 before : {"orig", "fix"}]
NoManifest == [shape |-> "none", before |-> "orig"]
Blank == [status |-> "queued", approval |-> FALSE, manual |-> FALSE,
          generated |-> FALSE]

Pcs == {"idle", "pick", "validate", "ai", "engine", "cms", "decide",
        "read_manifest", "revert_stub", "revert", "mark"}
ProcType == [cmd : Commands, pc : Pcs, phase : {"sandbox", "live"},
             todo : SUBSET Items, item : Items \cup {NoItem}, mark : Marks,
             copy : [Items -> RowType]]

Loaded(cmd, batch) ==
  [cmd |-> cmd, pc |-> "pick", phase |-> "sandbox", todo |-> batch,
   item |-> NoItem, mark |-> "queued",
   copy |-> IF cmd = "optimize" THEN row ELSE [i \in Items |-> Blank]]
Idle ==
  [cmd |-> "verify", pc |-> "idle", phase |-> "sandbox", todo |-> {},
   item |-> NoItem, mark |-> "queued", copy |-> [i \in Items |-> Blank]]

TypeOK ==
  /\ row \in [Items -> RowType]
  /\ manifest \in [Items -> ManifestType]
  /\ live \in [Items -> {"orig", "fix"}]
  /\ inflight \subseteq (Items \X ManifestType)
  /\ proc \in [Procs -> ProcType]
  /\ {starts, crashes, dbErrors} \subseteq Nat
  /\ {written, human, undone, unstored} \subseteq SUBSET Items

(* audit writes its rows queued, with approval required for a risk of 4 or *)
(* more, and for the fixes it can only describe (fix_source `manual').     *)
Init ==
  /\ row \in [Items -> [status : {"queued"}, approval : BOOLEAN,
                        manual : BOOLEAN, generated : {FALSE}]]
  /\ \A i \in Items : row[i].manual => row[i].approval
  /\ manifest = [i \in Items |-> NoManifest]
  /\ live = [i \in Items |-> "orig"]
  /\ inflight = {}
  /\ proc = [p \in Procs |-> Idle]
  /\ starts = 0 /\ crashes = 0 /\ dbErrors = 0
  /\ written = {} /\ human = {} /\ undone = {} /\ unstored = {}

-----------------------------------------------------------------------------
DbError == dbErrors < MaxDbErrors /\ dbErrors' = dbErrors + 1

Goto(p, pc) == proc' = [proc EXCEPT ![p].pc = pc]
GotoMark(p, s) == proc' = [proc EXCEPT ![p].pc = "mark", ![p].mark = s]

(* The rows a command loads: optimize, approve and verify all of a status, *)
(* promote and rollback all or one, the apply route those it is given.     *)
Loads_AnyPromoted(cmd) ==
  CASE cmd = "optimize" -> {"queued"}
    [] cmd = "promote"  -> {"pending_approval", "skipped"}
    [] cmd = "approve"  -> {"pending_approval"}
    [] cmd = "verify"   -> {"deployed"}
    [] cmd = "rollback" -> {"deployed", "regression_detected"}
    [] cmd = "apply"    -> {"approved"}
Loads(cmd) ==
  CASE cmd = "optimize" -> {"queued"}
    [] cmd \in {"promote", "approve"} -> {"pending_approval"}
    [] cmd = "verify"   -> {"deployed"}
    [] cmd = "rollback" -> {"deployed", "regression_detected"}
    [] cmd = "apply"    -> {"approved"}

Batches(cmd) ==
  LET all == {i \in Items : row[i].status \in Loads(cmd)} IN
  CASE cmd \in {"optimize", "approve", "verify"} -> {all}
    [] cmd \in {"promote", "rollback"} -> {all} \cup {{i} : i \in all}
    [] cmd = "apply" -> SUBSET all

Quiet == \A p \in Procs : proc[p].pc = "idle"

Start(p, cmd) ==
  /\ cmd \in Runs[p]
  /\ proc[p].pc = "idle"
  /\ Overlap \/ Quiet
  /\ starts < MaxStarts
  /\ starts' = starts + 1
  /\ \E b \in Batches(cmd) \ {{}} : proc' = [proc EXCEPT ![p] = Loaded(cmd, b)]
  /\ UNCHANGED <<row, site, crashes, dbErrors, history>>

(* The process dies between two awaits; what it sent stays sent.           *)
Crash(p) ==
  /\ proc[p].pc # "idle"
  /\ crashes < MaxCrashes
  /\ crashes' = crashes + 1
  /\ proc' = [proc EXCEPT ![p] = Idle]
  /\ UNCHANGED <<row, site, starts, dbErrors, history>>

-----------------------------------------------------------------------------
(* The loop over the loaded items.                                         *)

(* optimize keeps the order of the query; the others take rows as they     *)
(* come.                                                                   *)
Heads(p) ==
  {i \in proc[p].todo : proc[p].cmd = "optimize" =>
                          \A k \in proc[p].todo : Rank[i] <= Rank[k]}

FirstPc(cmd) ==
  CASE cmd \in {"optimize", "promote", "verify"} -> "validate"
    [] cmd = "approve"  -> "decide"
    [] cmd = "rollback" -> "read_manifest"
    [] cmd = "apply"    -> "cms"

Pick(p) ==
  /\ proc[p].pc = "pick"
  /\ \E i \in Heads(p) :
       LET cmd == proc[p].cmd
           manual == cmd = "optimize" /\ proc[p].copy[i].manual
       IN /\ proc' = [proc EXCEPT
               ![p].todo = @ \ {i}, ![p].item = i, ![p].phase = "sandbox",
               ![p].pc = IF manual THEN "mark" ELSE FirstPc(cmd),
               ![p].mark = IF manual THEN "pending_approval" ELSE @]
          /\ human' = IF cmd = "promote" THEN human \cup {i} ELSE human
  /\ UNCHANGED <<row, site, counters, written, undone, unstored>>

Finish(p) ==
  /\ proc[p].pc = "pick"
  /\ proc[p].todo = {}
  /\ proc' = [proc EXCEPT ![p] = Idle]
  /\ UNCHANGED <<row, site, counters, history>>

(* The validator ladder on the live page: a failure, or a validator that   *)
(* throws, fails the item, or is a regression when verify finds it.        *)
Validate_FailureEndsRun(p) ==
  LET cmd == proc[p].cmd IN
  /\ proc[p].pc = "validate"
  /\ \/ /\ cmd = "optimize"
        /\ Goto(p, IF proc[p].item \in NeedsAi /\ ~proc[p].copy[proc[p].item].generated
                   THEN "ai" ELSE "engine")
     \/ cmd = "promote" /\ Goto(p, "cms")
     \/ cmd = "verify" /\ Goto(p, "pick")
     \/ proc' = [proc EXCEPT ![p] = Idle]
  /\ UNCHANGED <<row, site, counters, history>>

Validate(p) ==
  LET cmd == proc[p].cmd IN
  /\ proc[p].pc = "validate"
  /\ \/ /\ cmd = "optimize"
        /\ Goto(p, IF proc[p].item \in NeedsAi /\ ~proc[p].copy[proc[p].item].generated
                   THEN "ai" ELSE "engine")
     \/ cmd = "promote" /\ Goto(p, "cms")
     \/ cmd = "verify" /\ Goto(p, "pick")
     \/ GotoMark(p, IF cmd = "verify" THEN "regression_detected" ELSE "failed")
  /\ UNCHANGED <<row, site, counters, history>>

-----------------------------------------------------------------------------
(* dispatchAdapterFix: generate the text, store a manifest, call the CMS.  *)

(* A good text, one of low confidence, or none: the last two ask for       *)
(* approval.  The copy is updated; the write to the row may fail.          *)
AiResults == {[generated |-> TRUE,  approval |-> FALSE, manual |-> FALSE],
              [generated |-> TRUE,  approval |-> TRUE,  manual |-> FALSE],
              [generated |-> FALSE, approval |-> TRUE,  manual |-> TRUE]}

WithAi(r, a) == [r EXCEPT !.generated = @ \/ a.generated,
                          !.approval = @ \/ a.approval,
                          !.manual = @ \/ a.manual]

Generate(p) ==
  LET i == proc[p].item IN
  /\ proc[p].pc = "ai"
  /\ \E a \in AiResults :
       /\ proc' = [proc EXCEPT ![p].copy[i] = WithAi(@, a), ![p].pc = "engine"]
       /\ \/ row' = [row EXCEPT ![i] = WithAi(@, a)] /\ UNCHANGED dbErrors
          \/ DbError /\ UNCHANGED row
  /\ UNCHANGED <<site, starts, crashes, history>>

(* applyPatch: its own adapter is a stub; the manifest it stores has no    *)
(* affected_resources, and a failure to store it is not fatal.             *)
StoreManifest_NotAwaited(p) ==
  /\ proc[p].pc = "engine"
  /\ inflight' = inflight \cup {<<proc[p].item, [shape |-> "engine", before |-> "orig"]>>}
  /\ Goto(p, "cms")
  /\ UNCHANGED <<row, manifest, live, counters, history>>
StoreManifest(p) ==
  /\ proc[p].pc = "engine"
  /\ \/ /\ manifest' = [manifest EXCEPT ![proc[p].item] =
                          [shape |-> "engine", before |-> "orig"]]
        /\ UNCHANGED <<dbErrors, unstored>>
     \/ /\ DbError
        /\ unstored' = unstored \cup {proc[p].item}
        /\ UNCHANGED manifest
  /\ Goto(p, "cms")
  /\ UNCHANGED <<row, live, inflight, starts, crashes, written, human, undone>>

(* What the adapter persists (the value it found on the site) and, after   *)
(* the first apply of optimize, the manifest with affected_resources.      *)
Sent(p) ==
  LET i == proc[p].item
      found == IF proc[p].cmd = "promote" \/ i \notin Wired THEN {}
               ELSE {[shape |-> "adapter", before |-> live[i]]}
      built == IF proc[p].cmd = "optimize" /\ proc[p].phase = "sandbox"
               THEN {[shape |-> "resources", before |-> "orig"]} ELSE {}
  IN {i} \X (found \cup built)

NeedsApproval_RiskOnly(p) == proc[p].item \in Risky
NeedsApproval(p) ==
  proc[p].copy[proc[p].item].approval \/ proc[p].item \in Risky

AfterApply(p) ==
  IF proc[p].cmd = "optimize" /\ proc[p].phase = "sandbox"
  THEN IF NeedsApproval(p)
       THEN GotoMark(p, "pending_approval")
       ELSE proc' = [proc EXCEPT ![p].pc = "engine", ![p].phase = "live"]
  ELSE GotoMark(p, "deployed")

(* The adapter ignores its `sandbox' flag: either phase writes the site.   *)
WriteSite(i) ==
  IF i \in Wired
  THEN live' = [live EXCEPT ![i] = "fix"] /\ written' = written \cup {i}
  ELSE UNCHANGED <<live, written>>

ApplySucceeds(p) ==
  /\ proc[p].pc = "cms"
  /\ WriteSite(proc[p].item)
  /\ inflight' = inflight \cup Sent(p)
  /\ undone' = undone \ {proc[p].item}
  /\ AfterApply(p)
  /\ UNCHANGED <<row, manifest, counters, human, unstored>>

(* The request is refused, or its answer lost after the site changed.      *)
ApplyFails_Ignored(p) ==
  /\ proc[p].pc = "cms"
  /\ WriteSite(proc[p].item) \/ UNCHANGED <<live, written>>
  /\ undone' = undone \ {proc[p].item}
  /\ AfterApply(p)
  /\ UNCHANGED <<row, manifest, inflight, counters, human, unstored>>
ApplyFails(p) ==
  /\ proc[p].pc = "cms"
  /\ WriteSite(proc[p].item) \/ UNCHANGED <<live, written>>
  /\ undone' = undone \ {proc[p].item}
  /\ GotoMark(p, "failed")
  /\ UNCHANGED <<row, manifest, inflight, counters, human, unstored>>

LandManifest ==
  \E m \in inflight :
    /\ inflight' = inflight \ {m}
    /\ \/ manifest' = [manifest EXCEPT ![m[1]] = m[2]] /\ UNCHANGED dbErrors
       \/ DbError /\ UNCHANGED manifest
    /\ UNCHANGED <<row, live, proc, starts, crashes, history>>

-----------------------------------------------------------------------------
(* approve: the operator's answer, `y', `n' or `skip'.                     *)
Decide(p) ==
  LET i == proc[p].item IN
  /\ proc[p].pc = "decide"
  /\ \/ GotoMark(p, "approved") /\ human' = human \cup {i}
     \/ GotoMark(p, "skipped") /\ UNCHANGED human
     \/ Goto(p, "pick") /\ UNCHANGED human
  /\ UNCHANGED <<row, site, counters, written, undone, unstored>>

(* rollback: without a manifest the item is skipped; without resources in  *)
(* it, or with resources, the revert takes a different path.               *)
ReadManifest(p) ==
  LET shape == manifest[proc[p].item].shape IN
  /\ proc[p].pc = "read_manifest"
  /\ \/ /\ Goto(p, CASE shape = "none" -> "pick"
                     [] shape = "resources" -> "revert"
                     [] OTHER -> "revert_stub")
        /\ UNCHANGED dbErrors
     \/ DbError /\ GotoMark(p, "rollback_failed")
  /\ UNCHANGED <<row, site, starts, crashes, history>>

(* The legacy path calls revertFix with the issue type as fix_type and an  *)
(* empty before_value: the adapter's stub branch, which succeeds.          *)
RevertStub(p) ==
  /\ proc[p].pc = "revert_stub"
  /\ GotoMark(p, "rolled_back")
  /\ undone' = undone \cup {proc[p].item}
  /\ UNCHANGED <<row, site, counters, written, human, unstored>>

Revert(p) ==
  LET i == proc[p].item IN
  /\ proc[p].pc = "revert"
  /\ \/ /\ live' = [live EXCEPT ![i] = "orig"]
        /\ GotoMark(p, "rolled_back")
        /\ undone' = undone \cup {i}
     \/ /\ live' = [live EXCEPT ![i] = "orig"] \/ UNCHANGED live
        /\ GotoMark(p, "rollback_failed")
        /\ UNCHANGED undone
  /\ UNCHANGED <<row, manifest, inflight, counters, written, human, unstored>>

(* Every markX: an update by id, refused by the constraint for a status    *)
(* the column does not allow; an error is swallowed by the caller.         *)
Mark_Unchecked(p) ==
  /\ proc[p].pc = "mark"
  /\ \/ /\ row' = [row EXCEPT ![proc[p].item].status = proc[p].mark]
        /\ UNCHANGED dbErrors
     \/ DbError /\ UNCHANGED row
  /\ Goto(p, "pick")
  /\ UNCHANGED <<site, starts, crashes, history>>
Mark(p) ==
  /\ proc[p].pc = "mark"
  /\ \/ /\ row' = IF proc[p].mark \in Statuses
                  THEN [row EXCEPT ![proc[p].item].status = proc[p].mark]
                  ELSE row
        /\ UNCHANGED dbErrors
     \/ DbError /\ UNCHANGED row
  /\ Goto(p, "pick")
  /\ UNCHANGED <<site, starts, crashes, history>>

-----------------------------------------------------------------------------
(* The dashboard writes the status column directly.                        *)
SetStatus(i, s) == row' = [row EXCEPT ![i].status = s]

(* ActionButtons: Approve and Reject on a pending item.  (Its Rollback     *)
(* button writes `rolled_back', which the constraint refuses.)             *)
PressButton(i) ==
  /\ "buttons" \in Dashboard
  /\ Overlap \/ Quiet
  /\ row[i].status = "pending_approval"
  /\ \/ SetStatus(i, "deployed") /\ human' = human \cup {i}
     \/ SetStatus(i, "failed") /\ UNCHANGED human
  /\ UNCHANGED <<site, proc, counters, written, undone, unstored>>

(* POST .../fixes: approve or skip one of the listed items.                *)
PostFix(i) ==
  /\ "fixes" \in Dashboard
  /\ Overlap \/ Quiet
  /\ row[i].status \in {"queued", "pending_approval", "approved"}
  /\ \/ SetStatus(i, "approved") /\ human' = human \cup {i}
     \/ SetStatus(i, "skipped") /\ UNCHANGED human
  /\ UNCHANGED <<site, proc, counters, written, undone, unstored>>

-----------------------------------------------------------------------------
Work(p) ==
  \/ Pick(p) \/ Finish(p) \/ Validate(p) \/ Generate(p) \/ StoreManifest(p)
  \/ ApplySucceeds(p) \/ ApplyFails(p) \/ Decide(p) \/ ReadManifest(p)
  \/ RevertStub(p) \/ Revert(p) \/ Mark(p)

Next ==
  \/ \E p \in Procs, cmd \in Commands : Start(p, cmd)
  \/ \E p \in Procs : Work(p) \/ Crash(p)
  \/ LandManifest
  \/ \E i \in Items : PressButton(i) \/ PostFix(i)

Spec == Init /\ [][Next]_vars

(* A command that runs keeps running: every call it awaits returns.        *)
FairSpec == Spec /\ \A p \in Procs : WF_vars(Work(p))

-----------------------------------------------------------------------------
(* Properties                                                              *)

(* Nothing that needs a decision is deployed without one: the row of a     *)
(* deployed item that asks for approval, or is above the risk the run may  *)
(* deploy, has been let through by a person, in whatever order optimize    *)
(* and the operators' commands interleave (optimize.ts:678).               *)
NoAutoDeployOfRisky ==
  \A i \in Items :
    (row[i].status = "deployed" /\ (row[i].approval \/ i \in Risky)) => i \in human

(* `deployed' means the site was changed: a command marks an item deployed *)
(* only if its fix reached the site, although the mark comes several       *)
(* awaits after the load, by id and whatever others did in between.        *)
DeployedWasWritten ==
  \A i \in Wired : row[i].status = "deployed" => i \in written

(* Rollback finds a manifest for every item deployed without a person,     *)
(* unless the engine's own statement that stores it failed, which is       *)
(* ignored: the engine stores one before the adapter call, so neither the  *)
(* loss of a later write (two are not awaited) nor any other command or    *)
(* failed statement leaves such an item without.                           *)
DeployedHasManifest ==
  \A i \in Items :
    (row[i].status = "deployed" /\ i \notin human \cup unstored)
      => manifest[i].shape # "none"

(* While commands that overlap are of different stages, a site write never *)
(* concerns an item that was rejected or failed, and a status only moves   *)
(* along the lifecycle of FixLifecycle, whatever marks are lost and        *)
(* wherever a command dies.                                                *)
Lifecycle == INSTANCE FixLifecycle
               WITH status <- [i \in Items |-> row[i].status]
ImplementsLifecycle == Lifecycle!Spec

(* Every item optimize loads is routed: it ends failed, pending or         *)
(* deployed, and no failure of one item keeps the run from the next.       *)
(* A run that is killed and a mark that is lost leave it queued.           *)
EveryItemRouted ==
  \A i \in Items :
    (\E p \in Procs : proc[p].cmd = "optimize" /\ i \in proc[p].todo)
      ~> (row[i].status # "queued" \/ crashes > 0 \/ dbErrors > 0)

(* An item waiting for approval has not touched the site yet: the fix was  *)
(* applied `in sandbox' only (optimize.ts:84).                             *)
PendingIsNotLive ==
  \A i \in Items : row[i].status = "pending_approval" => live[i] = "orig"

(* An item counted as rolled back is back to its original: rollback        *)
(* `reverses deployed fixes using the rollback_manifest' (rollback.ts:4).  *)
UndoneIsOriginal == \A i \in undone : live[i] = "orig"
=============================================================================
