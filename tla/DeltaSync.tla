----------------------------- MODULE DeltaSync -----------------------------
(***************************************************************************)
(* The synchronisation of Search Console data of one site (tools/gsc:      *)
(* gsc_sync_scheduler, gsc_delta_sync, gsc_sync_tracker).                  *)
(*                                                                         *)
(* A scheduled sync reads the sync record, fetches from a day before the   *)
(* last sync to yesterday, or the last FullDays days, and writes the       *)
(* record; a manual one always fetches all.  Syncs of one site may         *)
(* overlap.  The data of a day can be had Lag days later.  A fetch or an   *)
(* upsert that fails counts as one without rows, and the record is written *)
(* all the same.  Fetch, upsert and record are injected functions; the     *)
(* defaults do nothing.                                                    *)
(***************************************************************************)
EXTENDS Integers, FiniteSets

CONSTANTS
  Syncs,        \* syncs that may run at one time
  Lag,          \* days until the data of a day can be had
  Tolerance,    \* GSC_DELTA_TOLERANCE_DAYS (1)
  FullDays,     \* GSC_FULL_SYNC_DAYS (28)
  MaxDeltaAge,  \* MAX_DELTA_AGE_DAYS (7)
  FullAfter,    \* FULL_SYNC_REQUIRED_AFTER_DAYS (30)
  MaxDay        \* bound: the last day

Days   == 1..MaxDay
Never  == 0
Moment == Days \cup {Never}

ASSUME DeltaAssumption ==
  /\ {Lag, FullDays, MaxDay} \subseteq Nat \ {0}
  /\ {Tolerance, MaxDeltaAge, FullAfter} \subseteq Nat

VARIABLES
  today,
  have,    \* days whose rows are in the rankings table
  record,  \* the sync record: last_sync_at and last_full_sync_at
  sync,    \* the syncs in flight
  failed,  \* history: a fetch or an upsert failed
  recorded \* history: every last_sync_at the record had

deltaVars == <<today, have, record, sync, failed, recorded>>

SyncType ==
  [pc : {"idle", "decide", "begin", "fetch", "read", "write"}, base : Moment,
   force : BOOLEAN, mode : {"full", "delta"}, started : Moment, full : Moment]

DeltaTypeOK ==
  /\ today \in Days
  /\ have \subseteq Days
  /\ record \in [last : Moment, full : Moment]
  /\ sync \in [Syncs -> SyncType]
  /\ failed \in BOOLEAN
  /\ recorded \subseteq Moment

NoSync == [pc |-> "idle", base |-> Never, force |-> FALSE, mode |-> "full",
           started |-> Never, full |-> Never]

DeltaInit ==
  /\ today = 1 /\ have = {} /\ failed = FALSE /\ recorded = {}
  /\ record = [last |-> Never, full |-> Never]
  /\ sync = [s \in Syncs |-> NoSync]
----------------------------------------------------------------------------
(* runSyncForSite loads the record; a load that fails finds none.          *)
StartSync(s) ==
  /\ sync[s].pc = "idle"
  /\ \E base \in {record.last, Never} :
       sync' = [sync EXCEPT ![s].pc = "decide", ![s].base = base]
  /\ UNCHANGED <<today, have, record, failed, recorded>>

(* The ages are measured in milliseconds: on the last day of a window      *)
(* either answer is possible.                                              *)
Older(moment, age) == {today - moment > age} \cup {today - moment >= age}

(* shouldForceFullSync loads the record again.                             *)
DecideForce(s) ==
  /\ sync[s].pc = "decide"
  /\ \E full \in {record.full, Never} :
     \E force \in IF full = Never THEN {TRUE} ELSE Older(full, FullAfter) :
       sync' = [sync EXCEPT ![s].pc = "begin", ![s].force = force]
  /\ UNCHANGED <<today, have, record, failed, recorded>>

(* triggerFullSync, for a manual refresh.                                  *)
StartFullSync(s) ==
  /\ sync[s].pc = "idle"
  /\ sync' = [sync EXCEPT ![s] = [NoSync EXCEPT !.pc = "begin", !.force = TRUE]]
  /\ UNCHANGED <<today, have, record, failed, recorded>>

(* determineSyncMode; synced_at is the moment the sync begins.  What a     *)
(* sync no longer needs is forgotten.                                      *)
BeginSync(s) ==
  /\ sync[s].pc = "begin"
  /\ \E full \in IF sync[s].force \/ sync[s].base = Never THEN {TRUE}
                 ELSE Older(sync[s].base, MaxDeltaAge) :
       sync' = [sync EXCEPT ![s] =
         [NoSync EXCEPT !.pc = "fetch", !.started = today,
            !.base = IF full THEN Never ELSE sync[s].base,
            !.mode = IF full THEN "full" ELSE "delta"]]
  /\ UNCHANGED <<today, have, record, failed, recorded>>

\* the delta starts at yesterday's day, whenever the last sync was
RangeStart_Yesterday(c) ==
  IF c.mode = "full" THEN c.started - FullDays ELSE c.started - Tolerance

(* buildSyncDateRange: the range ends the day before the sync.             *)
RangeStart(c) ==
  IF c.mode = "full" THEN c.started - FullDays ELSE c.base - Tolerance
RangeEnd(c) == c.started - 1

Fetched(c) ==
  {d \in Days : RangeStart(c) <= d /\ d <= RangeEnd(c) /\ d + Lag <= today}

(* The fetch and the upsert of its rows, or the failure of either.         *)
FetchRows(s) ==
  /\ sync[s].pc = "fetch"
  /\ \/ have' = have \cup Fetched(sync[s]) /\ UNCHANGED failed
     \/ failed' = TRUE /\ UNCHANGED have
  /\ sync' = [sync EXCEPT ![s].pc = "read", ![s].base = Never]
  /\ UNCHANGED <<today, record, recorded>>

(* saveSyncRecord reads the record to keep the other mode's date ...       *)
ReadRecord(s) ==
  /\ sync[s].pc = "read"
  /\ \E full \in {record.full, Never} :
       sync' = [sync EXCEPT ![s].pc = "write", ![s].full = full]
  /\ UNCHANGED <<today, have, record, failed, recorded>>

\* the day the record is written, not the day the sync began
Recorded_Now(c) == [last |-> today, full |-> IF c.mode = "full" THEN today ELSE c.full]

Recorded(c) ==
  [last |-> c.started, full |-> IF c.mode = "full" THEN c.started ELSE c.full]

(* ... and writes it, or fails to.                                         *)
WriteRecord(s) ==
  /\ sync[s].pc = "write"
  /\ \/ /\ record' = Recorded(sync[s])
        /\ recorded' = recorded \cup {record'.last}
     \/ UNCHANGED <<record, recorded>>
  /\ sync' = [sync EXCEPT ![s] = NoSync]
  /\ UNCHANGED <<today, have, failed>>

NextDay ==
  /\ today < MaxDay /\ today' = today + 1
  /\ UNCHANGED <<have, record, sync, failed, recorded>>
----------------------------------------------------------------------------
SyncStep(s) ==
  \/ StartSync(s) \/ DecideForce(s) \/ StartFullSync(s) \/ BeginSync(s)
  \/ FetchRows(s) \/ ReadRecord(s) \/ WriteRecord(s)

DeltaNext == (\E s \in Syncs : SyncStep(s)) \/ NextDay

DeltaSpec == DeltaInit /\ [][DeltaNext]_deltaVars
----------------------------------------------------------------------------
Window(moment) == {d \in Days : moment - FullDays <= d /\ d <= moment - Lag}

(* Days on which a recorded sync was too early for the rows of day d and   *)
(* already out of the tolerance's reach.                                   *)
TooEarly(d) == {m \in recorded : d + Tolerance < m /\ m < d + Lag}

(* Whatever the lag, the pauses between syncs and the order in which       *)
(* overlapping syncs fetch and write the record, and though records are    *)
(* lost: without a failed fetch a day is missing from the FullDays days    *)
(* before the last sync only if the record once stood at a day too early   *)
(* for its rows and beyond the tolerance (gsc_delta_sync.ts:93).           *)
HolesAreLag ==
  ~failed /\ record.last # Never =>
    \A d \in Window(record.last) : d \in have \/ TooEarly(d) # {}

(* The record says how far back to look (gsc_sync_tracker.ts:4): with it,  *)
(* the deltas leave no hole in the FullDays days before the last sync      *)
(* unless a fetch failed.  With Lag > Tolerance + 1, as the repository has *)
(* it, they do.                                                            *)
WindowComplete ==
  ~failed /\ record.last # Never => Window(record.last) \subseteq have
=============================================================================
