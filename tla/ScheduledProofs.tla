-------------------------- MODULE ScheduledProofs --------------------------
(***************************************************************************)
(* Theorems about what runs on a schedule, for every value of the          *)
(* constants: Nightly, for any number of sites and lost writes, any        *)
(* thresholds and durations; DeltaSync, for any days, windows and syncs at *)
(* the same time; SiteWatch, for any signals.  The three have no variable  *)
(* in common.                                                              *)
(***************************************************************************)
EXTENDS Nightly, DeltaSync, SiteWatch, TLAPS

-----------------------------------------------------------------------------
(* Nightly.                                                                *)

Column == [suspended : BOOLEAN, manual : BOOLEAN, left : Hours, failures : Nat]
Copy   == [suspended : BOOLEAN, left : Hours]

(* What the proofs need to know of the constants.                          *)
LEMMA Thresholds ==
  /\ MaxFailures \in Nat /\ MaxFailures > 0 /\ HardThreshold \in Nat
  /\ MaxFailures < HardThreshold
  /\ MaxLost \in Nat
  /\ NoSite \notin Sites
  /\ SoftTime \in Hours /\ HardTime \in Hours /\ 0 \in Hours
  /\ Hours \subseteq Nat
  BY NightlyAssumption DEF Hours

(* How long a suspension lasts.                                            *)
LEMMA DurationType == \A n : Duration(n) \in Hours
  BY Thresholds DEF Duration

(* Counting down the hours of a suspension keeps them hours.               *)
LEMMA HourType == \A h \in Hours : (IF h > 0 THEN h - 1 ELSE 0) \in Hours
  BY NightlyAssumption DEF Hours

(* An operation on one site writes its row and leaves the others.          *)
LEMMA ResumeType ==
  ASSUME NightlyTypeOK, NEW s \in Sites, ResumeSite(s)
  PROVE  /\ site' \in [Sites -> Column] /\ streak' \in [Sites -> 0..HardThreshold]
         /\ lost' \in 0..MaxLost /\ overtaken' \subseteq Sites
<1>0. site \in [Sites -> Column] /\ streak \in [Sites -> 0..HardThreshold]
  BY DEF NightlyTypeOK, Column
<1>o. overtaken' \subseteq Sites  BY DEF ResumeSite, NightlyTypeOK
<1>1. Resumed(s) \in Column  BY Thresholds DEF Resumed, Column
<1>2. lost' \in 0..MaxLost  BY Thresholds DEF ResumeSite, Lose, NightlyTypeOK
<1>3. 0 \in 0..HardThreshold  BY Thresholds
<1> HIDE DEF Column
<1>4. QED  BY <1>0, <1>o, <1>1, <1>2, <1>3 DEF ResumeSite

(* The run has a site in hand exactly when it is in the middle of one, and *)
(* that one is not left to do.                                             *)
Handling == {"resume_one", "process", "succeeded", "failed", "suspending"}
HandOK   == night.pc \in Handling => night.hand \in Sites \ night.todo
NightType == NightlyTypeOK /\ HandOK

(* The columns, the run, its copies and the history.                       *)
THEOREM NightStepType == NightType /\ [NightlyNext]_nightVars => NightType'
<1> SUFFICES ASSUME NightlyTypeOK, HandOK, [NightlyNext]_nightVars
             PROVE  NightlyTypeOK' /\ HandOK'
  BY DEF NightType
<1> DEFINE PCs == {"idle", "resume", "load", "sites", "resume_one",
                   "process", "succeeded", "failed", "suspending"}
           NightT == [pc : PCs, due : SUBSET Sites, todo : SUBSET Sites,
                      hand : Sites \cup {NoSite}, count : Nat]
<1>t. /\ site \in [Sites -> Column] /\ night \in NightT
      /\ copy \in [Sites -> Copy]
      /\ streak \in [Sites -> 0..HardThreshold] /\ lost \in 0..MaxLost
      /\ overtaken \subseteq Sites
  BY DEF NightlyTypeOK, Column, Copy
<1>q. ASSUME site' \in [Sites -> Column], night' \in NightT,
             copy' \in [Sites -> Copy],
             streak' \in [Sites -> 0..HardThreshold], lost' \in 0..MaxLost,
             overtaken' \subseteq Sites
      PROVE  NightlyTypeOK'
  BY <1>q DEF NightlyTypeOK, Column, Copy
<1>n. NextSite => night' \in NightT /\ HandOK'
  <2>1. ASSUME NextSite PROVE night' \in NightT
    <3>1. night' = [pc |-> "sites", due |-> night.due, todo |-> night.todo,
                    hand |-> NoSite, count |-> 0]
      BY <1>t, <2>1 DEF NextSite
    <3>2. QED  BY <1>t, <3>1
  <2>2. NextSite => night'.pc = "sites"  BY <1>t DEF NextSite
  <2>3. QED  BY <2>1, <2>2 DEF HandOK, Handling
<1>l. Lose => lost' \in 0..MaxLost  BY <1>t, Thresholds DEF Lose
<1>z. 0 \in 0..HardThreshold  BY Thresholds
<1>1. CASE BeginNight
  <2>1. {s \in Sites : site[s].suspended /\ ~site[s].manual /\ Expired(site[s])}
          \in SUBSET Sites
    OBVIOUS
  <2>2. night' \in NightT /\ HandOK'  BY <1>1, <1>t, <2>1 DEF BeginNight, HandOK, Handling
  <2> HIDE DEF NightT
  <2>3. QED  BY <1>1, <1>q, <1>t, <2>2 DEF BeginNight
<1>2. ASSUME NEW s \in Sites, AutoResume(s) PROVE NightlyTypeOK' /\ HandOK'
  <2>1. night.due \ {s} \in SUBSET Sites  BY <1>t
  <2>2. night' \in NightT /\ HandOK'  BY <1>2, <1>t, <2>1 DEF AutoResume, HandOK, Handling
  <2> HIDE DEF NightT
  <2>3. QED  BY <1>2, <1>q, <1>t, <2>2, ResumeType DEF AutoResume
<1>3. CASE LoadSites
  <2>1. [s \in Sites |-> [suspended |-> site[s].suspended, left |-> site[s].left]]
          \in [Sites -> Copy]
    BY <1>t DEF Column, Copy
  <2>2. copy' \in [Sites -> Copy] /\ lost' \in 0..MaxLost
    BY <1>3, <1>t, <1>l, <2>1 DEF LoadSites
  <2>3. night' \in NightT /\ HandOK'  BY <1>3, <1>t DEF LoadSites, HandOK, Handling
  <2> HIDE DEF NightT
  <2>4. QED  BY <1>3, <1>q, <1>t, <2>2, <2>3 DEF LoadSites
<1>4. ASSUME NEW s \in Sites, Visit(s) PROVE NightlyTypeOK' /\ HandOK'
  <2>1. night.todo \ {s} \in SUBSET Sites  BY <1>t
  <2>2. PICK pc \in {"process", "resume_one", "sites"} :
          night' = IF pc = "sites" THEN [night EXCEPT !.todo = @ \ {s}]
                   ELSE [night EXCEPT !.pc = pc, !.todo = @ \ {s}, !.hand = s]
    <3>1. CASE ~copy[s].suspended  BY <1>4, <3>1 DEF Visit
    <3>2. CASE copy[s].suspended /\ Expired(copy[s])  BY <1>4, <3>2 DEF Visit
    <3>3. CASE copy[s].suspended /\ ~Expired(copy[s])
      <4>1. night' = [night EXCEPT !.todo = @ \ {s}]  BY <1>4, <3>3 DEF Visit
      <4>2. QED  BY <4>1
    <3>4. QED  BY <3>1, <3>2, <3>3
  <2>3. night.pc = "sites"  BY <1>4 DEF Visit
  <2>4. night' \in NightT /\ HandOK'  BY <1>t, <2>1, <2>2, <2>3 DEF HandOK, Handling
  <2> HIDE DEF NightT
  <2>5. QED  BY <1>4, <1>q, <1>t, <2>4 DEF Visit
<1>5. CASE ResumeOne
  <2>1. night.hand \in Sites  BY <1>5 DEF ResumeOne, HandOK, Handling
  <2>2. night' \in NightT /\ HandOK'  BY <1>5, <1>t DEF ResumeOne, HandOK, Handling
  <2> HIDE DEF NightT
  <2>3. QED  BY <1>5, <1>q, <1>t, <2>1, <2>2, ResumeType DEF ResumeOne
<1>6. CASE ProcessSite
  <2>2. night' \in NightT /\ HandOK'  BY <1>6, <1>t DEF ProcessSite, HandOK, Handling
  <2> HIDE DEF NightT
  <2>3. QED  BY <1>6, <1>q, <1>t, <2>2 DEF ProcessSite
<1>7. CASE RecordSuccess
  <2>1. night' \in NightT /\ HandOK'
    BY <1>7, <1>n DEF RecordSuccess
  <2>3. site' \in [Sites -> Column]  BY <1>7, <1>t DEF RecordSuccess, Column
  <2>4. lost' \in 0..MaxLost  BY <1>7, <1>t, <1>l DEF RecordSuccess
  <2>5. streak' \in [Sites -> 0..HardThreshold]  BY <1>7, <1>t, <1>z DEF RecordSuccess
  <2> HIDE DEF NightT
  <2>6. QED  BY <1>7, <1>q, <1>t, <2>1, <2>3, <2>4, <2>5 DEF RecordSuccess
<1>8. CASE RecordFailure
  <2> DEFINE s == night.hand
  <2>1. s \in Sites \ night.todo /\ night.pc = "failed"
    BY <1>8 DEF RecordFailure, HandOK, Handling
  <2>2. PICK counted \in {site[s].failures + 1, 1} :
          /\ \/ /\ counted = site[s].failures + 1
                /\ site' = [site EXCEPT ![s].failures = counted]
                /\ UNCHANGED lost
             \/ counted = 1 /\ Lose /\ UNCHANGED site
          /\ IF ShouldSuspend(counted)
             THEN night' = [night EXCEPT !.pc = "suspending", !.count = counted]
             ELSE NextSite
    BY <1>8 DEF RecordFailure
  <2> HIDE DEF s
  <2>3. counted \in Nat  BY <1>t, <2>1, <2>2 DEF Column
  <2>4. night' \in NightT /\ HandOK'
    <3>1. CASE ~ShouldSuspend(counted)  BY <1>n, <2>2, <3>1
    <3>2. CASE ShouldSuspend(counted)
      BY <1>t, <2>1, <2>2, <2>3, <3>2 DEF HandOK, Handling, s
    <3>3. QED  BY <3>1, <3>2
  <2>6. site' \in [Sites -> Column]
    <3>1. CASE site' = [site EXCEPT ![s].failures = counted]
      BY <1>t, <2>1, <2>3, <3>1 DEF Column
    <3>2. CASE site' # [site EXCEPT ![s].failures = counted]
      BY <1>t, <2>2, <3>2
    <3>3. QED  BY <3>1, <3>2
  <2>7. lost' \in 0..MaxLost  BY <2>2, <1>t, <1>l
  <2>8. streak' \in [Sites -> 0..HardThreshold]
    <3>1. \A n \in 0..HardThreshold : (IF n < HardThreshold THEN n + 1 ELSE n) \in 0..HardThreshold
      BY Thresholds
    <3>2. streak[s] \in 0..HardThreshold  BY <1>t, <2>1
    <3>3. QED  BY <1>8, <1>t, <2>1, <3>1, <3>2 DEF RecordFailure, s
  <2> HIDE DEF NightT
  <2>9. QED  BY <1>8, <1>q, <1>t, <2>4, <2>6, <2>7, <2>8 DEF RecordFailure
<1>15. CASE Suspend
  <2> DEFINE s == night.hand
             done == [suspended |-> TRUE, manual |-> FALSE,
                      left |-> Duration(night.count), failures |-> night.count]
  <2>1. night' \in NightT /\ HandOK'  BY <1>15, <1>n DEF Suspend
  <2>2. done \in Column
    <3>1. night.count \in Nat  BY <1>t
    <3>2. QED  BY <3>1, DurationType DEF Column
  <2>3. site' = [site EXCEPT ![s] = done] \/ site' = site  BY <1>15 DEF Suspend
  <2> HIDE DEF s, done, Column
  <2>4. site' \in [Sites -> Column]  BY <1>t, <2>2, <2>3
  <2>5. lost' \in 0..MaxLost  BY <1>15, <1>t, <1>l DEF Suspend
  <2> HIDE DEF NightT
  <2>6. QED  BY <1>15, <1>q, <1>t, <2>1, <2>4, <2>5 DEF Suspend
<1>9. CASE EndNight
  <2>2. night' \in NightT /\ HandOK'  BY <1>9, <1>t DEF EndNight, HandOK, Handling
  <2> HIDE DEF NightT
  <2>3. QED  BY <1>9, <1>q, <1>t, <2>2 DEF EndNight
<1>10. ASSUME NEW s \in Sites, SuspendByHand(s) PROVE NightlyTypeOK' /\ HandOK'
  <2>1. site' \in [Sites -> Column]
    <3>1. PICK d \in Hours :
            site' = [site EXCEPT ![s].suspended = TRUE, ![s].manual = TRUE, ![s].left = d]
      BY <1>10, DurationType DEF SuspendByHand
    <3>2. /\ site[s] = [suspended |-> site[s].suspended, manual |-> site[s].manual,
                        left |-> site[s].left, failures |-> site[s].failures]
          /\ site[s].failures \in Nat
      BY <1>t DEF Column
    <3>3. DOMAIN site' = Sites /\ \A x \in Sites : x # s => site'[x] = site[x]
      BY <1>t, <3>1
    <3>4. site'[s] = [suspended |-> TRUE, manual |-> TRUE, left |-> d,
                      failures |-> site[s].failures]
      BY <1>t, <3>1, <3>2
    <3>5. site'[s] \in Column  BY <3>2, <3>4 DEF Column
    <3>6. site' = [x \in Sites |-> site'[x]]  BY <1>t, <3>1
    <3>7. \A x \in Sites : site'[x] \in Column  BY <1>t, <3>3, <3>5
    <3> HIDE DEF Column
    <3>8. QED  BY <3>6, <3>7
  <2> HIDE DEF NightT
  <2>2. QED  BY <1>10, <1>q, <1>t, <2>1 DEF SuspendByHand, HandOK
<1>11. ASSUME NEW s \in Sites, ResumeByHand(s) PROVE NightlyTypeOK' /\ HandOK'
  <2> HIDE DEF NightT
  <2>1. QED  BY <1>11, <1>q, <1>t, ResumeType DEF ResumeByHand, HandOK
<1>12. CASE Hour
  <2>1. \A s \in Sites : /\ site[s] \in Column /\ site[s].left \in Hours
                         /\ copy[s] \in Copy /\ copy[s].left \in Hours
    BY <1>t DEF Column, Copy
  <2>2. site' \in [Sites -> Column] /\ copy' \in [Sites -> Copy]
    <3>1. ASSUME NEW s \in Sites
          PROVE  /\ [site[s] EXCEPT !.left = IF @ > 0 THEN @ - 1 ELSE 0] \in Column
                 /\ [copy[s] EXCEPT !.left = IF @ > 0 THEN @ - 1 ELSE 0] \in Copy
      BY <2>1, HourType DEF Column, Copy
    <3>2. QED  BY <1>12, <3>1 DEF Hour
  <2> HIDE DEF NightT
  <2>3. QED  BY <1>12, <1>q, <1>t, <2>2 DEF Hour, HandOK
<1>13. CASE UNCHANGED nightVars
  BY <1>13 DEF nightVars, NightlyTypeOK, HandOK
<1>14. QED
  BY <1>1, <1>2, <1>3, <1>4, <1>5, <1>6, <1>7, <1>8, <1>9, <1>10, <1>11, <1>12, <1>13,
     <1>15
  DEF NightlyNext, NightStep

(* Nobody is suspended at first.                                           *)
THEOREM NightInitType == NightlyInit => NightType
<1>1. NightlyInit => NightlyTypeOK
  BY Thresholds DEF NightlyInit, NightlyTypeOK
<1>2. NightlyInit => HandOK  BY DEF NightlyInit, HandOK, Handling
<1>3. QED  BY <1>1, <1>2 DEF NightType

(* Every variable keeps its type.                                          *)
THEOREM NightlyTyped == NightlySpec => []NightlyTypeOK
<1>1. NightType => NightlyTypeOK  BY DEF NightType
<1>2. QED  BY <1>1, NightInitType, NightStepType, PTL DEF NightlySpec
-----------------------------------------------------------------------------
(* The invariant of one site.                                              *)

Tripped(s)   == site[s].suspended /\ ~site[s].manual
Quiet(s)     == site[s].failures <= MaxFailures - 1 + lost
ToProcess(s) == \/ s \in night.todo /\ ~copy[s].suspended
                \/ night.pc \in {"process", "succeeded", "failed"} /\ night.hand = s
ToResume(s)  == s \in night.todo \/ (night.pc = "resume_one" /\ night.hand = s)
ToSuspend(s) == night.pc = "suspending" /\ night.hand = s

(* A site that is not suspended, or that will be processed, is below the   *)
(* threshold by its count, allowing for the writes that were lost, unless  *)
(* it is about to be suspended.  Without lost writes no site to be         *)
(* processed is suspended by the run, and unless an operator got in        *)
(* between, counts are no more than the failures in a row.  What the run   *)
(* is going to resume has served its time, as the copy of its row says.    *)
CountInv(s) ==
  /\ site[s].failures <= MaxFailures + lost
  /\ ~site[s].suspended => Quiet(s) \/ ToSuspend(s)
  /\ ToProcess(s) => Quiet(s)
  /\ ToSuspend(s) => MaxFailures <= night.count /\ night.count <= MaxFailures + lost

StrikeInv(s) ==
  lost = 0 =>
    /\ ToProcess(s) => ~Tripped(s)
    /\ s \notin overtaken =>
         /\ site[s].failures <= streak[s]
         /\ Tripped(s) => streak[s] >= MaxFailures
         /\ ToSuspend(s) => night.count <= streak[s]

ServedInv(s) ==
  /\ s \in night.due /\ Tripped(s) => site[s].left = 0
  /\ ToResume(s) /\ copy[s].suspended /\ Tripped(s) => site[s].left <= copy[s].left

SiteInv(s) == CountInv(s) /\ StrikeInv(s) /\ ServedInv(s)

ResumesDue ==
  night.pc = "resume_one" =>
    copy[night.hand].suspended = TRUE /\ copy[night.hand].left = 0

NightInv ==
  /\ NightType
  /\ \A s \in Sites : SiteInv(s)
  /\ night.due # {} => night.pc = "resume"
  /\ ResumesDue

(* The values of a site's row, as numbers.                                 *)
LEMMA SiteValues ==
  ASSUME NightType, NEW s \in Sites
  PROVE  /\ site[s].failures \in Nat /\ site[s].left \in Nat
         /\ site[s].suspended \in BOOLEAN /\ site[s].manual \in BOOLEAN
         /\ copy[s].left \in Nat /\ copy[s].suspended \in BOOLEAN
         /\ streak[s] \in Nat /\ streak[s] <= HardThreshold /\ lost \in Nat
         /\ night.count \in Nat
<1>1. site[s] \in Column  BY DEF NightType, NightlyTypeOK, Column
<1>2. copy[s] \in Copy  BY DEF NightType, NightlyTypeOK, Copy
<1>3. streak[s] \in 0..HardThreshold /\ lost \in 0..MaxLost /\ night.count \in Nat
  BY DEF NightType, NightlyTypeOK
<1>4. /\ site[s].left \in Hours /\ site[s].failures \in Nat
      /\ site[s].suspended \in BOOLEAN /\ site[s].manual \in BOOLEAN
  BY <1>1 DEF Column
<1>5. copy[s].left \in Hours /\ copy[s].suspended \in BOOLEAN  BY <1>2 DEF Copy
<1>6. site[s].left \in Nat /\ copy[s].left \in Nat  BY <1>4, <1>5, Thresholds
<1>7. streak[s] \in Nat /\ lost \in Nat /\ streak[s] <= HardThreshold
  BY <1>3, Thresholds
<1>8. QED  BY <1>3, <1>4, <1>5, <1>6, <1>7

(* The run does nothing new with a site, and goes on to suspend it if it   *)
(* was about to.                                                           *)
SameWork(s) ==
  /\ ToProcess(s)' => ToProcess(s)
  /\ ToResume(s)' => ToResume(s)
  /\ ToSuspend(s)' <=> ToSuspend(s)
  /\ ToSuspend(s) => night'.count = night.count
  /\ s \in night'.due => s \in night.due

(* A step that leaves the site alone, and gives the run no more to do with *)
(* it, keeps its invariant, also when a write is lost.                     *)
LEMMA Untouched ==
  ASSUME NightType, NEW s \in Sites, SiteInv(s),
         site'[s] = site[s], copy'[s] = copy[s], streak'[s] = streak[s],
         s \in overtaken' <=> s \in overtaken,
         lost' = lost \/ Lose, SameWork(s)
  PROVE  SiteInv(s)'
<1>1. lost' \in Nat /\ lost' >= lost /\ (lost' = 0 => lost = 0)
  BY SiteValues DEF Lose
<1>2. Quiet(s) => Quiet(s)'  BY <1>1, SiteValues, Thresholds DEF Quiet
<1>3. site'[s].failures <= MaxFailures + lost'
  BY <1>1, SiteValues, Thresholds DEF SiteInv, CountInv
<1>4. Tripped(s)' <=> Tripped(s)  BY DEF Tripped
<1>5. CountInv(s)'
  <2>1. ToSuspend(s) => MaxFailures <= night.count /\ night.count <= MaxFailures + lost'
    BY <1>1, SiteValues, Thresholds DEF SiteInv, CountInv
  <2>2. QED  BY <1>2, <1>3, <2>1 DEF SiteInv, CountInv, SameWork
<1>6. StrikeInv(s)'  BY <1>1, <1>4 DEF SiteInv, StrikeInv, SameWork
<1>7. ServedInv(s)'  BY <1>4 DEF SiteInv, ServedInv, SameWork
<1>8. QED  BY <1>5, <1>6, <1>7 DEF SiteInv

(* A row that has been resumed starts again; if it is about to be          *)
(* suspended, the run has been overtaken.                                  *)
LEMMA Restarted ==
  ASSUME NightType, NEW s \in Sites, SiteInv(s),
         site'[s] = Resumed(s), streak'[s] = 0, lost' = lost,
         ToSuspend(s)' => /\ ToSuspend(s) /\ s \in overtaken'
                          /\ night'.count = night.count
  PROVE  SiteInv(s)'
<1>1. ~site'[s].suspended /\ site'[s].failures = 0  BY DEF Resumed
<1>2. Quiet(s)'  BY <1>1, SiteValues, Thresholds DEF Quiet
<1>3. site'[s].failures <= MaxFailures + lost'  BY <1>1, SiteValues, Thresholds
<1>4. ~Tripped(s)'  BY <1>1 DEF Tripped
<1>5. site'[s].failures <= streak'[s]  BY <1>1
<1>6. CountInv(s)'  BY <1>2, <1>3 DEF SiteInv, CountInv
<1>7. StrikeInv(s)'  BY <1>4, <1>5 DEF StrikeInv
<1>8. ServedInv(s)'  BY <1>4 DEF ServedInv
<1>9. QED  BY <1>6, <1>7, <1>8 DEF SiteInv

(* After a lost write the site may be processed as it is.                  *)
LEMMA LostKeeps ==
  ASSUME NightType, NEW s \in Sites, SiteInv(s),
         site'[s] = site[s], copy'[s] = copy[s], Lose,
         ToSuspend(s)' => ToSuspend(s) /\ night'.count = night.count,
         ToResume(s)' => ToResume(s), s \in night'.due => s \in night.due
  PROVE  SiteInv(s)'
<1>1. lost' = lost + 1 /\ lost \in Nat  BY SiteValues DEF Lose
<1>2. Quiet(s)' /\ site'[s].failures <= MaxFailures + lost'
  BY <1>1, SiteValues, Thresholds DEF Quiet, SiteInv, CountInv
<1>3. lost' # 0  BY <1>1
<1>4. Tripped(s)' <=> Tripped(s)  BY DEF Tripped
<1>5. CountInv(s)'
  <2>1. ToSuspend(s) => MaxFailures <= night.count /\ night.count <= MaxFailures + lost'
    BY <1>1, SiteValues, Thresholds DEF SiteInv, CountInv
  <2>2. QED  BY <1>2, <2>1 DEF CountInv
<1>6. ServedInv(s)'  BY <1>4 DEF SiteInv, ServedInv
<1>7. QED  BY <1>3, <1>5, <1>6 DEF SiteInv, StrikeInv

(* ResumeSite, seen from any site: it is resumed, or the write is lost, or *)
(* it is another one.                                                      *)
LEMMA ResumeEffect ==
  ASSUME NightType, NEW s \in Sites, ResumeSite(s), NEW x \in Sites
  PROVE  /\ lost' = lost \/ Lose
         /\ x # s => /\ site'[x] = site[x] /\ streak'[x] = streak[x]
                     /\ x \in overtaken' <=> x \in overtaken
         /\ \/ /\ site'[s] = Resumed(s) /\ streak'[s] = 0 /\ lost' = lost
               /\ ToSuspend(s) => s \in overtaken'
            \/ site'[s] = site[s] /\ streak'[s] = streak[s] /\ Lose
  BY DEF ResumeSite, NightType, NightlyTypeOK, ToSuspend

(* Recording a failure of a site that is below the threshold.              *)
LEMMA FailureKeeps ==
  ASSUME NightInv, NEW s \in Sites, s = night.hand, RecordFailure
  PROVE  SiteInv(s)'
<1>0. NightType /\ SiteInv(s) /\ night.pc = "failed" /\ copy' = copy
  BY DEF NightInv, RecordFailure
<1>1. PICK counted \in {site[s].failures + 1, 1} :
        /\ \/ /\ counted = site[s].failures + 1
              /\ site' = [site EXCEPT ![s].failures = counted]
              /\ UNCHANGED lost
           \/ counted = 1 /\ Lose /\ UNCHANGED site
        /\ IF ShouldSuspend(counted)
           THEN night' = [night EXCEPT !.pc = "suspending", !.count = counted]
           ELSE NextSite
  BY DEF RecordFailure
<1>2. /\ s \notin night'.todo /\ s \notin night'.due
      /\ \/ /\ ShouldSuspend(counted) /\ night'.pc = "suspending"
            /\ night'.count = counted /\ night'.hand = s
         \/ ~ShouldSuspend(counted) /\ night'.pc = "sites"
  <2>1. s \notin night.todo /\ night.due = {}
    BY <1>0 DEF NightInv, NightType, HandOK, Handling
  <2>2. QED  BY <1>0, <1>1, <2>1 DEF NextSite, NightType, NightlyTypeOK
<1>3. ~ToProcess(s)' /\ ~ToResume(s)'  BY <1>2 DEF ToProcess, ToResume
<1>4. ToProcess(s)  BY <1>0 DEF ToProcess
<1>v. /\ site[s].suspended \in BOOLEAN /\ lost \in Nat /\ site[s].failures \in Nat
      /\ site \in [Sites -> [suspended : BOOLEAN, manual : BOOLEAN, left : Hours,
                             failures : Nat]]
      /\ streak[s] \in Nat /\ streak[s] <= HardThreshold
  BY <1>0, SiteValues DEF NightType, NightlyTypeOK
<1>5. /\ counted \in Nat /\ counted <= MaxFailures + lost
      /\ lost' \in Nat /\ lost' >= lost
  BY <1>0, <1>1, <1>4, <1>v, Thresholds DEF SiteInv, CountInv, Quiet, Lose
<1>6. streak'[s] = IF streak[s] < HardThreshold THEN streak[s] + 1 ELSE streak[s]
  BY <1>0 DEF RecordFailure, NightType, NightlyTypeOK
<1>7. ServedInv(s)'  BY <1>2, <1>3 DEF ServedInv
<1>8. CASE /\ counted = site[s].failures + 1
           /\ site' = [site EXCEPT ![s].failures = counted]
           /\ UNCHANGED lost
  <2>1. /\ site'[s].failures = counted /\ site'[s].suspended = site[s].suspended
        /\ site'[s].manual = site[s].manual
    BY <1>8, <1>v
  <2>2. ~ShouldSuspend(counted) => Quiet(s)'
    BY <1>8, <1>v, <1>5, <2>1, Thresholds DEF Quiet, ShouldSuspend
  <2>3. ShouldSuspend(counted) => counted >= MaxFailures  BY DEF ShouldSuspend
  <2>4. CountInv(s)'
    BY <1>2, <1>3, <1>5, <1>8, <2>1, <2>2, <2>3 DEF CountInv, ToSuspend
  <2>5. lost = 0 /\ s \notin overtaken => counted <= streak'[s]
    <3>1. ASSUME lost = 0, s \notin overtaken PROVE counted <= streak'[s]
      <4>1. site[s].failures <= streak[s]
        BY <1>0, <3>1 DEF SiteInv, StrikeInv, Tripped, ToSuspend
      <4>2. counted <= MaxFailures  BY <1>5, <3>1, Thresholds
      <4>3. QED  BY <1>6, <1>8, <1>v, <4>1, <4>2, Thresholds
    <3>2. QED  BY <3>1
  <2>6. lost = 0 => ~Tripped(s)  BY <1>0, <1>4 DEF SiteInv, StrikeInv
  <2>7. overtaken' = overtaken  BY DEF RecordFailure
  <2>8. Tripped(s)' <=> Tripped(s)  BY <2>1 DEF Tripped
  <2>9. StrikeInv(s)'
    BY <1>2, <1>3, <1>8, <2>1, <2>5, <2>6, <2>7, <2>8 DEF StrikeInv, ToSuspend
  <2>10. QED  BY <1>7, <2>4, <2>9 DEF SiteInv
<1>9. CASE counted = 1 /\ Lose /\ UNCHANGED site
  <2>1. lost' = lost + 1  BY <1>9 DEF Lose
  <2>2. Quiet(s)' /\ site'[s].failures <= MaxFailures + lost'
    BY <1>0, <1>9, <1>v, <2>1, Thresholds DEF SiteInv, CountInv, Quiet
  <2>3. ToSuspend(s)' => MaxFailures <= night'.count /\ night'.count <= MaxFailures + lost'
    BY <1>2, <1>9, <1>v, <2>1, Thresholds DEF ToSuspend, ShouldSuspend
  <2>4. CountInv(s)'  BY <2>2, <2>3 DEF CountInv
  <2>5. StrikeInv(s)'  BY <1>v, <2>1 DEF StrikeInv
  <2>6. QED  BY <1>7, <2>4, <2>5 DEF SiteInv
<1>10. QED  BY <1>1, <1>8, <1>9

(* Suspending the site that failed.                                        *)
LEMMA SuspendKeeps ==
  ASSUME NightInv, NEW s \in Sites, s = night.hand, Suspend
  PROVE  SiteInv(s)'
<1> DEFINE done == [suspended |-> TRUE, manual |-> FALSE,
                    left |-> Duration(night.count), failures |-> night.count]
<1>0. /\ NightType /\ SiteInv(s) /\ ToSuspend(s)
      /\ copy' = copy /\ streak' = streak /\ overtaken' = overtaken
  BY DEF NightInv, Suspend, ToSuspend
<1>1. s \notin night'.todo /\ s \notin night'.due /\ night'.pc = "sites"
  <2>1. s \notin night.todo /\ night.due = {}
    BY <1>0 DEF NightInv, NightType, HandOK, Handling, ToSuspend
  <2>2. QED  BY <1>0, <2>1 DEF Suspend, NextSite, NightType, NightlyTypeOK
<1>2. ~ToProcess(s)' /\ ~ToResume(s)' /\ ~ToSuspend(s)'
  BY <1>1 DEF ToProcess, ToResume, ToSuspend
<1>3. CASE site' = [site EXCEPT ![s] = done] /\ UNCHANGED lost
  <2>1. site'[s] = done  BY <1>0, <1>3 DEF NightType, NightlyTypeOK
  <2>2. site'[s].failures = night.count /\ site'[s].suspended  BY <2>1
  <2>3. MaxFailures <= night.count /\ night.count <= MaxFailures + lost
    BY <1>0 DEF SiteInv, CountInv
  <2>4. CountInv(s)'  BY <1>2, <1>3, <2>2, <2>3 DEF CountInv
  <2>5. lost = 0 /\ s \notin overtaken => night.count <= streak[s]
    BY <1>0 DEF SiteInv, StrikeInv, Tripped, ToSuspend
  <2>6. lost = 0 /\ s \notin overtaken => MaxFailures <= streak[s]
    BY <1>0, <2>3, <2>5, SiteValues, Thresholds
  <2>7. StrikeInv(s)'  BY <1>0, <1>2, <1>3, <2>2, <2>5, <2>6 DEF StrikeInv
  <2>8. ServedInv(s)'  BY <1>1, <1>2 DEF ServedInv
  <2>9. QED  BY <2>4, <2>7, <2>8 DEF SiteInv
<1>4. CASE Lose /\ UNCHANGED site
  BY <1>0, <1>1, <1>2, <1>4, LostKeeps
<1>5. QED  BY <1>3, <1>4 DEF Suspend

(* What the run is about to resume has been loaded as suspended and due.   *)
LEMMA ResumesDueStep ==
  ASSUME NightInv, [NightlyNext]_nightVars
  PROVE  ResumesDue'
<1>0. /\ ResumesDue /\ NightType
      /\ night.pc = "resume_one" => night.hand \in Sites
      /\ night \in [pc : {"idle", "resume", "load", "sites", "resume_one",
                           "process", "succeeded", "failed", "suspending"},
                    due : SUBSET Sites, todo : SUBSET Sites,
                    hand : Sites \cup {NoSite}, count : Nat]
      /\ copy \in [Sites -> Copy]
  <2>1. ResumesDue /\ NightType  BY DEF NightInv
  <2>2. QED  BY <2>1 DEF NightType, NightlyTypeOK, HandOK, Handling, Copy
<1>2. CASE BeginNight  BY <1>0, <1>2 DEF ResumesDue, BeginNight
<1>3. CASE LoadSites  BY <1>0, <1>3 DEF ResumesDue, LoadSites
<1>4. ASSUME NEW s \in Sites, AutoResume(s) \/ Visit(s)
      PROVE  ResumesDue'
  <2>1. CASE AutoResume(s)  BY <1>0, <2>1 DEF ResumesDue, AutoResume
  <2>2. CASE Visit(s)
    <3>1. CASE copy[s].suspended /\ Expired(copy[s])
      BY <1>0, <2>2, <3>1 DEF ResumesDue, Copy, Visit, Expired
    <3>2. CASE ~(copy[s].suspended /\ Expired(copy[s]))
      <4>1. CASE ~copy[s].suspended  BY <1>0, <2>2, <4>1 DEF ResumesDue, Visit
      <4>2. CASE copy[s].suspended /\ ~Expired(copy[s])
        <5>1. night' = [night EXCEPT !.todo = @ \ {s}] /\ night.pc = "sites"
          BY <2>2, <4>2 DEF ResumesDue, Visit
        <5>2. QED  BY <1>0, <5>1 DEF ResumesDue
      <4>3. QED  BY <3>2, <4>1, <4>2
    <3>3. QED  BY <3>1, <3>2
  <2>3. QED  BY <1>4, <2>1, <2>2
<1>5. CASE ResumeOne  BY <1>0, <1>5 DEF ResumesDue, ResumeOne
<1>6. CASE ProcessSite  BY <1>0, <1>6 DEF ResumesDue, ProcessSite
<1>n. NextSite => ResumesDue'  BY <1>0 DEF ResumesDue, NextSite
<1>7. CASE RecordSuccess \/ RecordFailure \/ Suspend
  <2>1. CASE RecordSuccess \/ Suspend  BY <1>n, <2>1 DEF RecordSuccess, Suspend
  <2>2. CASE RecordFailure
    <3>1. NextSite \/ night'.pc = "suspending"  BY <1>0, <2>2 DEF RecordFailure
    <3>2. QED  BY <1>n, <3>1 DEF ResumesDue
  <2>3. QED  BY <1>7, <2>1, <2>2
<1>8. CASE EndNight  BY <1>0, <1>8 DEF ResumesDue, EndNight
<1>9. CASE UNCHANGED <<night, copy>>  BY <1>0, <1>9 DEF ResumesDue
<1>10. CASE Hour
  <2>1. UNCHANGED night /\ \A s \in Sites :
          copy'[s] = [copy[s] EXCEPT !.left = IF copy[s].left > 0
                                              THEN copy[s].left - 1 ELSE 0]
    BY <1>10 DEF Hour
  <2>2. ASSUME night.pc = "resume_one" PROVE ResumesDue'
    <3>1. night.hand \in Sites /\ copy[night.hand] \in Copy  BY <1>0, <2>2
    <3>2. copy[night.hand].suspended = TRUE /\ copy[night.hand].left = 0
      BY <1>0, <2>2 DEF ResumesDue
    <3>3. QED  BY <2>1, <3>1, <3>2 DEF ResumesDue, Copy
  <2>3. QED  BY <2>1, <2>2 DEF ResumesDue
<1>11. QED
  BY <1>2, <1>3, <1>4, <1>5, <1>6, <1>7, <1>8, <1>9, <1>10
  DEF NightlyNext, NightStep, SuspendByHand, ResumeByHand, nightVars

(* Every step keeps the invariant of every site.                           *)
THEOREM NightStepInv == NightInv /\ [NightlyNext]_nightVars => NightInv'
<1> SUFFICES ASSUME NightInv, [NightlyNext]_nightVars
             PROVE  /\ \A s \in Sites : SiteInv(s)'
                    /\ night'.due # {} => night'.pc = "resume"
  BY NightStepType, ResumesDueStep DEF NightInv
<1>0. /\ NightType /\ HandOK /\ \A s \in Sites : SiteInv(s)
      /\ night.due # {} => night.pc = "resume"
  BY DEF NightInv, NightType
<1>t. /\ night = [night EXCEPT !.pc = night.pc]
      /\ \A pc : [night EXCEPT !.pc = pc].pc = pc
      /\ night \in [pc : {"idle", "resume", "load", "sites", "resume_one",
                          "process", "succeeded", "failed", "suspending"},
                   due : SUBSET Sites, todo : SUBSET Sites,
                   hand : Sites \cup {NoSite}, count : Nat]
  BY <1>0 DEF NightType, NightlyTypeOK
<1> DEFINE Goal == /\ \A s \in Sites : SiteInv(s)'
                   /\ night'.due # {} => night'.pc = "resume"
(* a step that is about neither processing nor suspending a site *)
<1>w. ASSUME night.pc # "suspending", night'.pc # "suspending", NEW s \in Sites,
             ToProcess(s)' => ToProcess(s), ToResume(s)' => ToResume(s),
             s \in night'.due => s \in night.due
      PROVE  SameWork(s) /\ ~ToSuspend(s) /\ ~ToSuspend(s)'
  BY <1>w DEF SameWork, ToSuspend
(* a step of the run that touches no site *)
<1>u. ASSUME NEW pc, night'.pc = pc,
             pc \notin {"process", "resume_one", "resume", "suspending"},
             night.pc # "suspending",
             night'.todo \subseteq night.todo, night'.due = {},
             pc \in {"succeeded", "failed"} =>
               night.pc = "process" /\ night'.hand = night.hand,
             UNCHANGED <<site, copy, streak, overtaken>>, lost' = lost \/ Lose
      PROVE  Goal
  <2>1. ASSUME NEW s \in Sites PROVE SiteInv(s)'
    <3>1. ToProcess(s)' => ToProcess(s)  BY <1>u DEF ToProcess
    <3>2. ToResume(s)' => ToResume(s)  BY <1>u DEF ToResume
    <3>3. SameWork(s)  BY <1>u, <1>w, <3>1, <3>2
    <3>4. QED  BY <1>0, <1>u, <3>3, Untouched
  <2>2. QED  BY <1>u, <2>1
(* a resumption, by the run or by an operator *)
<1>r. ASSUME NEW x \in Sites, ResumeSite(x), copy' = copy, NEW s \in Sites,
             s # x => SameWork(s),
             ToResume(s)' => ToResume(s), s \in night'.due => s \in night.due,
             ToSuspend(s)' => ToSuspend(s) /\ night'.count = night.count
      PROVE  SiteInv(s)'
  <2>1. CASE s # x  BY <1>0, <1>r, <2>1, ResumeEffect, Untouched
  <2>2. CASE s = x
    <3>1. CASE /\ site'[s] = Resumed(s) /\ streak'[s] = 0 /\ lost' = lost
               /\ ToSuspend(s) => s \in overtaken'
      BY <1>0, <1>r, <3>1, Restarted
    <3>2. CASE site'[s] = site[s] /\ streak'[s] = streak[s] /\ Lose
      BY <1>0, <1>r, <3>2, LostKeeps
    <3>3. QED  BY <1>0, <1>r, <2>2, <3>1, <3>2, ResumeEffect
  <2>3. QED  BY <2>1, <2>2
<1>1. CASE BeginNight
  <2> DEFINE due == {s \in Sites : site[s].suspended /\ ~site[s].manual /\ Expired(site[s])}
  <2>1. /\ night.pc = "idle" /\ night'.pc = "resume" /\ night'.todo = night.todo
        /\ night'.hand = night.hand /\ night'.due = due
        /\ UNCHANGED <<site, copy, streak, overtaken, lost>>
    BY <1>1, <1>t DEF BeginNight
  <2>2. ASSUME NEW s \in Sites PROVE SiteInv(s)'
    <3>1. ToProcess(s)' => ToProcess(s)  BY <2>1 DEF ToProcess
    <3>2. ToResume(s)' => ToResume(s)  BY <2>1 DEF ToResume
    <3>3. s \in night'.due => site'[s].left = 0  BY <2>1 DEF Expired
    <3>4. SiteInv(s) /\ ~ToSuspend(s)'  BY <1>0, <2>1 DEF ToSuspend
    <3>s. ToSuspend(s) <=> FALSE  BY <2>1 DEF ToSuspend
    <3>5. QED
      BY <2>1, <3>1, <3>2, <3>3, <3>4, <3>s
      DEF SiteInv, CountInv, StrikeInv, ServedInv, Quiet, Tripped
  <2>3. QED  BY <2>1, <2>2
<1>2. ASSUME NEW x \in Sites, AutoResume(x) PROVE Goal
  <2>1. /\ night.pc = "resume" /\ night'.pc = "resume" /\ night'.todo = night.todo
        /\ night'.due \subseteq night.due /\ ResumeSite(x) /\ copy' = copy
    BY <1>2, <1>t DEF AutoResume
  <2>2. ASSUME NEW s \in Sites PROVE SiteInv(s)'
    <3>1. ToProcess(s)' => ToProcess(s)  BY <2>1 DEF ToProcess
    <3>2. ToResume(s)' => ToResume(s)  BY <2>1 DEF ToResume
    <3>3. SameWork(s) /\ ~ToSuspend(s)'  BY <1>w, <2>1, <3>1, <3>2
    <3>4. QED  BY <1>r, <2>1, <3>2, <3>3
  <2>3. QED  BY <2>1, <2>2
<1>3. CASE LoadSites
  <2>1. CASE night' = [night EXCEPT !.pc = "idle"] /\ Lose /\ copy' = copy
    <3>1. /\ night'.pc = "idle" /\ night'.todo = night.todo /\ night'.due = {}
          /\ night.pc = "resume"
      BY <1>3, <2>1, <1>t DEF LoadSites
    <3>2. QED  BY <1>3, <1>u, <2>1, <3>1 DEF LoadSites
  <2>2. CASE /\ copy' = [s \in Sites |-> [suspended |-> site[s].suspended,
                                          left |-> site[s].left]]
             /\ night' = [night EXCEPT !.pc = "sites", !.todo = Sites]
             /\ lost' = lost
    <3>1. /\ night'.pc = "sites" /\ night'.due = {} /\ night.pc = "resume"
          /\ UNCHANGED <<site, streak, overtaken>>
      BY <1>3, <2>2, <1>t DEF LoadSites
    <3>2. ASSUME NEW s \in Sites PROVE SiteInv(s)'
      <4>1. copy'[s].suspended = site[s].suspended /\ copy'[s].left = site[s].left
        BY <2>2
      <4>2. ToProcess(s)' => ~site[s].suspended  BY <3>1, <4>1 DEF ToProcess
      <4>3. SiteInv(s) /\ site[s].left <= copy'[s].left
        BY <1>0, <4>1, SiteValues
      <4>s. ~ToSuspend(s) /\ ~ToSuspend(s)'  BY <3>1 DEF ToSuspend
      <4>4. QED
        BY <2>2, <3>1, <4>2, <4>3, <4>s
        DEF SiteInv, CountInv, StrikeInv, ServedInv, Quiet, Tripped
    <3>3. QED  BY <3>1, <3>2
  <2>3. QED  BY <1>3, <2>1, <2>2 DEF LoadSites
<1>4. ASSUME NEW x \in Sites, Visit(x) PROVE Goal
  <2>0. /\ night.pc = "sites" /\ x \in night.todo /\ night.due = {}
        /\ UNCHANGED <<site, copy, streak, overtaken, lost>>
    BY <1>4, <1>0 DEF Visit
  <2>1. CASE ~copy[x].suspended
    <3>1. night' = [night EXCEPT !.pc = "process", !.todo = @ \ {x}, !.hand = x]
      BY <1>4, <2>1 DEF Visit
    <3>2. /\ night'.pc = "process" /\ night'.todo = night.todo \ {x}
          /\ night'.hand = x /\ night'.due = {}
      BY <1>t, <2>0, <3>1
    <3>3. ASSUME NEW s \in Sites PROVE SiteInv(s)'
      <4>1. ToProcess(s)' => ToProcess(s)  BY <2>0, <2>1, <3>2 DEF ToProcess
      <4>2. ToResume(s)' => ToResume(s)  BY <2>0, <3>2 DEF ToResume
      <4>3. SameWork(s)  BY <1>w, <2>0, <3>2, <4>1, <4>2
      <4>4. QED  BY <1>0, <2>0, <4>3, Untouched
    <3>4. QED  BY <3>2, <3>3
  <2>2. CASE copy[x].suspended /\ Expired(copy[x])
    <3>1. night' = [night EXCEPT !.pc = "resume_one", !.todo = @ \ {x}, !.hand = x]
      BY <1>4, <2>2 DEF Visit
    <3>2. /\ night'.pc = "resume_one" /\ night'.todo = night.todo \ {x}
          /\ night'.hand = x /\ night'.due = {}
      BY <1>t, <2>0, <3>1
    <3>3. ASSUME NEW s \in Sites PROVE SiteInv(s)'
      <4>1. ToProcess(s)' => ToProcess(s)  BY <2>0, <3>2 DEF ToProcess
      <4>2. ToResume(s)' => ToResume(s)  BY <2>0, <3>2 DEF ToResume
      <4>3. SameWork(s)  BY <1>w, <2>0, <3>2, <4>1, <4>2
      <4>4. QED  BY <1>0, <2>0, <4>3, Untouched
    <3>4. QED  BY <3>2, <3>3
  <2>3. CASE copy[x].suspended /\ ~Expired(copy[x])
    <3>1. night' = [night EXCEPT !.todo = @ \ {x}]
      BY <1>4, <2>3 DEF Visit
    <3>2. /\ night'.pc = "sites" /\ night'.todo \subseteq night.todo /\ night'.due = {}
      BY <1>t, <2>0, <3>1
    <3>3. QED  BY <1>u, <2>0, <3>2
  <2>4. QED  BY <2>1, <2>2, <2>3
<1>5. CASE ResumeOne
  <2> DEFINE x == night.hand
  <2>1. /\ night.pc = "resume_one" /\ night'.pc = "process" /\ night'.todo = night.todo
        /\ night'.hand = x /\ night'.due = {} /\ ResumeSite(x) /\ copy' = copy
        /\ x \in Sites \ night.todo
    BY <1>0, <1>5, <1>t DEF ResumeOne, HandOK, Handling
  <2> HIDE DEF x
  <2>2. ASSUME NEW s \in Sites PROVE SiteInv(s)'
    <3>1. ToResume(s)' => ToResume(s)  BY <2>1 DEF ToResume
    <3>2. s # x => (ToProcess(s)' => ToProcess(s))  BY <2>1 DEF ToProcess
    <3>3. s # x => SameWork(s)  BY <1>w, <2>1, <3>1, <3>2
    <3>4. ~ToSuspend(s)'  BY <2>1 DEF ToSuspend
    <3>5. QED  BY <1>r, <2>1, <3>1, <3>3, <3>4
  <2>3. QED  BY <2>1, <2>2
<1>6. CASE ProcessSite
  <2>1. PICK pc \in {"succeeded", "failed"} : night' = [night EXCEPT !.pc = pc]
    BY <1>6 DEF ProcessSite
  <2>2. /\ night'.pc = pc /\ night'.todo = night.todo /\ night'.due = {}
        /\ night'.hand = night.hand /\ night.pc = "process"
    BY <1>0, <1>6, <1>t, <2>1 DEF ProcessSite
  <2>3. QED  BY <1>6, <1>u, <2>1, <2>2 DEF ProcessSite
<1>7. CASE RecordSuccess
  <2> DEFINE x == night.hand
  <2>1. /\ night.pc = "succeeded" /\ night'.pc = "sites" /\ night'.todo = night.todo
        /\ night'.due = {} /\ x \in Sites \ night.todo
        /\ UNCHANGED <<copy, overtaken>>
    BY <1>0, <1>7, <1>t DEF RecordSuccess, NextSite, HandOK, Handling
  <2>2. /\ streak' = [streak EXCEPT ![x] = 0]
        /\ \/ site' = [site EXCEPT ![x].failures = 0] /\ lost' = lost
           \/ Lose /\ site' = site
    BY <1>7 DEF RecordSuccess
  <2>a. ToProcess(x)  BY <2>1 DEF ToProcess
  <2> HIDE DEF x
  <2>3. ASSUME NEW s \in Sites PROVE SiteInv(s)'
    <3>1. (ToProcess(s)' => ToProcess(s)) /\ (ToResume(s)' => ToResume(s))
      BY <2>1 DEF ToProcess, ToResume
    <3>w. SameWork(s) /\ ~ToSuspend(s)'  BY <1>w, <2>1, <3>1
    <3>2. CASE s # x
      <4>1. site'[s] = site[s] /\ streak'[s] = streak[s]
        BY <2>2, <3>2, <1>0 DEF NightType, NightlyTypeOK
      <4>2. QED  BY <1>0, <2>1, <2>2, <3>w, <4>1, Untouched
    <3>3. CASE s = x
      <4>1. CASE site' = [site EXCEPT ![x].failures = 0] /\ lost' = lost
        <5>1. /\ site'[s].failures = 0 /\ site'[s].suspended = site[s].suspended
              /\ site'[s].manual = site[s].manual /\ streak'[s] = 0
          BY <1>0, <2>2, <3>3, <4>1 DEF NightType, NightlyTypeOK
        <5>2. Quiet(s)' /\ site'[s].failures <= MaxFailures + lost'
          BY <1>0, <4>1, <5>1, SiteValues, Thresholds DEF Quiet
        <5>3. Tripped(s)' <=> Tripped(s)  BY <5>1 DEF Tripped
        <5>4. lost = 0 => ~Tripped(s)  BY <1>0, <2>a, <3>3 DEF SiteInv, StrikeInv
        <5>5. ~ToResume(s)' /\ s \notin night'.due
          BY <2>1, <3>3 DEF ToResume
        <5>6. CountInv(s)'  BY <3>w, <5>2 DEF CountInv
        <5>7. StrikeInv(s)'  BY <3>w, <4>1, <5>1, <5>3, <5>4 DEF StrikeInv
        <5>8. ServedInv(s)'  BY <5>5 DEF ServedInv
        <5>9. QED  BY <5>6, <5>7, <5>8 DEF SiteInv
      <4>2. CASE Lose /\ site' = site
        BY <1>0, <2>1, <3>1, <3>w, <4>2, LostKeeps
      <4>3. QED  BY <2>2, <4>1, <4>2
    <3>4. QED  BY <3>2, <3>3
  <2>4. QED  BY <2>1, <2>3
<1>8. CASE RecordFailure \/ Suspend
  <2> DEFINE x == night.hand
  <2>1. /\ night.pc \in {"failed", "suspending"} /\ night'.pc \in {"sites", "suspending"}
        /\ night'.todo = night.todo /\ night'.due = {} /\ x \in Sites \ night.todo
        /\ night'.hand \in {x, NoSite} /\ UNCHANGED <<copy, overtaken>>
    BY <1>0, <1>8, <1>t DEF RecordFailure, Suspend, NextSite, HandOK, Handling
  <2>2. \A s \in Sites : s # x => site'[s] = site[s] /\ streak'[s] = streak[s]
    BY <1>0, <1>8 DEF RecordFailure, Suspend, NightType, NightlyTypeOK
  <2>l. lost' = lost \/ Lose  BY <1>8 DEF RecordFailure, Suspend
  <2>h. x # NoSite  BY <2>1, Thresholds
  <2> HIDE DEF x
  <2>3. ASSUME NEW s \in Sites PROVE SiteInv(s)'
    <3>1. CASE s # x
      <4>1. ToProcess(s)' => ToProcess(s)  BY <2>1 DEF ToProcess
      <4>2. ToResume(s)' => ToResume(s)  BY <2>1 DEF ToResume
      <4>3. ~ToSuspend(s) /\ ~ToSuspend(s)'
        BY <2>1, <3>1, Thresholds DEF ToSuspend, x
      <4>4. SameWork(s)  BY <2>1, <4>1, <4>2, <4>3 DEF SameWork
      <4>5. QED  BY <1>0, <2>1, <2>2, <2>l, <3>1, <4>4, Untouched
    <3>2. CASE s = x  BY <1>8, <3>2, FailureKeeps, SuspendKeeps DEF x
    <3>3. QED  BY <3>1, <3>2
  <2>4. QED  BY <2>1, <2>3
<1>9. CASE EndNight
  <2>1. /\ night'.pc = "idle" /\ night'.todo = night.todo /\ night'.due = {}
        /\ night.pc = "sites"
    BY <1>0, <1>9, <1>t DEF EndNight
  <2>2. QED  BY <1>9, <1>u, <2>1 DEF EndNight
<1>10. ASSUME NEW x \in Sites, SuspendByHand(x) PROVE Goal
  <2>1. UNCHANGED <<night, copy, streak, overtaken, lost>>  BY <1>10 DEF SuspendByHand
  <2>2. ASSUME NEW s \in Sites PROVE SiteInv(s)'
    <3>1. /\ ToProcess(s)' <=> ToProcess(s)
          /\ ToResume(s)' <=> ToResume(s)
          /\ ToSuspend(s)' <=> ToSuspend(s)
      BY <2>1 DEF ToProcess, ToResume, ToSuspend
    <3>2. CASE s # x
      <4>1. site'[s] = site[s]
        BY <1>0, <1>10, <3>2 DEF SuspendByHand, NightType, NightlyTypeOK
      <4>2. QED  BY <1>0, <2>1, <3>1, <4>1, Untouched DEF SameWork
    <3>3. CASE s = x
      <4>1. site'[s].suspended /\ site'[s].manual /\ site'[s].failures = site[s].failures
        BY <1>0, <1>10, <3>3 DEF SuspendByHand, NightType, NightlyTypeOK
      <4>2. ~Tripped(s)' /\ (Quiet(s) => Quiet(s)')
        BY <2>1, <4>1 DEF Tripped, Quiet
      <4>3. SiteInv(s)  BY <1>0
      <4>4. CountInv(s)'  BY <2>1, <3>1, <4>1, <4>2, <4>3 DEF SiteInv, CountInv
      <4>5. StrikeInv(s)'  BY <2>1, <3>1, <4>1, <4>2, <4>3 DEF SiteInv, StrikeInv
      <4>6. ServedInv(s)'  BY <4>2 DEF ServedInv
      <4>7. QED  BY <4>4, <4>5, <4>6 DEF SiteInv
    <3>4. QED  BY <3>2, <3>3
  <2>3. QED  BY <1>0, <2>1, <2>2
<1>11. ASSUME NEW x \in Sites, ResumeByHand(x) PROVE Goal
  <2>1. UNCHANGED <<night, copy>> /\ ResumeSite(x)  BY <1>11 DEF ResumeByHand
  <2>2. ASSUME NEW s \in Sites PROVE SiteInv(s)'
    <3>1. SameWork(s)
      BY <2>1 DEF SameWork, ToProcess, ToResume, ToSuspend
    <3>2. QED  BY <1>r, <2>1, <3>1 DEF SameWork
  <2>3. QED  BY <1>0, <2>1, <2>2
<1>12. CASE Hour
  <2>1. UNCHANGED <<night, streak, overtaken, lost>>  BY <1>12 DEF Hour
  <2>2. ASSUME NEW s \in Sites PROVE SiteInv(s)'
    <3>1. /\ site'[s].suspended = site[s].suspended
          /\ site'[s].manual = site[s].manual
          /\ site'[s].failures = site[s].failures
          /\ site'[s].left = IF site[s].left > 0 THEN site[s].left - 1 ELSE 0
          /\ copy'[s].suspended = copy[s].suspended
          /\ copy'[s].left = IF copy[s].left > 0 THEN copy[s].left - 1 ELSE 0
      BY <1>0, <1>12 DEF Hour, NightType, NightlyTypeOK
    <3>2. /\ ToProcess(s)' <=> ToProcess(s)
          /\ ToResume(s)' <=> ToResume(s)
          /\ Quiet(s)' <=> Quiet(s)
          /\ Tripped(s)' <=> Tripped(s)
          /\ ToSuspend(s)' <=> ToSuspend(s)
      BY <2>1, <3>1 DEF ToProcess, ToResume, ToSuspend, Quiet, Tripped
    <3>3. /\ site[s].left = 0 => site'[s].left = 0
          /\ site[s].left <= copy[s].left => site'[s].left <= copy'[s].left
      BY <1>0, <3>1, SiteValues
    <3>4. SiteInv(s)  BY <1>0
    <3>5. CountInv(s)'  BY <2>1, <3>1, <3>2, <3>4 DEF SiteInv, CountInv
    <3>6. StrikeInv(s)'  BY <2>1, <3>1, <3>2, <3>4 DEF SiteInv, StrikeInv
    <3>7. ServedInv(s)'  BY <2>1, <3>1, <3>2, <3>3, <3>4 DEF SiteInv, ServedInv
    <3>8. QED  BY <3>5, <3>6, <3>7 DEF SiteInv
  <2>3. QED  BY <1>0, <2>1, <2>2
<1>13. CASE UNCHANGED nightVars
  <2>1. UNCHANGED <<site, night, copy, streak, overtaken, lost>>  BY <1>13 DEF nightVars
  <2>2. ASSUME NEW s \in Sites PROVE SiteInv(s)'
    <3>1. SameWork(s)
      BY <2>1 DEF SameWork, ToProcess, ToResume, ToSuspend
    <3>2. QED  BY <1>0, <2>1, <3>1, Untouched
  <2>3. QED  BY <1>0, <2>1, <2>2
<1>14. QED
  BY <1>1, <1>2, <1>3, <1>4, <1>5, <1>6, <1>7, <1>8, <1>9, <1>10, <1>11, <1>12, <1>13
  DEF NightlyNext, NightStep

(* The invariant holds from the start.                                     *)
THEOREM NightInvariant == NightlySpec => []NightInv
<1>1. NightlyInit => NightInv
  <2> SUFFICES ASSUME NightlyInit PROVE NightInv  OBVIOUS
  <2>1. ASSUME NEW s \in Sites PROVE SiteInv(s)
    <3>1. /\ ~site[s].suspended /\ site[s].failures = 0 /\ streak[s] = 0 /\ lost = 0
          /\ night.pc = "idle" /\ night.due = {} /\ night.todo = {}
      BY DEF NightlyInit
    <3>2. Quiet(s)  BY <3>1, Thresholds DEF Quiet
    <3>3. ~ToProcess(s) /\ ~ToResume(s) /\ ~ToSuspend(s) /\ ~Tripped(s)
      BY <3>1 DEF ToProcess, ToResume, ToSuspend, Tripped
    <3>4. QED
      BY <3>1, <3>2, <3>3, Thresholds
      DEF SiteInv, CountInv, StrikeInv, ServedInv
  <2>2. night.due = {} /\ night.pc = "idle"  BY DEF NightlyInit
  <2>3. ResumesDue  BY <2>2 DEF ResumesDue
  <2>4. QED  BY <2>1, <2>2, <2>3, NightInitType DEF NightInv
<1>2. QED  BY <1>1, NightStepInv, PTL DEF NightlySpec
-----------------------------------------------------------------------------
(* Three strikes: a site is suspended by the run only after MaxFailures    *)
(* failures in a row, as long as no write was lost and no operator resumed *)
(* it between the last of them and the suspension.                         *)
THEOREM Strikes == NightlySpec => []StrikesBeforeSuspension
<1>1. NightInv => StrikesBeforeSuspension
  BY DEF NightInv, SiteInv, StrikeInv, Tripped, StrikesBeforeSuspension
<1>2. QED  BY <1>1, NightInvariant, PTL

(* The count passes the threshold only by as much as writes were lost, so  *)
(* the hard suspension is out of reach without them.                       *)
THEOREM HardSuspension == NightlySpec => []HardNeedsLostWrites
<1>1. NightInv => HardNeedsLostWrites
  BY DEF NightInv, SiteInv, CountInv, HardNeedsLostWrites
<1>2. QED  BY <1>1, NightInvariant, PTL

(* The run lifts a suspension it gave only when its time is over.          *)
THEOREM Served == NightlySpec => SuspensionServed
<1> DEFINE Lifted(s) == site[s].suspended /\ ~site[s].manual /\ ~site'[s].suspended
           Step == NightStep => \A s \in Sites : Lifted(s) => site[s].left = 0
<1>1. NightInv /\ [NightlyNext]_nightVars => [Step]_nightVars
  <2> SUFFICES ASSUME NightInv, NightStep, NEW s \in Sites, Lifted(s)
               PROVE  site[s].left = 0
    BY DEF NightInv
  <2>0. NightType /\ HandOK /\ SiteInv(s) /\ Tripped(s)
    BY DEF NightInv, NightType, Tripped
  <2>1. ASSUME NEW x \in Sites, AutoResume(x) PROVE site[s].left = 0
    <3>1. x \in night.due /\ ResumeSite(x)  BY <2>1 DEF AutoResume
    <3>2. s = x  BY <2>0, <3>1, ResumeEffect
    <3>3. QED  BY <2>0, <3>1, <3>2 DEF SiteInv, ServedInv
  <2>2. CASE ResumeOne
    <3>1. night.hand \in Sites /\ ResumeSite(night.hand) /\ night.pc = "resume_one"
      BY <2>0, <2>2 DEF ResumeOne, HandOK, Handling
    <3>2. s = night.hand  BY <2>0, <3>1, ResumeEffect
    <3>3. copy[s].suspended /\ copy[s].left = 0 /\ ToResume(s)
      BY <3>1, <3>2 DEF NightInv, ResumesDue, ToResume
    <3>4. QED  BY <2>0, <3>3, SiteValues DEF SiteInv, ServedInv
  <2>3. CASE RecordSuccess \/ RecordFailure \/ Suspend
    <3>1. night.hand \in Sites
      BY <2>0, <2>3 DEF RecordSuccess, RecordFailure, Suspend, HandOK, Handling
    <3>2. site'[s].suspended
      BY <2>0, <2>3, <3>1
      DEF RecordSuccess, RecordFailure, Suspend, NightType, NightlyTypeOK, Tripped
    <3>3. QED  BY <3>2
  <2>4. CASE UNCHANGED site  BY <2>4, <2>0 DEF Tripped
  <2>5. QED
    BY <2>1, <2>2, <2>3, <2>4
    DEF NightStep, BeginNight, LoadSites, ProcessSite, EndNight, Visit
<1>2. QED  BY <1>1, NightInvariant, PTL DEF NightlySpec, SuspensionServed

-----------------------------------------------------------------------------
(* DeltaSync.                                                              *)

(* What the proofs need to know of the constants.                          *)
LEMMA Windows ==
  /\ Lag \in Nat /\ Lag > 0 /\ FullDays \in Nat /\ Tolerance \in Nat
  /\ MaxDay \in Nat /\ MaxDay > 0
  /\ \A d \in Days : d \in Nat /\ d # Never
  /\ \A m \in Moment : m \in Nat
  /\ Never \in Moment /\ Days \subseteq Moment
  BY DeltaAssumption DEF Days, Moment, Never

(* A comparison is true or false.                                          *)
LEMMA OlderType == \A m, a : \A b \in Older(m, a) : b \in BOOLEAN
<1>1. ASSUME NEW m, NEW a, NEW b \in Older(m, a) PROVE b \in BOOLEAN
  <2>1. b = (today - m > a) \/ b = (today - m >= a)  BY Zenon DEF Older
  <2>2. (today - m > a) \in BOOLEAN /\ (today - m >= a) \in BOOLEAN  OBVIOUS
  <2>3. QED  BY <2>1, <2>2, Zenon
<1>2. QED  BY <1>1

RecordType == [last : Moment, full : Moment]

(* The days, the record and the syncs keep their types.                    *)
THEOREM DeltaTyped == DeltaSpec => []DeltaTypeOK
<1>a. NoSync \in SyncType  BY Windows DEF NoSync, SyncType
<1>1. DeltaInit => DeltaTypeOK
  <2>1. 1 \in Days  BY Windows DEF Days
  <2>2. [last |-> Never, full |-> Never] \in [last : Moment, full : Moment]
    BY Windows
  <2>3. QED  BY <1>a, <2>1, <2>2 DEF DeltaInit, DeltaTypeOK
<1>2. DeltaTypeOK /\ [DeltaNext]_deltaVars => DeltaTypeOK'
  <2> SUFFICES ASSUME DeltaTypeOK, [DeltaNext]_deltaVars PROVE DeltaTypeOK'
    OBVIOUS
  <2>t. /\ today \in Days /\ today \in Moment /\ have \subseteq Days
        /\ record \in RecordType
        /\ sync \in [Syncs -> SyncType] /\ failed \in BOOLEAN
        /\ recorded \subseteq Moment
    BY Windows DEF DeltaTypeOK, RecordType
  <2>q. ASSUME today' \in Days, have' \subseteq Days, record' \in RecordType,
               sync' \in [Syncs -> SyncType], failed' \in BOOLEAN,
               recorded' \subseteq Moment
        PROVE  DeltaTypeOK'
    BY <2>q DEF DeltaTypeOK, RecordType
  <2>1. ASSUME NEW s \in Syncs, StartSync(s) PROVE DeltaTypeOK'
    <3>1. PICK base \in {record.last, Never} :
            sync' = [sync EXCEPT ![s].pc = "decide", ![s].base = base]
      BY <2>1 DEF StartSync
    <3>2. base \in Moment  BY <2>t, Windows DEF RecordType
    <3>3. sync' \in [Syncs -> SyncType]  BY <2>t, <3>1, <3>2 DEF SyncType
    <3>4. QED  BY <2>1, <2>t, <2>q, <3>3 DEF StartSync
  <2>2. ASSUME NEW s \in Syncs, DecideForce(s) PROVE DeltaTypeOK'
    <3>1. PICK force \in BOOLEAN :
            sync' = [sync EXCEPT ![s].pc = "begin", ![s].force = force]
      <4>1. PICK full \in {record.full, Never} :
            \E force \in IF full = Never THEN {TRUE} ELSE Older(full, FullAfter) :
              sync' = [sync EXCEPT ![s].pc = "begin", ![s].force = force]
        BY <2>2 DEF DecideForce
      <4>2. CASE full = Never  BY <4>1, <4>2
      <4>3. CASE full # Never
        <5>1. PICK force \in Older(full, FullAfter) :
                sync' = [sync EXCEPT ![s].pc = "begin", ![s].force = force]
          BY <4>1, <4>3
        <5>2. force \in BOOLEAN  BY OlderType
        <5>3. QED  BY <5>1, <5>2
      <4>4. QED  BY <4>2, <4>3
    <3>2. sync' \in [Syncs -> SyncType]  BY <2>t, <3>1 DEF SyncType
    <3>3. QED  BY <2>2, <2>t, <2>q, <3>2 DEF DecideForce
  <2>3. ASSUME NEW s \in Syncs, StartFullSync(s) PROVE DeltaTypeOK'
    <3>1. [NoSync EXCEPT !.pc = "begin", !.force = TRUE] \in SyncType
      BY <1>a DEF SyncType
    <3>2. sync' \in [Syncs -> SyncType]  BY <2>t, <2>3, <3>1 DEF StartFullSync
    <3>3. QED  BY <2>3, <2>t, <2>q, <3>2 DEF StartFullSync
  <2>4. ASSUME NEW s \in Syncs, BeginSync(s) PROVE DeltaTypeOK'
    <3>1. PICK mode \in {"full", "delta"}, base \in Moment :
            sync' = [sync EXCEPT ![s] =
              [NoSync EXCEPT !.pc = "fetch", !.started = today, !.base = base,
                             !.mode = mode]]
      <4>1. sync[s].base \in Moment  BY <2>t DEF SyncType
      <4>2. PICK full : sync' = [sync EXCEPT ![s] =
              [NoSync EXCEPT !.pc = "fetch", !.started = today,
                 !.base = IF full THEN Never ELSE sync[s].base,
                 !.mode = IF full THEN "full" ELSE "delta"]]
        BY <2>4 DEF BeginSync
      <4>3. (IF full THEN Never ELSE sync[s].base) \in Moment  BY <4>1, Windows
      <4>4. QED  BY <4>2, <4>3
    <3>2. [NoSync EXCEPT !.pc = "fetch", !.started = today, !.base = base, !.mode = mode]
            \in SyncType
      BY <1>a, <2>t DEF SyncType
    <3>3. sync' \in [Syncs -> SyncType]  BY <2>t, <3>1, <3>2
    <3>4. QED  BY <2>4, <2>t, <2>q, <3>3 DEF BeginSync
  <2>5. ASSUME NEW s \in Syncs, FetchRows(s) PROVE DeltaTypeOK'
    <3>1. sync' \in [Syncs -> SyncType]
      <4>1. sync' = [sync EXCEPT ![s].pc = "read", ![s].base = Never]
        BY <2>5 DEF FetchRows
      <4>2. [sync[s] EXCEPT !.pc = "read", !.base = Never] \in SyncType
        BY <2>t, Windows DEF SyncType
      <4>3. sync' = [sync EXCEPT ![s] = [sync[s] EXCEPT !.pc = "read", !.base = Never]]
        BY <2>t, <4>1 DEF SyncType
      <4>4. QED  BY <2>t, <4>2, <4>3
    <3>2. have' \subseteq Days  BY <2>t, <2>5 DEF FetchRows, Fetched
    <3>3. QED  BY <2>5, <2>t, <2>q, <3>1, <3>2 DEF FetchRows
  <2>6. ASSUME NEW s \in Syncs, ReadRecord(s) PROVE DeltaTypeOK'
    <3>1. PICK full \in {record.full, Never} :
            sync' = [sync EXCEPT ![s].pc = "write", ![s].full = full]
      BY <2>6 DEF ReadRecord
    <3>2. full \in Moment  BY <2>t, Windows DEF RecordType
    <3>3. sync' \in [Syncs -> SyncType]  BY <2>t, <3>1, <3>2 DEF SyncType
    <3>4. QED  BY <2>6, <2>t, <2>q, <3>3 DEF ReadRecord
  <2>7. ASSUME NEW s \in Syncs, WriteRecord(s) PROVE DeltaTypeOK'
    <3>1. Recorded(sync[s]) \in RecordType
      BY <2>t DEF Recorded, SyncType, RecordType
    <3>2. record' \in RecordType  BY <2>t, <2>7, <3>1 DEF WriteRecord
    <3>3. sync' \in [Syncs -> SyncType]  BY <1>a, <2>t, <2>7 DEF WriteRecord
    <3>4. recorded' \subseteq Moment
      <4>1. CASE UNCHANGED recorded  BY <2>t, <4>1
      <4>2. CASE recorded' = recorded \cup {record'.last} /\ record' = Recorded(sync[s])
        <5>1. record'.last = sync[s].started  BY <4>2 DEF Recorded
        <5>2. sync[s].started \in Moment  BY <2>t DEF SyncType
        <5>3. QED  BY <2>t, <4>2, <5>1, <5>2
      <4>3. QED  BY <2>7, <4>1, <4>2 DEF WriteRecord
    <3>5. QED  BY <2>7, <2>t, <2>q, <3>2, <3>3, <3>4 DEF WriteRecord
  <2>8. CASE NextDay
    <3>1. today' \in Days  BY <2>8, <2>t, Windows DEF NextDay, Days
    <3>2. QED  BY <2>8, <2>t, <2>q, <3>1 DEF NextDay
  <2>9. CASE UNCHANGED deltaVars  BY <2>9 DEF deltaVars, DeltaTypeOK
  <2>10. QED
    BY <2>1, <2>2, <2>3, <2>4, <2>5, <2>6, <2>7, <2>8, <2>9
    DEF DeltaNext, SyncStep
<1>3. QED  BY <1>1, <1>2, PTL DEF DeltaSpec
-----------------------------------------------------------------------------
(* The window before a moment of the past has no holes but those of days   *)
(* whose rows came too late for a sync that was recorded.                  *)
Excused(d, moments) ==
  \E m \in moments : d + Tolerance < m /\ m < d + Lag

Closed(moment, rows, day, moments) ==
  moment # Never =>
    /\ moment <= day
    /\ \A d \in Window(moment) : d \in rows \/ Excused(d, moments)

Complete(moment) == Closed(moment, have, today, recorded)

(* So it is for every moment a sync may build on: the one in the record,   *)
(* the one a sync has read, and, once its rows are written, its own.  What *)
(* a sync builds on was recorded, and a delta builds on something.         *)
Based(moment) == Complete(moment) /\ (moment # Never => moment \in recorded)

SyncComplete(s) ==
  LET c == sync[s] IN
  /\ Based(c.base)
  /\ c.pc = "fetch" =>
       /\ c.started # Never /\ c.started <= today
       /\ c.base # Never => c.base <= c.started
       /\ c.mode = "delta" => c.base # Never
  /\ c.pc \in {"read", "write"} => Complete(c.started)

DeltaInv ==
  ~failed => Based(record.last) /\ \A s \in Syncs : SyncComplete(s)

(* More rows, later days and more records do not make a hole.              *)
LEMMA CompleteStays ==
  ASSUME DeltaTypeOK, NEW m \in Moment, Complete(m),
         today' \in Nat, today <= today', have \subseteq have',
         recorded \subseteq recorded'
  PROVE  Complete(m)'
<1>1. today \in Nat /\ m \in Nat  BY Windows DEF DeltaTypeOK
<1>2. \A d : Excused(d, recorded) => Excused(d, recorded')  BY DEF Excused
<1>3. QED  BY <1>1, <1>2 DEF Complete, Closed, Window

(* The rows a sync fetches close the window before its own moment.  A full *)
(* sync fetches all of it; a delta what the moment it builds on lacks, but *)
(* for the days that were too early then and are out of its reach now.     *)
LEMMA FetchCloses ==
  ASSUME DeltaTypeOK, NEW s \in Syncs, SyncComplete(s),
         sync[s].pc = "fetch", have' = have \cup Fetched(sync[s]),
         UNCHANGED <<today, recorded>>
  PROVE  Closed(sync[s].started, have', today', recorded')
<1> DEFINE c == sync[s]
<1>1. /\ c.started \in Nat /\ c.base \in Nat /\ c.mode \in {"full", "delta"}
      /\ today \in Nat
  BY Windows DEF DeltaTypeOK, SyncType
<1>2. /\ c.started # Never /\ c.started <= today
      /\ c.base # Never => c.base <= c.started /\ c.base \in recorded
      /\ c.mode = "delta" => c.base # Never
      /\ Complete(c.base)
  BY DEF SyncComplete, Based
<1> HIDE DEF c
<1>3. ASSUME NEW d \in Window(c.started)
      PROVE  d \in have \cup Fetched(c) \/ Excused(d, recorded)
  <2>1. /\ d \in Days /\ d \in Nat
        /\ c.started - FullDays <= d /\ d <= c.started - Lag
    BY <1>3, Windows DEF Window
  <2>2. d <= c.started - 1 /\ d + Lag <= today
    BY <1>1, <1>2, <2>1, Windows
  <2>3. CASE c.mode = "full"
    BY <2>1, <2>2, <2>3 DEF Fetched, RangeStart, RangeEnd
  <2>4. CASE c.mode = "delta"
    <3>1. /\ c.base # Never /\ c.base <= c.started /\ c.base \in recorded
          /\ \A e \in Window(c.base) : e \in have \/ Excused(e, recorded)
      BY <1>2, <2>4 DEF Complete, Closed
    <3>2. CASE d <= c.base - Lag
      <4>1. c.base - FullDays <= d  BY <1>1, <2>1, <3>1, Windows
      <4>2. d \in Window(c.base)  BY <2>1, <3>2, <4>1 DEF Window
      <4>3. QED  BY <3>1, <4>2
    <3>3. CASE c.base - Tolerance <= d
      BY <2>1, <2>2, <2>4, <3>3 DEF Fetched, RangeStart, RangeEnd
    <3>4. CASE ~(d <= c.base - Lag) /\ ~(c.base - Tolerance <= d)
      <4>1. d + Tolerance < c.base /\ c.base < d + Lag
        BY <1>1, <2>1, <3>4, Windows
      <4>2. QED  BY <3>1, <4>1 DEF Excused
    <3>5. QED  BY <3>2, <3>3, <3>4
  <2>5. QED  BY <1>1, <2>3, <2>4
<1>4. \A d \in Window(c.started) : d \in have' \/ Excused(d, recorded')
  BY <1>3 DEF c
<1>5. QED  BY <1>2, <1>4 DEF Closed, c

(* A day is missing from the window before the last sync only if its rows  *)
(* came too late for a sync that was recorded, and the tolerance of the    *)
(* next one does not reach back to it: for every lag and tolerance, any    *)
(* number of overlapping syncs and lost records.                           *)
THEOREM OnlyLag == DeltaSpec => []HolesAreLag
<1>n. NoSync.base = Never /\ NoSync.pc = "idle"  BY DEF NoSync
<1>1. DeltaInit => DeltaInv
  BY <1>n DEF DeltaInit, DeltaInv, SyncComplete, Based, Complete, Closed
<1>2. DeltaTypeOK /\ DeltaTypeOK' /\ DeltaInv /\ [DeltaNext]_deltaVars => DeltaInv'
  <2> SUFFICES ASSUME DeltaTypeOK, DeltaTypeOK', DeltaInv, [DeltaNext]_deltaVars, ~failed'
               PROVE  Based(record.last)' /\ \A x \in Syncs : SyncComplete(x)'
    BY DEF DeltaInv
  <2>f. ~failed
    BY DEF DeltaNext, SyncStep, StartSync, DecideForce, StartFullSync, BeginSync,
           FetchRows, ReadRecord, WriteRecord, NextDay, deltaVars
  <2>m. /\ Based(record.last) /\ \A x \in Syncs : SyncComplete(x)
        /\ today \in Nat /\ today' \in Nat /\ today # Never
    BY <2>f, Windows DEF DeltaInv, DeltaTypeOK
  <2>g. today <= today' /\ have \subseteq have' /\ recorded \subseteq recorded'
    <3>1. ASSUME NEW s \in Syncs, SyncStep(s)
          PROVE  today' = today /\ have \subseteq have' /\ recorded \subseteq recorded'
      BY <3>1 DEF SyncStep, StartSync, DecideForce, StartFullSync, BeginSync, FetchRows,
                  ReadRecord, WriteRecord
    <3>2. CASE NextDay  BY <2>m, <3>2 DEF NextDay
    <3>3. CASE UNCHANGED deltaVars  BY <2>m, <3>3 DEF deltaVars
    <3>4. QED  BY <2>m, <3>1, <3>2, <3>3 DEF DeltaNext
  <2> DEFINE CompleteNow(m) == Closed(m, have', today', recorded')
             BasedNow(m) == CompleteNow(m) /\ (m # Never => m \in recorded')
  <2>c. \A m \in Moment : Complete(m) => CompleteNow(m)
    BY <2>m, <2>g, CompleteStays DEF Complete
  <2>b. \A m \in Moment : Based(m) => BasedNow(m)  BY <2>c, <2>g DEF Based
  <2>p. BasedNow(Never) /\ \A m : BasedNow(m) => (m # Never => m <= today')
    BY DEF Closed
  <2>d. /\ Based(record.last)' <=> BasedNow(record'.last)
        /\ \A x \in Syncs : /\ Based(sync[x].base)' <=> BasedNow(sync'[x].base)
                            /\ Complete(sync[x].started)' <=> CompleteNow(sync'[x].started)
    BY DEF Based, Complete
  <2>t. /\ record.last \in Moment
        /\ \A x \in Syncs : /\ sync[x].base \in Moment /\ sync[x].started \in Moment
                            /\ sync[x] \in SyncType
    BY DEF DeltaTypeOK, SyncType
  <2> HIDE DEF CompleteNow, BasedNow
  <2>s. ASSUME NEW x \in Syncs, sync'[x] = sync[x] PROVE SyncComplete(x)'
    <3>1. SyncComplete(x) /\ sync[x].started \in Nat
      BY <2>m, <2>t, Windows
    <3>2. sync[x].started <= today => sync[x].started <= today'
      BY <2>m, <2>g, <3>1
    <3>3. QED  BY <2>s, <2>b, <2>c, <2>d, <2>t, <3>1, <3>2 DEF SyncComplete
  <2>r. BasedNow(record.last)  BY <2>b, <2>m, <2>t
  <2>q. UNCHANGED record => Based(record.last)'  BY <2>r, <2>d
  <2>1. ASSUME NEW s \in Syncs, SyncStep(s)
        PROVE  Based(record.last)' /\ SyncComplete(s)'
               /\ \A x \in Syncs : x # s => sync'[x] = sync[x]
    <3>o. \A x \in Syncs : x # s => sync'[x] = sync[x]
      BY <2>1 DEF SyncStep, StartSync, DecideForce, StartFullSync, BeginSync,
                  FetchRows, ReadRecord, WriteRecord, DeltaTypeOK
    <3>c. SyncComplete(s) /\ BasedNow(sync[s].base)
      BY <2>b, <2>m, <2>t DEF SyncComplete
    (* a sync that is neither fetching nor has fetched owes its base alone *)
    <3>b. ASSUME sync'[s].pc \in {"idle", "decide", "begin"}, BasedNow(sync'[s].base)
          PROVE  SyncComplete(s)'
      BY <2>d, <3>b DEF SyncComplete
    <3>1. CASE StartSync(s)
      <4>1. PICK base \in {record.last, Never} :
              sync' = [sync EXCEPT ![s].pc = "decide", ![s].base = base]
        BY <3>1 DEF StartSync
      <4>2. sync'[s].pc = "decide" /\ sync'[s].base = base
        BY <4>1 DEF DeltaTypeOK, SyncType
      <4>3. QED  BY <2>p, <2>q, <2>r, <3>b, <3>o, <3>1, <4>2 DEF StartSync
    <3>2. CASE DecideForce(s)
      <4>1. PICK full, force : sync' = [sync EXCEPT ![s].pc = "begin", ![s].force = force]
        BY <3>2 DEF DecideForce
      <4>2. sync'[s].pc = "begin" /\ sync'[s].base = sync[s].base
        BY <4>1 DEF DeltaTypeOK, SyncType
      <4>3. QED  BY <2>q, <3>b, <3>c, <3>o, <3>2, <4>2 DEF DecideForce
    <3>3. CASE StartFullSync(s)
      <4>1. sync'[s].pc = "begin" /\ sync'[s].base = Never
        BY <3>3, <1>n DEF StartFullSync, DeltaTypeOK, NoSync
      <4>2. QED  BY <2>p, <2>q, <3>b, <3>o, <3>3, <4>1 DEF StartFullSync
    <3>4. CASE BeginSync(s)
      <4>1. PICK full \in BOOLEAN :
              /\ ~full => sync[s].base # Never
              /\ sync' = [sync EXCEPT ![s] =
                   [NoSync EXCEPT !.pc = "fetch", !.started = today,
                      !.base = IF full THEN Never ELSE sync[s].base,
                      !.mode = IF full THEN "full" ELSE "delta"]]
        <5>1. CASE sync[s].force \/ sync[s].base = Never  BY <3>4, <5>1 DEF BeginSync
        <5>2. CASE ~(sync[s].force \/ sync[s].base = Never)
          BY <3>4, <5>2, OlderType DEF BeginSync
        <5>3. QED  BY <5>1, <5>2
      <4>2. /\ sync'[s].pc = "fetch" /\ sync'[s].started = today
            /\ sync'[s].mode = IF full THEN "full" ELSE "delta"
            /\ sync'[s].base = IF full THEN Never ELSE sync[s].base
        BY <4>1 DEF DeltaTypeOK, NoSync
      <4>3. sync'[s].mode = "delta" => sync'[s].base # Never  BY <4>1, <4>2
      <4>4. BasedNow(sync'[s].base)  BY <2>p, <3>c, <4>2
      <4>5. today' = today /\ UNCHANGED record  BY <3>4 DEF BeginSync
      <4>6. sync'[s].base # Never => sync'[s].base <= today'  BY <2>p, <4>4
      <4>7. SyncComplete(s)'
        BY <2>d, <2>m, <4>2, <4>3, <4>4, <4>5, <4>6 DEF SyncComplete
      <4>8. QED  BY <2>q, <3>o, <4>5, <4>7
    <3>5. CASE FetchRows(s)
      <4>1. /\ sync[s].pc = "fetch" /\ have' = have \cup Fetched(sync[s])
            /\ UNCHANGED <<today, recorded, record>>
        BY <3>5 DEF FetchRows
      <4>2. /\ sync'[s].pc = "read" /\ sync'[s].base = Never
            /\ sync'[s].started = sync[s].started
        BY <3>5 DEF FetchRows, DeltaTypeOK, SyncType
      <4>3. CompleteNow(sync[s].started)  BY <3>c, <4>1, FetchCloses DEF CompleteNow
      <4>4. SyncComplete(s)'  BY <2>d, <2>p, <4>2, <4>3 DEF SyncComplete
      <4>5. QED  BY <2>q, <3>o, <4>1, <4>4
    <3>6. CASE ReadRecord(s)
      <4>1. PICK full \in {record.full, Never} :
              sync' = [sync EXCEPT ![s].pc = "write", ![s].full = full]
        BY <3>6 DEF ReadRecord
      <4>2. /\ sync'[s].pc = "write" /\ sync'[s].base = sync[s].base
            /\ sync'[s].started = sync[s].started
        BY <4>1 DEF DeltaTypeOK, SyncType
      <4>3. Complete(sync[s].started) /\ UNCHANGED record
        BY <3>c, <3>6 DEF ReadRecord, SyncComplete
      <4>4. SyncComplete(s)'
        BY <2>c, <2>d, <2>t, <3>c, <4>2, <4>3 DEF SyncComplete
      <4>5. QED  BY <2>q, <3>o, <4>3, <4>4
    <3>7. CASE WriteRecord(s)
      <4>1. sync'[s].pc = "idle" /\ sync'[s].base = Never
        BY <3>7, <1>n DEF WriteRecord, DeltaTypeOK
      <4>2. CompleteNow(sync[s].started)
        BY <2>c, <2>t, <3>c, <3>7 DEF WriteRecord, SyncComplete
      <4>3. Based(record.last)'
        <5>1. CASE record' = Recorded(sync[s]) /\ recorded' = recorded \cup {record'.last}
          <6>1. record'.last = sync[s].started  BY <5>1 DEF Recorded
          <6>2. BasedNow(record'.last)  BY <4>2, <5>1, <6>1 DEF BasedNow
          <6>3. QED  BY <2>d, <6>2
        <5>2. CASE UNCHANGED record  BY <2>q, <5>2
        <5>3. QED  BY <3>7, <5>1, <5>2 DEF WriteRecord
      <4>4. QED  BY <2>p, <3>b, <3>o, <4>1, <4>3
    <3>8. QED
      BY <2>1, <3>1, <3>2, <3>3, <3>4, <3>5, <3>6, <3>7 DEF SyncStep
  <2>2. CASE NextDay \/ UNCHANGED deltaVars
    <3>1. UNCHANGED <<record, sync>>  BY <2>2 DEF NextDay, deltaVars
    <3>2. QED  BY <2>q, <2>s, <3>1
  <2>3. QED  BY <2>1, <2>2, <2>s DEF DeltaNext
<1>3. DeltaInv => HolesAreLag
  BY DEF DeltaInv, Based, Complete, Closed, Excused, HolesAreLag, TooEarly
<1>4. QED  BY <1>1, <1>2, <1>3, DeltaTyped, PTL DEF DeltaSpec

-----------------------------------------------------------------------------
(* SiteWatch.  While no snapshot was lost, what is owed a report is in the *)
(* last capture and in the snapshot the next capture is compared with; a   *)
(* signal that passed is of the verdict PASS or was SKIP since.            *)
BaselineOwes ==
  ~lapsed => /\ owed \subseteq captured
             /\ IF baseline.saved THEN owed \subseteq baseline.has ELSE owed = {}

PassedOrSkipped == \A s \in passed : snapshot[s] # "PASS" => s \in skipped

WatchInv == WatchTypeOK /\ BaselineOwes /\ PassedOrSkipped

(* A capture reports what the saved snapshot has and the page has not, and *)
(* a page that could not be fetched shows nothing that was not there.      *)
LEMMA CaptureKeeps ==
  ASSUME WatchInv, NEW fetched \in BOOLEAN, NEW loaded \in BOOLEAN,
         NEW saved \in BOOLEAN, CaptureBaseline(fetched, loaded, saved)
  PROVE  WatchInv'
<1> DEFINE now    == IF fetched THEN shows ELSE EmptyShows
           report == Degraded(now, Previous(now, loaded))
<1>0. /\ baseline' = (IF saved THEN [saved |-> TRUE, has |-> now] ELSE baseline)
      /\ lapsed' = (lapsed \/ ~loaded \/ ~saved)
      /\ owed' = (owed \cup (IF fetched THEN now ELSE {})) \ report
      /\ captured' = IF fetched THEN now ELSE captured
      /\ UNCHANGED <<shows, snapshot, inarow, passed, skipped>>
  BY Zenon DEF CaptureBaseline
<1>1. WatchTypeOK /\ BaselineOwes /\ PassedOrSkipped  BY DEF WatchInv
<1>2. now \subseteq Signals  BY <1>1, WatchAssumption DEF WatchTypeOK
<1>3. loaded => report = IF baseline.saved THEN baseline.has \ now ELSE {}
  BY DEF Degraded, Previous
<1> HIDE DEF now, report
<1>4. WatchTypeOK'
  <2>1. baseline' \in [saved : BOOLEAN, has : SUBSET Signals]
    BY <1>0, <1>1, <1>2 DEF WatchTypeOK
  <2>2. lapsed' \in BOOLEAN  BY <1>0, Zenon
  <2>3. owed' \subseteq Signals /\ captured' \subseteq Signals
    BY <1>0, <1>1, <1>2 DEF WatchTypeOK
  <2>4. QED  BY <1>0, <1>1, <2>1, <2>2, <2>3 DEF WatchTypeOK
<1>5. ASSUME ~lapsed'
      PROVE  /\ owed' \subseteq captured' /\ baseline'.saved
             /\ owed' \subseteq baseline'.has
  <2>1. ~lapsed /\ loaded /\ saved  BY <1>0, <1>5, Zenon
  <2>2. baseline' = [saved |-> TRUE, has |-> now]  BY <1>0, <2>1
  <2>3. owed \subseteq captured
    BY <1>1, <2>1 DEF BaselineOwes
  <2>4. owed \ report \subseteq now
    <3>1. CASE baseline.saved
      BY <1>1, <1>3, <2>1, <3>1 DEF BaselineOwes
    <3>2. CASE ~baseline.saved  BY <1>1, <2>1, <3>2 DEF BaselineOwes
    <3>3. QED  BY <3>1, <3>2
  <2>5. owed' \subseteq now  BY <1>0, <2>4
  <2>6. owed' \subseteq captured'
    <3>1. CASE fetched  BY <1>0, <2>5, <3>1
    <3>2. CASE ~fetched  BY <1>0, <2>3, <3>2
    <3>3. QED  BY <3>1, <3>2
  <2>7. QED  BY <2>2, <2>5, <2>6
<1>6. BaselineOwes'  BY <1>5 DEF BaselineOwes
<1>7. PassedOrSkipped'  BY <1>0, <1>1 DEF PassedOrSkipped
<1>8. QED  BY <1>4, <1>6, <1>7 DEF WatchInv

(* A check alerts on every signal that passed last and fails now; one that *)
(* was SKIP in between goes into the history as such.                      *)
LEMMA CheckKeeps ==
  ASSUME WatchInv, NEW now \in [Signals -> Verdicts], CheckForRegressions(now)
  PROVE  WatchInv'
<1> DEFINE alerts == Alerts(now)
<1>0. /\ snapshot' = now
      /\ inarow' = IF alerts = {} THEN 0 ELSE IF inarow < 2 THEN inarow + 1 ELSE 2
      /\ passed' = (passed \ alerts) \cup {s \in Signals : now[s] = "PASS"}
      /\ skipped' = (skipped \ {s \in Signals : now[s] = "PASS"})
                      \cup {s \in passed : now[s] = "SKIP"}
      /\ UNCHANGED <<shows, baseline, lapsed, owed, captured>>
  BY Zenon DEF CheckForRegressions
<1>1. WatchTypeOK /\ BaselineOwes /\ PassedOrSkipped  BY DEF WatchInv
<1>2. WatchTypeOK'
  <2>1. snapshot' \in [Signals -> Verdicts \cup {"none"}]  BY <1>0
  <2>2. inarow' \in 0..2  BY <1>0, <1>1 DEF WatchTypeOK
  <2>3. passed' \subseteq Signals /\ skipped' \subseteq Signals
    BY <1>0, <1>1 DEF WatchTypeOK
  <2>4. QED  BY <1>0, <1>1, <2>1, <2>2, <2>3 DEF WatchTypeOK
<1>3. BaselineOwes'  BY <1>0, <1>1 DEF BaselineOwes
<1>4. ASSUME NEW s \in passed', snapshot'[s] # "PASS" PROVE s \in skipped'
  <2>1. s \in passed /\ s \notin alerts /\ now[s] # "PASS" /\ s \in Signals
    BY <1>0, <1>1, <1>4 DEF WatchTypeOK
  <2>2. CASE now[s] = "SKIP"  BY <1>0, <2>1, <2>2
  <2>3. CASE now[s] # "SKIP"
    <3>1. now[s] = "FAIL"  BY <2>1, <2>3 DEF Verdicts
    <3>2. snapshot[s] # "PASS"  BY <2>1, <3>1 DEF Alerts
    <3>3. s \in skipped  BY <1>1, <2>1, <3>2 DEF PassedOrSkipped
    <3>4. QED  BY <1>0, <2>1, <3>3
  <2>4. QED  BY <2>2, <2>3
<1>5. PassedOrSkipped'  BY <1>4 DEF PassedOrSkipped
<1>6. QED  BY <1>2, <1>3, <1>5 DEF WatchInv

(* What is owed a report, and what passed, is always as above.             *)
THEOREM WatchInvariant == WatchSpec => []WatchInv
<1>1. WatchInit => WatchInv
  <2> SUFFICES ASSUME WatchInit PROVE WatchInv  OBVIOUS
  <2>1. WatchTypeOK
    <3>1. baseline = [saved |-> FALSE, has |-> {}]  BY DEF WatchInit, Nothing
    <3>2. snapshot \in [Signals -> Verdicts \cup {"none"}]  BY DEF WatchInit
    <3>3. baseline \in [saved : BOOLEAN, has : SUBSET Signals]  BY <3>1
    <3>4. lapsed = FALSE /\ inarow = 0  BY Zenon DEF WatchInit
    <3>5. lapsed \in BOOLEAN  BY <3>4, Zenon
    <3>6. inarow \in 0..2  BY <3>4
    <3>7. QED  BY <3>2, <3>3, <3>5, <3>6, Zenon DEF WatchInit, WatchTypeOK
  <2>2. BaselineOwes  BY DEF WatchInit, BaselineOwes, Nothing
  <2>3. PassedOrSkipped  BY DEF WatchInit, PassedOrSkipped
  <2>4. QED  BY <2>1, <2>2, <2>3 DEF WatchInv
<1>2. WatchInv /\ [WatchNext]_watchVars => WatchInv'
  <2> SUFFICES ASSUME WatchInv, [WatchNext]_watchVars PROVE WatchInv'  OBVIOUS
  <2>1. ASSUME NEW s \in Signals, ChangePage(s) PROVE WatchInv'
    BY <2>1
    DEF ChangePage, WatchInv, WatchTypeOK, BaselineOwes, PassedOrSkipped
  <2>2. CASE UNCHANGED watchVars
    BY <2>2
    DEF watchVars, WatchInv, WatchTypeOK, BaselineOwes, PassedOrSkipped
  <2>3. QED  BY <2>1, <2>2, CaptureKeeps, CheckKeeps DEF WatchNext
<1>3. QED  BY <1>1, <1>2, PTL DEF WatchSpec

(* Every variable of the watch keeps its type.                             *)
THEOREM WatchTyped == WatchSpec => []WatchTypeOK
<1>1. WatchInv => WatchTypeOK  BY DEF WatchInv
<1>2. QED  BY WatchInvariant, <1>1, PTL

(* For any signals and any order of captures, checks, failed fetches and   *)
(* changes of the page: a loss is reported, by the capture as long as      *)
(* every snapshot was loaded and saved, and by the monitor unless the      *)
(* signal was SKIP in between.                                             *)
THEOREM LossesAreSeen == WatchSpec => []LossIsSeen
<1>1. WatchInv => LossIsSeen
  <2> SUFFICES ASSUME WatchInv PROVE LossIsSeen  OBVIOUS
  <2>1. passed \cap Failing \subseteq skipped
    BY DEF WatchInv, PassedOrSkipped, Failing
  <2>2. QED  BY <2>1 DEF WatchInv, BaselineOwes, LossIsSeen
<1>2. QED  BY WatchInvariant, <1>1, PTL
=============================================================================
