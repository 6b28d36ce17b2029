-------------------------- MODULE Appliance_proofs --------------------------
(***************************************************************************)
(* What holds of the appliance and of the work it does by itself.          *)
(*                                                                         *)
(* No click on Update is lost, for any number of operators.  The invariant *)
(* behind it: a request that no update has begun for is still on its way,  *)
(* or its file is there; and while an update reports and tidies up, every  *)
(* click is served, since the file itself keeps new ones out.              *)
(*                                                                         *)
(* The wizard makes one super administrator, for any number of wizards.    *)
(* The invariant behind it: a wizard that has the row of the appliance     *)
(* finds it untouched, and once one is through, the row never again says   *)
(* that setup is pending.                                                  *)
(*                                                                         *)
(* The last export of a period is the one in force, for any number of      *)
(* exporters.  The invariant behind it: what a run is to replace is still  *)
(* the last export.                                                        *)
(*                                                                         *)
(* Reminders are bounded, for any number of workers and employees.  The    *)
(* invariant behind it: who was found due has room for a claim or has that *)
(* of today already, and one worker holds a claim that it has not sent.    *)
(*                                                                         *)
(* Cards that are being printed carry the next version, for any employees, *)
(* printers and sheets.  The invariant behind it: a row is held by one job *)
(* only, so nobody else's commit changes the badge under its card.         *)
(*                                                                         *)
(* Pay periods follow each other without a gap, for any calendar, length   *)
(* of the day, months and changes of the clock; those of all companies but *)
(* the bi-weekly ones hold the day that they are asked for.                *)
(*                                                                         *)
(* The components together keep their types, in any behaviour of           *)
(* MCAppliance.                                                            *)
(***************************************************************************)
EXTENDS MCAppliance, OfflineQueue_proofs, Sessions_proofs, SequenceTheorems,
        FiniteSetTheorems, WellFoundedInduction, TLAPS

-----------------------------------------------------------------------------
(* Updates *)

(* A click that waits for an update is being written, or has its file. *)
ClickOnItsWay == \A o \in unserved : clicks[o] # "idle" \/ requested

(* An update that runs, or has reported, holds its request, and nobody waits. *)
ServedWhileUpdating ==
  script \in {"updating", "reported"} => requested /\ unserved = {}

UpdateInv == UpdateTypeOK /\ ClickOnItsWay /\ ServedWhileUpdating

LEMMA UpdateInvInit == UpdateInit => UpdateInv
  BY DEF UpdateInit, UpdateInv, UpdateTypeOK, ClickOnItsWay, ServedWhileUpdating

(* Every step of the server and of the host keeps the invariant. *)
LEMMA UpdateInvStep == UpdateInv /\ [UpdateNext]_updateVars => UpdateInv'
<1> SUFFICES ASSUME UpdateInv, [UpdateNext]_updateVars PROVE UpdateInv'
  OBVIOUS
<1> USE DEF UpdateInv, UpdateTypeOK, ClickOnItsWay, ServedWhileUpdating
<1>1. ASSUME NEW o \in Operators, RequestUpdate(o) PROVE UpdateInv'
  BY <1>1 DEF RequestUpdate, UpdateInProgress
<1>2. ASSUME NEW o \in Operators, WriteRequest(o) PROVE UpdateInv'
  BY <1>2 DEF WriteRequest
<1>3. ASSUME NEW o \in Operators, RenameRequest(o) PROVE UpdateInv'
  <2>1. CASE written
    BY <1>3, <2>1 DEF RenameRequest
  <2>2. CASE ~written
    BY <1>3, <2>2 DEF RenameRequest
  <2> QED
    BY <2>1, <2>2
<1>4. CASE ApiStops
  BY <1>4 DEF ApiStops
<1>5. CASE PathChanged
  BY <1>5 DEF PathChanged
<1>6. CASE BeginUpdate
  BY <1>6 DEF BeginUpdate
<1>7. CASE ReportUpdate
  BY <1>7 DEF ReportUpdate
<1>8. CASE RemoveRequest
  BY <1>8 DEF RemoveRequest
<1>9. CASE UpdateEnds
  BY <1>9 DEF UpdateEnds
<1>10. CASE HostStops
  BY <1>10 DEF HostStops
<1>11. CASE UNCHANGED updateVars
  BY <1>11 DEF updateVars
<1> QED
  BY <1>1, <1>2, <1>3, <1>4, <1>5, <1>6, <1>7, <1>8, <1>9, <1>10, <1>11 DEF UpdateNext

(* The invariant holds in every reachable state. *)
LEMMA UpdateInvAlways == UpdateSpec => []UpdateInv
  BY UpdateInvInit, UpdateInvStep, PTL DEF UpdateSpec

(* However many operators click, and whenever the server or the host stops,
   the file goes only after an update has begun for everybody who waits. *)
THEOREM UpdateServedAlways == UpdateSpec => []UpdateServed
<1>1. UpdateInv => UpdateServed
  BY DEF UpdateInv, UpdateTypeOK, ClickOnItsWay, UpdateServed
<1> QED
  BY <1>1, UpdateInvAlways, PTL

-----------------------------------------------------------------------------
(* First-run setup *)

(* A wizard that creates has stamped a fresh appliance. *)
StampedFresh ==
  \A w \in Wizards : settingUp[w] = "create" => installation = "pending-setup" /\ wizardMade = 0

(* The sentinel is gone as soon as a wizard is through. *)
SentinelSpent == wizardMade # 0 => installation # "pending-setup"

SetupInv == SetupTypeOK /\ StampedFresh /\ SentinelSpent /\ SetUpOnce

LEMMA SetupInvInit == SetupInit => SetupInv
  BY FirstRunAssumption
  DEF SetupInit, SetupInv, SetupTypeOK, StampedFresh, SentinelSpent, SetUpOnce

(* Every step of a wizard, and of the operator, keeps the invariant. *)
LEMMA SetupInvStep == SetupInv /\ [SetupNext]_setupVars => SetupInv'
<1> SUFFICES ASSUME SetupInv, [SetupNext]_setupVars PROVE SetupInv'
  OBVIOUS
<1> USE FirstRunAssumption
    DEF SetupInv, SetupTypeOK, StampedFresh, SentinelSpent, SetUpOnce, Steps
<1>1. ASSUME NEW w \in Wizards, BeginSetup(w) PROVE SetupInv'
  BY <1>1 DEF BeginSetup
<1>2. ASSUME NEW w \in Wizards, StampInstallation(w) PROVE SetupInv'
  BY <1>2 DEF StampInstallation
<1>3. ASSUME NEW w \in Wizards, CreateSuperAdmin(w) PROVE SetupInv'
  <2>1. wizardMade = 0 /\ wizardMade' = 1 /\ installation' = "stamped"
    BY <1>3 DEF CreateSuperAdmin
  <2>2. \A v \in Wizards : settingUp'[v] # "create"
    BY <1>3 DEF CreateSuperAdmin
  <2> QED
    BY <1>3, <2>1, <2>2 DEF CreateSuperAdmin
<1>4. ASSUME NEW w \in Wizards, SetupFails(w) PROVE SetupInv'
  BY <1>4 DEF SetupFails
<1>5. CASE CleanUpInstallation
  BY <1>5 DEF CleanUpInstallation
<1>6. CASE Appoint
  BY <1>6 DEF Appoint
<1>7. CASE UNCHANGED setupVars
  BY <1>7 DEF setupVars
<1> QED
  BY <1>1, <1>2, <1>3, <1>4, <1>5, <1>6, <1>7 DEF SetupNext

(* The invariant holds in every reachable state. *)
LEMMA SetupInvAlways == SetupSpec => []SetupInv
  BY SetupInvInit, SetupInvStep, PTL DEF SetupSpec

(* However many wizards run at once, and whatever is done to the installation
   id behind them, they make one super administrator. *)
THEOREM SetUpOnceAlways == SetupSpec => []SetUpOnce
<1>1. SetupInv => SetUpOnce
  BY DEF SetupInv
<1> QED
  BY <1>1, SetupInvAlways, PTL

-----------------------------------------------------------------------------
(* Payroll exports *)

ExportRuns == [pc : {"prior", "totals", "record"}, acknowledged : BOOLEAN, prior : Nat]

ExportTypes ==
  /\ exports \in Seq(Nat) /\ approved \in BOOLEAN /\ crossed \in BOOLEAN
  /\ exporting \in [Exporters -> ExportRuns \cup {NotExporting}]

(* Until two runs have overlapped, there is one at a time. *)
OneRun ==
  ~crossed => \A u, v \in Exporters :
                exporting[u] # NotExporting /\ exporting[v] # NotExporting => u = v

(* What a run is to replace is still the last export. *)
PriorStands ==
  ~crossed => \A u \in Exporters :
                exporting[u].pc \in {"totals", "record"} => exporting[u].prior = Len(exports)

ExportInv == ExportTypes /\ OneRun /\ PriorStands /\ OneExportInForce

(* The latest of the exports is one of them. *)
LEMMA MaxExists ==
  ASSUME NEW n \in Nat, NEW S \in SUBSET (0..n), S # {}
  PROVE  Max(S) \in S
<1> DEFINE below == {n - x : x \in S}
<1>1. below \subseteq Nat /\ below # {}
  <2>1. \A x \in S : n - x \in Nat
    OBVIOUS
  <2>2. PICK x \in S : TRUE
    OBVIOUS
  <2>3. n - x \in below
    BY <2>2
  <2> QED
    BY <2>1, <2>3
<1>2. IsWellFoundedOn(OpToRel(<, Nat), Nat)
  BY NatLessThanWellFounded
<1>3. PICK m \in below : \A k \in below : ~(<<k, m>> \in OpToRel(<, Nat))
  BY <1>1, <1>2, WFMin
<1>4. PICK x \in S : m = n - x
  BY <1>3
<1>5. ASSUME NEW y \in S PROVE x >= y
  <2>1. n - y \in below /\ n - y \in Nat /\ m \in Nat
    BY <1>1, <1>3
  <2>2. ~(n - y < m)
    BY <1>3, <2>1 DEF OpToRel
  <2>3. x \in 0..n /\ y \in 0..n
    BY <1>4, <1>5
  <2> QED
    BY <1>4, <2>2, <2>3
<1> QED
  BY <1>4, <1>5 DEF Max

LEMMA PriorIsId == ExportTypes => Prior \in Nat
<1> SUFFICES ASSUME ExportTypes PROVE Prior \in Nat
  OBVIOUS
<1>1. Len(exports) \in Nat /\ DOMAIN exports = 1..Len(exports)
  BY LenProperties DEF ExportTypes
<1>2. {0} \cup InForce \in SUBSET (0..Len(exports))
  BY <1>1 DEF InForce
<1>3. Prior \in {0} \cup InForce
  BY <1>1, <1>2, MaxExists DEF Prior
<1> QED
  BY <1>1, <1>2, <1>3

LEMMA PriorIsLast ==
  ASSUME ExportTypes, OneExportInForce, ~crossed
  PROVE  Prior = Len(exports)
<1>1. exports \in Seq(Nat) /\ Len(exports) \in Nat /\ DOMAIN exports = 1..Len(exports)
  BY LenProperties DEF ExportTypes
<1> DEFINE n == Len(exports)
<1>2. {0} \cup InForce = {0, n}
  <2>1. CASE exports = <<>>
    <3>1. n = 0
      BY <2>1
    <3> QED
      BY <2>1, <3>1 DEF OneExportInForce
  <2>2. CASE exports # <<>>
    BY <2>2 DEF OneExportInForce
  <2> QED
    BY <2>1, <2>2
<1>3. \A m \in Nat : Max({0, m}) = m
  <2> SUFFICES ASSUME NEW m \in Nat PROVE Max({0, m}) = m
    OBVIOUS
  <2>1. \A y \in {0, m} : m >= y
    OBVIOUS
  <2>2. \A x \in {0, m} : (\A y \in {0, m} : x >= y) => x = m
    OBVIOUS
  <2> QED
    BY <2>1, <2>2 DEF Max
<1> QED
  BY <1>1, <1>2, <1>3 DEF Prior

LEMMA ExportInvInit == ExportInit => ExportInv
<1> SUFFICES ASSUME ExportInit PROVE ExportInv
  OBVIOUS
<1>1. exports = <<>> /\ DOMAIN exports = {}
  BY DEF ExportInit
<1>2. NotExporting.pc = "idle"
  BY DEF NotExporting
<1>3. exports \in Seq(Nat)
  BY <1>1
<1>4. approved \in BOOLEAN /\ crossed = FALSE
  BY DEF ExportInit
<1>5. exporting = [u \in Exporters |-> NotExporting]
  BY DEF ExportInit
<1> QED
  BY <1>1, <1>2, <1>3, <1>4, <1>5
  DEF ExportInv, ExportTypes, OneRun, PriorStands, OneExportInForce, InForce

(* A run ends, or goes on: the others are what they were. *)
LEMMA RunMoved ==
  ASSUME ExportTypes, NEW u \in Exporters, NEW x \in ExportRuns \cup {NotExporting},
         exporting' = [exporting EXCEPT ![u] = x]
  PROVE  /\ exporting' \in [Exporters -> ExportRuns \cup {NotExporting}]
         /\ exporting'[u] = x
         /\ \A v \in Exporters : v # u => exporting'[v] = exporting[v]
BY DEF ExportTypes

(* The last export is replaced by the new one. *)
LEMMA RecordExportStep ==
  ASSUME ExportInv, NEW u \in Exporters, RecordExport(u)
  PROVE  ExportInv'
<1> DEFINE n == Len(exports)
           prior == exporting[u].prior
           replaced == IF prior = 0 THEN exports ELSE [exports EXCEPT ![prior] = n + 1]
<1>1. /\ ExportTypes /\ exports \in Seq(Nat) /\ n \in Nat /\ DOMAIN exports = 1..n
      /\ approved' = approved /\ crossed' = crossed
  BY LenProperties DEF ExportInv, ExportTypes, RecordExport
<1>2. exporting[u] # NotExporting
  BY DEF RecordExport, NotExporting
<1>3. replaced \in Seq(Nat) /\ Len(replaced) = n
  <2>1. CASE prior \in 1..n
    <3>1. replaced = [exports EXCEPT ![prior] = n + 1]
      BY <2>1
    <3> QED
      BY <1>1, <2>1, <3>1, ExceptSeq
  <2>2. CASE prior \notin 1..n
    <3>1. replaced = exports
      BY <1>1, <2>2
    <3> QED
      BY <1>1, <3>1
  <2> QED
    BY <2>1, <2>2
<1>4. \A i \in 1..n : replaced[i] = IF prior # 0 /\ i = prior THEN n + 1 ELSE exports[i]
  BY <1>1
<1>5. exports' = Append(replaced, 0) /\ exporting' = [exporting EXCEPT ![u] = NotExporting]
  BY DEF RecordExport
<1>6. prior = exporting[u].prior
  OBVIOUS
<1> HIDE DEF replaced, prior
<1>7. /\ exports' \in Seq(Nat) /\ Len(exports') = n + 1 /\ exports'[n + 1] = 0
      /\ \A i \in 1..n : exports'[i] = replaced[i]
  BY <1>1, <1>3, <1>5, AppendProperties
<1>8. DOMAIN exports' = 1..(n + 1) /\ exports' # <<>>
  BY <1>1, <1>7, LenProperties
<1>9. /\ exporting' \in [Exporters -> ExportRuns \cup {NotExporting}]
      /\ exporting'[u] = NotExporting
      /\ \A v \in Exporters : v # u => exporting'[v] = exporting[v]
  BY <1>1, <1>5, RunMoved
<1>10. ExportTypes'
  BY <1>1, <1>7, <1>9 DEF ExportTypes
<1>11. ~crossed => \A v \in Exporters : exporting'[v] = NotExporting
  BY <1>2, <1>9 DEF ExportInv, OneRun
<1>12. OneRun' /\ PriorStands'
  BY <1>1, <1>11 DEF OneRun, PriorStands, NotExporting
<1>13. OneExportInForce'
  <2> SUFFICES ASSUME ~crossed PROVE InForce' = {n + 1}
    BY <1>1, <1>7, <1>8 DEF OneExportInForce
  <2>1. prior = n
    BY <1>6 DEF ExportInv, PriorStands, RecordExport
  <2>2. InForce = IF exports = <<>> THEN {} ELSE {n}
    BY DEF ExportInv, OneExportInForce
  <2>3. ASSUME NEW i \in 1..n PROVE exports'[i] # 0
    <3>1. exports # <<>>
      BY <1>1, <2>3
    <3>2. CASE i = n
      <4>1. prior # 0 /\ i = prior
        BY <1>1, <2>1, <2>3, <3>2
      <4>2. exports'[i] = n + 1
        BY <1>4, <1>7, <2>3, <4>1
      <4> QED
        BY <1>1, <4>2
    <3>3. CASE i # n
      <4>1. exports[i] # 0
        BY <1>1, <2>2, <2>3, <3>1, <3>3 DEF InForce
      <4> QED
        BY <1>4, <1>7, <2>1, <2>3, <3>3, <4>1
    <3> QED
      BY <3>2, <3>3
  <2>4. \A i \in 1..(n + 1) : exports'[i] = 0 <=> i = n + 1
    BY <1>1, <1>7, <2>3
  <2> QED
    BY <1>1, <1>8, <2>4 DEF InForce
<1> QED
  BY <1>10, <1>12, <1>13 DEF ExportInv

LEMMA ExportInvStep == ExportInv /\ [ExportNext]_exportVars => ExportInv'
<1> SUFFICES ASSUME ExportInv, [ExportNext]_exportVars PROVE ExportInv'
  OBVIOUS
<1>a. ExportTypes /\ OneRun /\ PriorStands /\ OneExportInForce /\ NotExporting.pc = "idle"
  BY DEF ExportInv, NotExporting
<1>b. UNCHANGED <<exports, crossed>> => OneExportInForce'
  BY <1>a DEF OneExportInForce, InForce
<1>1. ASSUME NEW u \in Exporters, NEW acknowledged \in BOOLEAN, RunExport(u, acknowledged)
      PROVE  ExportInv'
  <2> DEFINE x == [pc |-> "prior", acknowledged |-> acknowledged, prior |-> 0]
  <2>1. x \in ExportRuns /\ x.pc = "prior"
    BY DEF ExportRuns
  <2>2. exporting' = [exporting EXCEPT ![u] = x] /\ UNCHANGED <<exports, approved>>
    BY <1>1 DEF RunExport
  <2>3. /\ crossed' \in BOOLEAN
        /\ ~crossed' => ~crossed /\ \A v \in Exporters : exporting[v] = NotExporting
    BY <1>1, <1>a DEF RunExport, ExportTypes
  <2> HIDE DEF x
  <2>4. /\ exporting' \in [Exporters -> ExportRuns \cup {NotExporting}]
        /\ exporting'[u] = x
        /\ \A v \in Exporters : v # u => exporting'[v] = exporting[v]
    BY <1>a, <2>1, <2>2, RunMoved
  <2>5. ExportTypes' /\ OneRun' /\ PriorStands'
    BY <1>a, <2>1, <2>2, <2>3, <2>4 DEF ExportTypes, OneRun, PriorStands
  <2>6. OneExportInForce'
    BY <1>a, <2>2, <2>3 DEF OneExportInForce, InForce
  <2> QED
    BY <2>5, <2>6 DEF ExportInv
<1>2. ASSUME NEW u \in Exporters, FindPrior(u) PROVE ExportInv'
  <2>1. exporting[u] \in ExportRuns /\ exporting[u].pc = "prior"
        /\ UNCHANGED <<exports, approved, crossed>>
    BY <1>2, <1>a DEF FindPrior, ExportTypes
  <2> DEFINE x == IF Prior # 0 /\ ~exporting[u].acknowledged THEN NotExporting
                  ELSE [[exporting[u] EXCEPT !.pc = "totals"] EXCEPT !.prior = Prior]
  <2>2. exporting' = [exporting EXCEPT ![u] = x]
    BY <1>2 DEF FindPrior
  <2>3. Prior \in Nat
    BY <1>a, PriorIsId
  <2>4. x \in ExportRuns \cup {NotExporting}
    BY <2>1, <2>3 DEF ExportRuns
  <2>5. x # NotExporting => x.prior = Prior
    BY <2>1 DEF ExportRuns
  <2>6. exporting[u] # NotExporting
    BY <1>a, <2>1
  <2> HIDE DEF x
  <2>7. /\ exporting' \in [Exporters -> ExportRuns \cup {NotExporting}]
        /\ exporting'[u] = x
        /\ \A v \in Exporters : v # u => exporting'[v] = exporting[v]
    BY <1>a, <2>2, <2>4, RunMoved
  <2>8. ExportTypes' /\ OneRun'
    BY <1>a, <2>1, <2>6, <2>7 DEF ExportTypes, OneRun
  <2>9. PriorStands'
    BY <1>a, <2>1, <2>5, <2>7, PriorIsLast DEF PriorStands
  <2> QED
    BY <1>b, <2>1, <2>8, <2>9 DEF ExportInv
<1>3. ASSUME NEW u \in Exporters, CollectTotals(u) PROVE ExportInv'
  <2> DEFINE x == [exporting[u] EXCEPT !.pc = "record"]
  <2>1. exporting[u] \in ExportRuns /\ exporting[u].pc = "totals"
        /\ UNCHANGED <<exports, approved, crossed>>
    BY <1>3, <1>a DEF CollectTotals, ExportTypes
  <2>2. x \in ExportRuns /\ x.prior = exporting[u].prior /\ exporting' = [exporting EXCEPT ![u] = x]
    BY <1>3, <2>1 DEF CollectTotals, ExportRuns
  <2>3. exporting[u] # NotExporting
    BY <1>a, <2>1
  <2> HIDE DEF x
  <2>4. /\ exporting' \in [Exporters -> ExportRuns \cup {NotExporting}]
        /\ exporting'[u] = x
        /\ \A v \in Exporters : v # u => exporting'[v] = exporting[v]
    BY <1>a, <2>2, RunMoved
  <2>5. ExportTypes' /\ OneRun' /\ PriorStands'
    BY <1>a, <2>1, <2>2, <2>3, <2>4 DEF ExportTypes, OneRun, PriorStands
  <2> QED
    BY <1>b, <2>1, <2>5 DEF ExportInv
<1>4. ASSUME NEW u \in Exporters, ExportFails(u) PROVE ExportInv'
  <2>1. exporting' = [exporting EXCEPT ![u] = NotExporting]
        /\ UNCHANGED <<exports, approved, crossed>>
    BY <1>4 DEF ExportFails
  <2>2. /\ exporting' \in [Exporters -> ExportRuns \cup {NotExporting}]
        /\ exporting'[u] = NotExporting
        /\ \A v \in Exporters : v # u => exporting'[v] = exporting[v]
    BY <1>a, <2>1, RunMoved
  <2>3. ExportTypes' /\ OneRun' /\ PriorStands'
    BY <1>a, <2>1, <2>2 DEF ExportTypes, OneRun, PriorStands
  <2> QED
    BY <1>b, <2>1, <2>3 DEF ExportInv
<1>5. CASE ChangeEntries \/ UNCHANGED exportVars
  <2>1. UNCHANGED <<exports, exporting, crossed>> /\ approved' \in BOOLEAN
    BY <1>5, <1>a DEF ChangeEntries, exportVars, ExportTypes
  <2>2. ExportTypes' /\ OneRun' /\ PriorStands'
    BY <1>a, <2>1 DEF ExportTypes, OneRun, PriorStands
  <2> QED
    BY <1>b, <2>1, <2>2 DEF ExportInv
<1> QED
  BY <1>1, <1>2, <1>3, <1>4, <1>5, RecordExportStep DEF ExportNext

LEMMA ExportInvAlways == ExportSpec => []ExportInv
  BY ExportInvInit, ExportInvStep, PTL DEF ExportSpec

(* Of the exports of a period the last one is in force and the others are
   replaced, for any number of exporters whose runs do not overlap, and
   however many of the runs fail. *)
THEOREM LastExportInForce == ExportSpec => []OneExportInForce
<1>1. ExportInv => OneExportInForce
  BY DEF ExportInv
<1> QED
  BY <1>1, ExportInvAlways, PTL

-----------------------------------------------------------------------------
(* Reminders *)

SweepRows == [due : SUBSET Reminded, claimed : SUBSET Reminded]

SentRows == [who : Reminded, day : 1..ReminderDays, worker : Workers]

ReminderTypes ==
  /\ reminderDay \in 1..ReminderDays /\ missing \subseteq Reminded /\ claims \subseteq Claims
  /\ sweeps \in [Workers -> SweepRows] /\ autoSent \subseteq SentRows

ClaimOf(e) == [who |-> e, day |-> reminderDay]

ClaimsCapped == \A e \in Reminded : Cardinality(SentTo(e)) <= ReminderMax

(* Whoever was found due may still be claimed, or was claimed today. *)
DueFits ==
  \A w \in Workers : \A e \in sweeps[w].due :
    Cardinality(SentTo(e)) < ReminderMax \/ ClaimOf(e) \in claims

(* One worker holds the claim of today that it has not sent yet. *)
ClaimedUnsent ==
  \A w \in Workers : \A e \in sweeps[w].claimed :
    /\ ClaimOf(e) \in claims
    /\ \A m \in autoSent : ~(m.who = e /\ m.day = reminderDay)
    /\ \A v \in Workers : e \in sweeps[v].claimed => v = w

SentWasClaimed == \A m \in autoSent : [who |-> m.who, day |-> m.day] \in claims

SentOnce == \A m1, m2 \in autoSent : (m1.who = m2.who /\ m1.day = m2.day) => m1 = m2

ReminderInv ==
  /\ ReminderTypes /\ ClaimsCapped /\ DueFits /\ ClaimedUnsent /\ SentWasClaimed /\ SentOnce

(* An employee has a claim a day at most. *)
LEMMA ClaimsFinite ==
  ASSUME claims \subseteq Claims, NEW e \in Reminded
  PROVE  IsFiniteSet(SentTo(e)) /\ Cardinality(SentTo(e)) \in Nat
<1> DEFINE f == [c \in SentTo(e) |-> c.day]
<1>1. \A c \in SentTo(e) : c \in Claims /\ c.who = e
  BY DEF SentTo
<1>2. f \in [SentTo(e) -> 1..ReminderDays]
  BY <1>1 DEF Claims
<1>3. \A c, d \in SentTo(e) : c.day = d.day => c = d
  BY <1>1 DEF Claims
<1>4. f \in Injection(SentTo(e), 1..ReminderDays)
  BY <1>2, <1>3 DEF Injection, IsInjective
<1>5. IsFiniteSet(1..ReminderDays)
  BY FS_Interval, RemindersAssumption
<1> QED
  BY <1>4, <1>5, FS_Injection, FS_CardinalityType

(* The invariant implies the property: what was sent has a claim of its own. *)
LEMMA ReminderInvGives == ReminderInv => RemindersBounded
<1> SUFFICES ASSUME ReminderInv, NEW e \in Reminded
             PROVE  Cardinality({m \in autoSent : m.who = e}) <= ReminderMax
  BY DEF RemindersBounded, ReminderInv, SentOnce
<1> DEFINE sent == {m \in autoSent : m.who = e}
           f == [m \in sent |-> [who |-> m.who, day |-> m.day]]
<1>1. \A m \in sent : [who |-> m.who, day |-> m.day] \in SentTo(e)
  BY DEF ReminderInv, SentWasClaimed, SentTo
<1>2. f \in [sent -> SentTo(e)]
  BY <1>1
<1>3. ASSUME NEW m1 \in sent, NEW m2 \in sent, f[m1] = f[m2] PROVE m1 = m2
  <2>1. [who |-> m1.who, day |-> m1.day] = [who |-> m2.who, day |-> m2.day]
    BY <1>3
  <2>2. m1.who = m2.who /\ m1.day = m2.day
    BY <2>1
  <2> QED
    BY <2>2 DEF ReminderInv, SentOnce
<1>4. f \in Injection(sent, SentTo(e))
  BY <1>2, <1>3 DEF Injection, IsInjective
<1> HIDE DEF f, sent
<1>5. IsFiniteSet(SentTo(e)) /\ Cardinality(SentTo(e)) \in Nat
  BY ClaimsFinite DEF ReminderInv, ReminderTypes
<1>6. IsFiniteSet(sent) /\ Cardinality(sent) <= Cardinality(SentTo(e))
  BY <1>4, <1>5, FS_Injection
<1>7. Cardinality(sent) \in Nat
  BY <1>6, FS_CardinalityType
<1>8. Cardinality(sent) <= ReminderMax
  BY <1>5, <1>6, <1>7, RemindersAssumption DEF ReminderInv, ClaimsCapped
<1> QED
  BY <1>8 DEF sent

LEMMA ReminderInvInit == ReminderInit => ReminderInv
<1> SUFFICES ASSUME ReminderInit PROVE ReminderInv
  OBVIOUS
<1>1. NoSweep \in SweepRows /\ NoSweep.due = {} /\ NoSweep.claimed = {}
  BY DEF NoSweep, SweepRows
<1>2. ReminderTypes
  BY <1>1, RemindersAssumption DEF ReminderInit, ReminderTypes
<1>3. \A e \in Reminded : SentTo(e) = {}
  BY DEF ReminderInit, SentTo
<1>4. ClaimsCapped
  BY <1>3, FS_EmptySet, RemindersAssumption DEF ClaimsCapped
<1> QED
  BY <1>1, <1>2, <1>4
  DEF ReminderInit, ReminderInv, DueFits, ClaimedUnsent, SentWasClaimed, SentOnce

(* The job of a worker changes. *)
LEMMA SweepMoved ==
  ASSUME ReminderTypes, NEW w \in Workers, NEW x \in SweepRows,
         sweeps' = [sweeps EXCEPT ![w] = x]
  PROVE  /\ sweeps' \in [Workers -> SweepRows]
         /\ sweeps'[w] = x
         /\ \A v \in Workers : v # w => sweeps'[v] = sweeps[v]
BY DEF ReminderTypes

LEMMA StartSweepStep ==
  ASSUME ReminderInv, NEW w \in Workers, StartSweep(w)
  PROVE  ReminderInv'
<1> DEFINE x == [sweeps[w] EXCEPT !.due = Due]
<1>1. /\ ReminderTypes /\ ClaimsCapped /\ DueFits /\ ClaimedUnsent
      /\ UNCHANGED <<reminderDay, missing, claims, autoSent>>
  BY DEF ReminderInv, StartSweep
<1>2. sweeps[w] \in SweepRows /\ sweeps[w].claimed = {}
  BY <1>1 DEF StartSweep, Sweeping, ReminderTypes, NoSweep
<1>3. Due \in SUBSET Reminded /\ \A e \in Due : Cardinality(SentTo(e)) < ReminderMax
  BY <1>1 DEF Due, ReminderTypes
<1>4. x \in SweepRows /\ x.due = Due /\ x.claimed = {}
  BY <1>2, <1>3 DEF SweepRows
<1>5. sweeps' = [sweeps EXCEPT ![w] = x]
  BY DEF StartSweep
<1> HIDE DEF x
<1>6. /\ sweeps' \in [Workers -> SweepRows] /\ sweeps'[w] = x
      /\ \A v \in Workers : v # w => sweeps'[v] = sweeps[v]
  BY <1>1, <1>4, <1>5, SweepMoved
<1>7. \A e : SentTo(e)' = SentTo(e) /\ ClaimOf(e)' = ClaimOf(e)
  BY <1>1 DEF SentTo, ClaimOf
<1>8. ReminderTypes' /\ ClaimsCapped'
  BY <1>1, <1>6, <1>7 DEF ReminderTypes, ClaimsCapped
<1>9. DueFits'
  BY <1>1, <1>3, <1>4, <1>6, <1>7 DEF DueFits
<1>10. ClaimedUnsent'
  BY <1>1, <1>4, <1>6, <1>7 DEF ClaimedUnsent
<1> QED
  BY <1>1, <1>8, <1>9, <1>10 DEF ReminderInv, SentWasClaimed, SentOnce

(* The first claim of the day counts, and only if there is room for it. *)
LEMMA ClaimReminderStep ==
  ASSUME ReminderInv, NEW w \in Workers, NEW e \in Reminded, ClaimReminder(w, e)
  PROVE  ReminderInv'
<1> DEFINE c == ClaimOf(e)
           x == [due |-> sweeps[w].due \ {e}, claimed |-> IF c \in claims THEN {} ELSE {e}]
<1>1. /\ ReminderTypes /\ ClaimsCapped /\ DueFits /\ ClaimedUnsent /\ SentWasClaimed /\ SentOnce
      /\ UNCHANGED <<reminderDay, missing, autoSent>>
      /\ e \in sweeps[w].due /\ sweeps[w].claimed = {} /\ sweeps[w] \in SweepRows
  BY DEF ReminderInv, ClaimReminder, ReminderTypes
<1>2. claims' = claims \cup {c} /\ sweeps' = [sweeps EXCEPT ![w] = x]
  BY DEF ClaimReminder, ClaimOf
<1>3. c \in Claims /\ c.who = e /\ c.day = reminderDay
  BY <1>1 DEF ClaimOf, Claims, ReminderTypes
<1>4. x \in SweepRows /\ x.due \subseteq sweeps[w].due
      /\ x.claimed = IF c \in claims THEN {} ELSE {e}
  BY <1>1 DEF SweepRows
<1>5. ClaimOf(e)' = ClaimOf(e) /\ \A k : ClaimOf(k)' = ClaimOf(k)
  BY <1>1 DEF ClaimOf
<1>6. \A k : ClaimOf(k) = c => k = e
  BY DEF ClaimOf
<1>7. \A m \in autoSent : m.who = e /\ m.day = reminderDay => c \in claims
  BY <1>1 DEF SentWasClaimed, ClaimOf
<1> HIDE DEF x, c
<1>8. /\ sweeps' \in [Workers -> SweepRows] /\ sweeps'[w] = x
      /\ \A v \in Workers : v # w => sweeps'[v] = sweeps[v]
  BY <1>1, <1>2, <1>4, SweepMoved
<1>9. \A k \in Reminded : SentTo(k)' = IF k = e THEN SentTo(k) \cup {c} ELSE SentTo(k)
  BY <1>2, <1>3 DEF SentTo
<1>10. c \in SentTo(e) <=> c \in claims
  BY <1>3 DEF SentTo
<1>11. IsFiniteSet(SentTo(e)) /\ Cardinality(SentTo(e)) \in Nat
  BY <1>1, ClaimsFinite DEF ReminderTypes
<1>12. Cardinality(SentTo(e) \cup {c}) = IF c \in claims THEN Cardinality(SentTo(e))
                                         ELSE Cardinality(SentTo(e)) + 1
  BY <1>10, <1>11, FS_AddElement
<1>13. c \notin claims => Cardinality(SentTo(e)) < ReminderMax
  BY <1>1 DEF DueFits, c
<1>14. ReminderTypes'
  BY <1>1, <1>2, <1>3, <1>8 DEF ReminderTypes
<1>15. ClaimsCapped'
  <2> SUFFICES ASSUME NEW k \in Reminded PROVE Cardinality(SentTo(k)') <= ReminderMax
    BY DEF ClaimsCapped
  <2>1. CASE k = e
    <3>1. SentTo(k)' = SentTo(e) \cup {c}
      BY <1>9, <2>1
    <3>2. Cardinality(SentTo(e)) <= ReminderMax
      BY <1>1 DEF ClaimsCapped
    <3>3. Cardinality(SentTo(e) \cup {c}) <= ReminderMax
      BY <1>11, <1>12, <1>13, <3>2, RemindersAssumption
    <3> QED
      BY <3>1, <3>3
  <2>2. CASE k # e
    BY <1>1, <1>9, <2>2 DEF ClaimsCapped
  <2> QED
    BY <2>1, <2>2
<1>16. DueFits'
  <2> SUFFICES ASSUME NEW v \in Workers, NEW k \in sweeps'[v].due
               PROVE  Cardinality(SentTo(k)') < ReminderMax \/ ClaimOf(k)' \in claims'
    BY DEF DueFits
  <2>1. k \in sweeps[v].due /\ k \in Reminded
    BY <1>4, <1>8 DEF SweepRows
  <2>2. CASE k = e
    BY <1>2, <1>5, <2>2 DEF c
  <2>3. CASE k # e
    BY <1>1, <1>2, <1>5, <1>9, <2>1, <2>3 DEF DueFits
  <2> QED
    BY <2>2, <2>3
<1>17. ClaimedUnsent'
  <2> SUFFICES ASSUME NEW v \in Workers, NEW k \in sweeps'[v].claimed
               PROVE  /\ ClaimOf(k)' \in claims'
                      /\ \A m \in autoSent' : ~(m.who = k /\ m.day = reminderDay')
                      /\ \A u \in Workers : k \in sweeps'[u].claimed => u = v
    BY DEF ClaimedUnsent
  <2>1. CASE v = w
    <3>1. k = e /\ c \notin claims
      BY <1>4, <1>8, <2>1
    <3>2. \A u \in Workers : u # w => e \notin sweeps[u].claimed
      BY <1>1, <3>1 DEF ClaimedUnsent, c
    <3> QED
      BY <1>1, <1>2, <1>5, <1>7, <1>8, <2>1, <3>1, <3>2 DEF c
  <2>2. CASE v # w
    <3>1. k \in sweeps[v].claimed
      BY <1>8, <2>2
    <3>2. ClaimOf(k) \in claims
      BY <1>1, <3>1 DEF ClaimedUnsent
    <3>3. k \notin sweeps'[w].claimed
      BY <1>4, <1>8, <3>2 DEF c
    <3> QED
      BY <1>1, <1>2, <1>5, <1>8, <3>1, <3>3 DEF ClaimedUnsent
  <2> QED
    BY <2>1, <2>2
<1>18. SentWasClaimed' /\ SentOnce'
  BY <1>1, <1>2 DEF SentWasClaimed, SentOnce
<1> QED
  BY <1>14, <1>15, <1>16, <1>17, <1>18 DEF ReminderInv

(* What was claimed is handed on, or lost with the failure that is logged. *)
LEMMA RemindEmployeeStep ==
  ASSUME ReminderInv, NEW w \in Workers, RemindEmployee(w)
  PROVE  ReminderInv'
<1> DEFINE x == [sweeps[w] EXCEPT !.claimed = {}]
           new == {[who |-> e, day |-> reminderDay, worker |-> w] : e \in sweeps[w].claimed}
<1>1. /\ ReminderTypes /\ ClaimsCapped /\ DueFits /\ ClaimedUnsent /\ SentWasClaimed /\ SentOnce
      /\ UNCHANGED <<reminderDay, missing, claims>> /\ sweeps[w] \in SweepRows
  BY DEF ReminderInv, RemindEmployee, ReminderTypes
<1>2. sweeps' = [sweeps EXCEPT ![w] = x] /\ autoSent' \in {autoSent, autoSent \cup new}
  BY DEF RemindEmployee
<1>3. x \in SweepRows /\ x.due = sweeps[w].due /\ x.claimed = {}
  BY <1>1 DEF SweepRows
<1>4. \A m \in new : /\ m \in SentRows /\ m.who \in sweeps[w].claimed
                     /\ m.day = reminderDay /\ m.worker = w
                     /\ [who |-> m.who, day |-> m.day] \in claims
  BY <1>1 DEF SweepRows, SentRows, ReminderTypes, ClaimedUnsent, ClaimOf
<1>5. \A m1, m2 \in new : m1.who = m2.who => m1 = m2
  OBVIOUS
<1> HIDE DEF x, new
<1>6. /\ sweeps' \in [Workers -> SweepRows] /\ sweeps'[w] = x
      /\ \A v \in Workers : v # w => sweeps'[v] = sweeps[v]
  BY <1>1, <1>2, <1>3, SweepMoved
<1>7. \A e : SentTo(e)' = SentTo(e) /\ ClaimOf(e)' = ClaimOf(e)
  BY <1>1 DEF SentTo, ClaimOf
<1>8. \A m \in autoSent' : m \in autoSent \/ m \in new
  BY <1>2
<1>9. ReminderTypes' /\ ClaimsCapped'
  BY <1>1, <1>4, <1>6, <1>7, <1>8 DEF ReminderTypes, ClaimsCapped
<1>10. DueFits'
  BY <1>1, <1>3, <1>6, <1>7 DEF DueFits
<1>11. ClaimedUnsent'
  <2> SUFFICES ASSUME NEW v \in Workers, NEW k \in sweeps'[v].claimed
               PROVE  /\ ClaimOf(k)' \in claims'
                      /\ \A m \in autoSent' : ~(m.who = k /\ m.day = reminderDay')
                      /\ \A u \in Workers : k \in sweeps'[u].claimed => u = v
    BY DEF ClaimedUnsent
  <2>1. v # w /\ k \in sweeps[v].claimed
    BY <1>3, <1>6
  <2>2. k \notin sweeps[w].claimed
    BY <1>1, <2>1 DEF ClaimedUnsent
  <2>3. \A m \in new : m.who # k
    BY <1>4, <2>2
  <2> QED
    BY <1>1, <1>3, <1>6, <1>7, <1>8, <2>1, <2>3 DEF ClaimedUnsent
<1>12. SentWasClaimed'
  BY <1>1, <1>4, <1>8 DEF SentWasClaimed
<1>13. SentOnce'
  <2>1. \A m \in autoSent, n \in new : ~(m.who = n.who /\ m.day = n.day)
    BY <1>1, <1>4 DEF ClaimedUnsent
  <2> QED
    BY <1>1, <1>5, <1>8, <2>1 DEF SentOnce
<1> QED
  BY <1>9, <1>10, <1>11, <1>12, <1>13 DEF ReminderInv

LEMMA SweepDiesStep ==
  ASSUME ReminderInv, NEW w \in Workers, SweepDies(w)
  PROVE  ReminderInv'
<1>1. /\ ReminderTypes /\ ClaimsCapped /\ DueFits /\ ClaimedUnsent
      /\ UNCHANGED <<reminderDay, missing, claims, autoSent>>
      /\ sweeps' = [sweeps EXCEPT ![w] = NoSweep]
  BY DEF ReminderInv, SweepDies
<1>2. NoSweep \in SweepRows /\ NoSweep.due = {} /\ NoSweep.claimed = {}
  BY DEF NoSweep, SweepRows
<1>3. /\ sweeps' \in [Workers -> SweepRows] /\ sweeps'[w] = NoSweep
      /\ \A v \in Workers : v # w => sweeps'[v] = sweeps[v]
  BY <1>1, <1>2, SweepMoved
<1>4. \A e : SentTo(e)' = SentTo(e) /\ ClaimOf(e)' = ClaimOf(e)
  BY <1>1 DEF SentTo, ClaimOf
<1>5. ReminderTypes' /\ ClaimsCapped'
  BY <1>1, <1>3, <1>4 DEF ReminderTypes, ClaimsCapped
<1>6. DueFits' /\ ClaimedUnsent'
  BY <1>1, <1>2, <1>3, <1>4 DEF DueFits, ClaimedUnsent
<1> QED
  BY <1>1, <1>5, <1>6 DEF ReminderInv, SentWasClaimed, SentOnce

LEMMA FillDayStep ==
  ASSUME ReminderInv, NEW e \in Reminded, FillDay(e)
  PROVE  ReminderInv'
<1>1. missing' \subseteq Reminded /\ UNCHANGED <<reminderDay, claims, sweeps, autoSent>>
  BY DEF FillDay, ReminderInv, ReminderTypes
<1>2. \A k : SentTo(k)' = SentTo(k) /\ ClaimOf(k)' = ClaimOf(k)
  BY <1>1 DEF SentTo, ClaimOf
<1> QED
  BY <1>1, <1>2 DEF ReminderInv, ReminderTypes, ClaimsCapped, DueFits, ClaimedUnsent,
                    SentWasClaimed, SentOnce

(* No job is under way at midnight: nothing due or claimed is left over. *)
LEMMA ReminderNextDayStep ==
  ASSUME ReminderInv, ReminderNextDay
  PROVE  ReminderInv'
<1>1. /\ \A w \in Workers : sweeps[w].due = {} /\ sweeps[w].claimed = {}
      /\ UNCHANGED <<missing, claims, sweeps, autoSent>>
  BY DEF ReminderNextDay, Sweeping, NoSweep
<1>2. reminderDay' \in 1..ReminderDays
  BY RemindersAssumption DEF ReminderNextDay, ReminderInv, ReminderTypes
<1>3. \A k : SentTo(k)' = SentTo(k)
  BY <1>1 DEF SentTo
<1> QED
  BY <1>1, <1>2, <1>3 DEF ReminderInv, ReminderTypes, ClaimsCapped, DueFits, ClaimedUnsent,
                          SentWasClaimed, SentOnce

(* Every step of the workers, the employees and the clock keeps the invariant. *)
LEMMA ReminderInvStep == ReminderInv /\ [ReminderNext]_reminderVars => ReminderInv'
<1> SUFFICES ASSUME ReminderInv, [ReminderNext]_reminderVars PROVE ReminderInv'
  OBVIOUS
<1>1. ASSUME NEW w \in Workers, StartSweep(w) PROVE ReminderInv'
  BY <1>1, StartSweepStep
<1>2. ASSUME NEW w \in Workers, NEW e \in Reminded, ClaimReminder(w, e) PROVE ReminderInv'
  BY <1>2, ClaimReminderStep
<1>3. ASSUME NEW w \in Workers, RemindEmployee(w) PROVE ReminderInv'
  BY <1>3, RemindEmployeeStep
<1>4. ASSUME NEW w \in Workers, SweepDies(w) PROVE ReminderInv'
  BY <1>4, SweepDiesStep
<1>5. ASSUME NEW e \in Reminded, FillDay(e) PROVE ReminderInv'
  BY <1>5, FillDayStep
<1>6. CASE ReminderNextDay
  BY <1>6, ReminderNextDayStep
<1>7. CASE UNCHANGED reminderVars
  <2>1. \A k : SentTo(k)' = SentTo(k) /\ ClaimOf(k)' = ClaimOf(k)
    BY <1>7 DEF reminderVars, SentTo, ClaimOf
  <2> QED
    BY <1>7, <2>1 DEF reminderVars, ReminderInv, ReminderTypes, ClaimsCapped, DueFits,
                      ClaimedUnsent, SentWasClaimed, SentOnce
<1> QED
  BY <1>1, <1>2, <1>3, <1>4, <1>5, <1>6, <1>7 DEF ReminderNext

LEMMA ReminderInvAlways == ReminderSpec => []ReminderInv
<1>1. ReminderInit => ReminderInv
  BY ReminderInvInit
<1>2. ReminderInv /\ [ReminderNext]_reminderVars => ReminderInv'
  BY ReminderInvStep
<1> QED
  BY <1>1, <1>2, PTL DEF ReminderSpec

(* However many workers run the hourly job at once, and stop in the middle of
   it and run it again, an employee gets one automatic reminder a day and never
   more of them than the company allows: the unique index of the claims
   decides, and the cap was read before the claim. *)
THEOREM RemindersStayBounded == ReminderSpec => []RemindersBounded
<1>1. ReminderInv => RemindersBounded
  BY ReminderInvGives
<1> QED
  BY <1>1, ReminderInvAlways, PTL

-----------------------------------------------------------------------------
(* Badges *)

(* What FOR UPDATE gives: no two jobs hold an employee's row. *)
RowHeldOnce ==
  \A p, q \in Printers : \A c \in print[p].cards, d \in print[q].cards : c.who = d.who => p = q

BadgeColumns == badge \in [Bearers -> [version : Nat, revoked : BOOLEAN]]

PrintJobs == print \in [Printers -> [left : Seq(Bearers), out : SUBSET Bearers, cards : SUBSET Card]]

BadgeInv ==
  /\ BadgeColumns /\ PrintJobs /\ employed \subseteq Bearers
  /\ CardsAreNew /\ RowHeldOnce

LEMMA BadgeInvInit == BadgeInit => BadgeInv
<1> SUFFICES ASSUME BadgeInit PROVE BadgeInv
  OBVIOUS
<1>1. NoPrint \in [left : Seq(Bearers), out : SUBSET Bearers, cards : SUBSET Card]
  BY DEF NoPrint
<1>2. \A p \in Printers : print[p].cards = {}
  BY DEF BadgeInit, NoPrint
<1> QED
  BY <1>1, <1>2
  DEF BadgeInit, BadgeInv, BadgeColumns, PrintJobs, CardsAreNew, RowHeldOnce

(* A job that is given up, or whose list is chosen, holds no card. *)
LEMMA EmptiedJob ==
  ASSUME BadgeInv, NEW p \in Printers, NEW list \in Seq(Bearers), NEW out \in SUBSET Bearers,
         print' = [print EXCEPT ![p] = [left |-> list, out |-> out, cards |-> {}]],
         UNCHANGED <<badge, employed>>
  PROVE  BadgeInv'
<1> USE DEF BadgeInv, BadgeColumns, PrintJobs
<1> DEFINE job == [left |-> list, out |-> out, cards |-> {}]
<1>0. job \in [left : Seq(Bearers), out : SUBSET Bearers, cards : SUBSET Card]
  OBVIOUS
<1> HIDE DEF job
<1>1. /\ PrintJobs'
      /\ print'[p] = job
      /\ \A q \in Printers \ {p} : print'[q] = print[q]
  BY <1>0 DEF job
<1>4. print'[p].cards = {}
  BY <1>1 DEF job
<1>2. CardsAreNew'
  BY <1>1, <1>4 DEF CardsAreNew
<1>3. RowHeldOnce'
  BY <1>1, <1>4 DEF RowHeldOnce
<1> QED
  BY <1>1, <1>2, <1>3

(* Every step of a print job, and every change of an employee, keeps the
   invariant. *)
LEMMA BadgeInvStep == BadgeInv /\ [BadgeNext]_badgeVars => BadgeInv'
<1> SUFFICES ASSUME BadgeInv, [BadgeNext]_badgeVars PROVE BadgeInv'
  OBVIOUS
<1> DEFINE Job == [left : Seq(Bearers), out : SUBSET Bearers, cards : SUBSET Card]
<1>9. /\ badge \in [Bearers -> [version : Nat, revoked : BOOLEAN]]
      /\ print \in [Printers -> Job] /\ employed \subseteq Bearers
      /\ CardsAreNew /\ RowHeldOnce
  BY DEF BadgeInv, BadgeColumns, PrintJobs
<1>1. ASSUME NEW p \in Printers, NEW sheet \in Sheets, PrintSheet(p, sheet) PROVE BadgeInv'
  <2>1. sheet \in Seq(Bearers)
    BY BadgesAssumption
  <2>3. print' = [print EXCEPT ![p] = [left |-> sheet, out |-> Bearers \ employed, cards |-> {}]]
    BY <1>1 DEF PrintSheet
  <2>4. UNCHANGED <<badge, employed>> /\ Bearers \ employed \in SUBSET Bearers
    BY <1>1 DEF PrintSheet
  <2> QED
    BY <2>1, <2>3, <2>4, EmptiedJob
<1>8. ASSUME NEW p \in Printers, SkipNext(p) PROVE BadgeInv'
  <2> DEFINE job == [left |-> Tail(print[p].left), out |-> print[p].out, cards |-> print[p].cards]
  <2>1. print[p] \in Job /\ print[p].left # <<>>
    BY <1>8, <1>9 DEF SkipNext
  <2>2. Tail(print[p].left) \in Seq(Bearers)
    BY <2>1
  <2>3. job \in Job /\ job.cards = print[p].cards
    BY <2>1, <2>2
  <2>4. print' = [print EXCEPT ![p] = job]
    BY <1>8 DEF SkipNext
  <2> HIDE DEF job
  <2>5. /\ PrintJobs'
        /\ \A q \in Printers : print'[q].cards = print[q].cards
    BY <1>9, <2>3, <2>4 DEF PrintJobs
  <2>6. badge' = badge /\ employed' = employed
    BY <1>8 DEF SkipNext
  <2>7. CardsAreNew'
    BY <1>9, <2>5, <2>6 DEF CardsAreNew
  <2>8. RowHeldOnce'
    BY <1>9, <2>5 DEF RowHeldOnce
  <2> QED
    BY <1>9, <2>5, <2>6, <2>7, <2>8 DEF BadgeInv, BadgeColumns
<1>2. ASSUME NEW p \in Printers, IssueNext(p) PROVE BadgeInv'
  <2> DEFINE e == Head(print[p].left)
             card == [who |-> e, version |-> badge[e].version + 1]
             job == [left |-> Tail(print[p].left), out |-> print[p].out,
                     cards |-> print[p].cards \cup {card}]
  <2>0. print[p] \in Job /\ print[p].left # <<>>
    BY <1>2, <1>9 DEF IssueNext
  <2>1. e \in Bearers /\ Tail(print[p].left) \in Seq(Bearers)
    BY <2>0
  <2>2. card \in Card
    BY <1>9, <2>1 DEF Card
  <2>3. CASE e \in employed
    <3>1. print' = [print EXCEPT ![p] = job]
      BY <1>2, <2>3 DEF IssueNext, AfterNext
    <3>2. job \in Job /\ job.cards = print[p].cards \cup {card}
      BY <2>0, <2>1, <2>2
    <3>3. card.who = e /\ card.version = badge[e].version + 1
      OBVIOUS
    <3>4. \A q \in Printers \ {p} : ~Holds(q, e)
      BY <1>2 DEF IssueNext
    <3>5. badge' = badge /\ employed' = employed
      BY <1>2 DEF IssueNext
    <3> HIDE DEF e, card, job
    <3>6. /\ PrintJobs'
          /\ print'[p].cards = print[p].cards \cup {card}
          /\ \A q \in Printers \ {p} : print'[q] = print[q]
      BY <1>9, <3>1, <3>2 DEF PrintJobs
    <3>7. CardsAreNew'
      BY <1>9, <3>3, <3>5, <3>6 DEF CardsAreNew
    <3>8. RowHeldOnce'
      <4>1. \A q \in Printers \ {p} : \A d \in print[q].cards : d.who # e
        BY <3>4 DEF Holds
      <4>2. ASSUME NEW q \in Printers, NEW r \in Printers,
                   NEW c \in print'[q].cards, NEW d \in print'[r].cards, c.who = d.who
            PROVE  q = r
        <5>1. CASE q = p /\ r = p
          BY <5>1
        <5>2. CASE q # p /\ r # p
          BY <1>9, <3>6, <4>2, <5>2 DEF RowHeldOnce
        <5>3. CASE q = p /\ r # p
          BY <1>9, <3>3, <3>6, <4>1, <4>2, <5>3 DEF RowHeldOnce
        <5>4. CASE q # p /\ r = p
          BY <1>9, <3>3, <3>6, <4>1, <4>2, <5>4 DEF RowHeldOnce
        <5> QED
          BY <5>1, <5>2, <5>3, <5>4
      <4> QED
        BY <4>2 DEF RowHeldOnce
    <3> QED
      BY <1>9, <3>5, <3>6, <3>7, <3>8 DEF BadgeInv, BadgeColumns
  <2>4. CASE e \notin employed
    <3>1. print' = [print EXCEPT ![p] = [left |-> <<>>, out |-> {}, cards |-> {}]]
      BY <1>2, <2>4 DEF IssueNext, AfterNext, NoPrint
    <3>2. <<>> \in Seq(Bearers) /\ {} \in SUBSET Bearers /\ UNCHANGED <<badge, employed>>
      BY <1>2 DEF IssueNext
    <3> QED
      BY <3>1, <3>2, EmptiedJob
  <2> QED
    BY <2>3, <2>4
<1>3. ASSUME NEW p \in Printers, CommitSheet(p) PROVE BadgeInv'
  <2> DEFINE chosen(e) == CHOOSE c \in print[p].cards : c.who = e
  <2>1. \A e \in Bearers : Holds(p, e) => chosen(e) \in print[p].cards
    BY DEF Holds
  <2>2. \A e \in Bearers : Holds(p, e) => chosen(e).version \in Nat
    BY <1>9, <2>1 DEF Card
  <2>0. badge' = [e \in Bearers |-> IF Holds(p, e)
                                    THEN [version |-> chosen(e).version, revoked |-> FALSE]
                                    ELSE badge[e]]
    BY <1>3 DEF CommitSheet
  <2> HIDE DEF chosen
  <2>3. BadgeColumns'
    BY <1>9, <2>0, <2>2 DEF BadgeColumns
  <2>4. \A e \in Bearers : ~Holds(p, e) => badge'[e] = badge[e]
    BY <2>0
  <2>9. NoPrint \in Job /\ NoPrint.cards = {}
    BY DEF NoPrint
  <2>5. /\ PrintJobs'
        /\ print'[p].cards = {}
        /\ \A q \in Printers \ {p} : print'[q] = print[q]
    BY <1>3, <1>9, <2>9 DEF CommitSheet, PrintJobs
  <2>6. ASSUME NEW q \in Printers \ {p}, NEW c \in print[q].cards
        PROVE  c.version = badge'[c.who].version + 1
    <3>1. c.who \in Bearers /\ Holds(q, c.who)
      BY <1>9 DEF Card, Holds
    <3>2. ~Holds(p, c.who)
      BY <1>9, <3>1 DEF RowHeldOnce, Holds
    <3> QED
      BY <1>9, <2>4, <3>1, <3>2 DEF CardsAreNew
  <2>7. CardsAreNew'
    BY <2>5, <2>6 DEF CardsAreNew
  <2>8. RowHeldOnce'
    BY <1>9, <2>5 DEF RowHeldOnce
  <2> QED
    BY <1>3, <1>9, <2>3, <2>5, <2>7, <2>8 DEF CommitSheet, BadgeInv
<1>4. ASSUME NEW p \in Printers, print' = [print EXCEPT ![p] = NoPrint],
             UNCHANGED <<badge, employed>>
      PROVE  BadgeInv'
  <2>1. print' = [print EXCEPT ![p] = [left |-> <<>>, out |-> {}, cards |-> {}]]
    BY <1>4 DEF NoPrint
  <2>2. <<>> \in Seq(Bearers) /\ {} \in SUBSET Bearers
    OBVIOUS
  <2> QED
    BY <1>4, <2>1, <2>2, EmptiedJob
<1>5. ASSUME NEW e \in Bearers, RevokeBadge(e) PROVE BadgeInv'
  <2>1. \A x \in Bearers : badge'[x].version = badge[x].version
    BY <1>5, <1>9 DEF RevokeBadge
  <2>2. \A q \in Printers : \A c \in print[q].cards : c.who \in Bearers
    BY <1>9 DEF Card
  <2>3. CardsAreNew'
    BY <1>5, <1>9, <2>1, <2>2 DEF RevokeBadge, CardsAreNew
  <2> QED
    BY <1>5, <1>9, <2>3
    DEF RevokeBadge, BadgeInv, BadgeColumns, PrintJobs, RowHeldOnce
<1>6. ASSUME NEW e \in Bearers, SetStatus(e) PROVE BadgeInv'
  BY <1>6, <1>9
  DEF SetStatus, BadgeInv, BadgeColumns, PrintJobs, CardsAreNew, RowHeldOnce
<1>7. CASE UNCHANGED badgeVars
  BY <1>7, <1>9
  DEF badgeVars, BadgeInv, BadgeColumns, PrintJobs, CardsAreNew, RowHeldOnce
<1> QED
  BY <1>1, <1>2, <1>3, <1>4, <1>5, <1>6, <1>7, <1>8 DEF BadgeNext, DeadlockAborts, PrintFails

(* The invariant holds in every reachable state. *)
LEMMA BadgeInvAlways == BadgeSpec => []BadgeInv
  BY BadgeInvInit, BadgeInvStep, PTL DEF BadgeSpec

(* Whatever sheets are printed at once, a card carries the version after its
   employee's badge of that moment. *)
THEOREM CardsAlwaysNew == BadgeSpec => []CardsAreNew
<1>1. BadgeInv => CardsAreNew
  BY DEF BadgeInv
<1> QED
  BY <1>1, BadgeInvAlways, PTL

-----------------------------------------------------------------------------
(* Pay periods *)

(* A multiple that is later is later by a whole one. *)
LEMMA NextMultiple ==
  ASSUME NEW p \in Int, NEW q \in Int, NEW n \in Nat, p < q
  PROVE  p * n + n <= q * n
<1>1. PICK d \in Nat : q = p + 1 + d
  <2>1. q - p - 1 \in Nat
    OBVIOUS
  <2> QED
    BY <2>1
<1>2. q * n = p * n + n + d * n /\ d * n \in Nat /\ p * n \in Int
  BY <1>1
<1> QED
  BY <1>2

(* Rounding down a time that is a unit or none short of whole days. *)
LEMMA WholeDays ==
  ASSUME NEW d \in Int, NEW s \in {-1, 0, 1}, NEW n \in Nat \ {0, 1}
  PROVE  (d * n - s) \div n = IF s = 1 THEN d - 1 ELSE d
<1>1. PICK x \in Int : x = d * n - s
  OBVIOUS
<1>2. PICK q \in Int : q = x \div n
  BY <1>1
<1>3. q * n <= x /\ x < q * n + n
  <2>1. x = n * (x \div n) + (x % n) /\ x % n \in 0..(n - 1)
    BY <1>1
  <2> QED
    BY <1>1, <1>2, <2>1
<1>4. PICK a, b : a = q * n /\ b = d * n
  OBVIOUS
<1>5. a \in Int /\ b \in Int /\ a <= b - s /\ b - s < a + n
  BY <1>1, <1>2, <1>3, <1>4
<1>6. CASE s = 1
  <2>1. d - 1 \in Int /\ (d - 1) * n = b - n
    BY <1>4
  <2>2. ~(q < d - 1)
    <3>1. q < d - 1 => a + n <= b - n
      BY <1>4, <2>1, NextMultiple
    <3> QED
      BY <1>5, <1>6, <3>1
  <2>3. ~(d - 1 < q)
    <3>1. d - 1 < q => b - n + n <= a
      BY <1>4, <2>1, NextMultiple
    <3> QED
      BY <1>5, <1>6, <3>1
  <2> QED
    BY <1>1, <1>2, <1>6, <2>2, <2>3
<1>7. CASE s # 1
  <2>1. ~(q < d)
    <3>1. q < d => a + n <= b
      BY <1>4, NextMultiple
    <3> QED
      BY <1>5, <1>7, <3>1
  <2>2. ~(d < q)
    <3>1. d < q => b + n <= a
      BY <1>4, NextMultiple
    <3> QED
      BY <1>5, <1>7, <3>1
  <2> QED
    BY <1>1, <1>2, <1>7, <2>1, <2>2
<1> QED
  BY <1>6, <1>7

Summer(d) == IF d \in (Spring + 1)..Fall THEN 1 ELSE 0

(* A day ends when the next one begins. *)
LEMMA MidnightGrows ==
  ASSUME NEW d \in Int, NEW e \in Int, d < e
  PROVE  Midnight(d) \in Int /\ Midnight(e) \in Int /\ Midnight(d) < Midnight(e)
<1>1. PICK a, b : a = d * DayLength /\ b = e * DayLength
  OBVIOUS
<1>2. a \in Int /\ b \in Int /\ a + DayLength <= b
  BY <1>1, NextMultiple, PayPeriodsAssumption
<1> QED
  BY <1>1, <1>2, PayPeriodsAssumption DEF Midnight

LEMMA MidnightIsInt == ASSUME NEW d \in Int PROVE Midnight(d) \in Int
BY MidnightGrows, d + 1 \in Int, d < d + 1

(* isoDateInTz of a day's midnight is the day. *)
LEMMA CivilDayOfMidnight ==
  ASSUME NEW d \in Int
  PROVE  CivilDay(Midnight(d)) = d
<1>1. PICK x \in Int : x = Midnight(d)
  BY MidnightIsInt
<1>2. x \div DayLength = d \/ x \div DayLength = d - 1
  <2>1. Summer(d) \in {-1, 0, 1} /\ x = d * DayLength - Summer(d)
    BY <1>1, PayPeriodsAssumption DEF Summer, Midnight
  <2> QED
    BY <2>1, WholeDays, PayPeriodsAssumption
<1>3. d \in (x \div DayLength - 1)..(x \div DayLength + 1)
  BY <1>2
<1>4. Midnight(d) <= x /\ x < Midnight(d + 1)
  BY <1>1, MidnightGrows, d + 1 \in Int, d < d + 1
<1>5. ASSUME NEW e \in Int, Midnight(e) <= x, x < Midnight(e + 1)
      PROVE  e = d
  <2>1. ~(d < e)
    BY <1>1, <1>5, MidnightGrows
  <2>2. ~(e < d)
    <3>1. ASSUME e < d PROVE FALSE
      <4>1. e + 1 \in Int /\ (e + 1 = d \/ e + 1 < d)
        BY <3>1
      <4>2. Midnight(e + 1) <= x
        BY <1>1, <4>1, MidnightGrows
      <4>3. Midnight(e + 1) \in Int
        BY <4>1, MidnightIsInt
      <4> QED
        BY <1>5, <4>2, <4>3
    <3> QED
      BY <3>1
  <2> QED
    BY <2>1, <2>2
<1>6. \A e \in (x \div DayLength - 1)..(x \div DayLength + 1) : e \in Int
  BY <1>2
<1>7. PICK D : D = (x \div DayLength - 1)..(x \div DayLength + 1)
  OBVIOUS
<1>8. (CHOOSE e \in D : Midnight(e) <= x /\ x < Midnight(e + 1)) = d
  BY <1>3, <1>4, <1>5, <1>6, <1>7
<1> QED
  BY <1>1, <1>7, <1>8, Zenon DEF CivilDay

(* addDaysInTz counts civil days, whatever the clock did in between. *)
LEMMA AddedDays ==
  ASSUME NEW d \in Int, NEW n \in Int
  PROVE  AddDays(Midnight(d), n) = Midnight(d + n)
BY CivilDayOfMidnight DEF AddDays

-----------------------------------------------------------------------------
(* Where the four kinds of period begin and end, as days *)

(* The period from one day's midnight to another's. *)
Days(first, next) == [start |-> Midnight(first), end |-> Midnight(next)]

WeekDay(d, w) == d - ((d - w) % 7)

LEMMA WeekContainsDay ==
  ASSUME NEW d \in Int, NEW w \in 0..6
  PROVE  WeekDay(d, w) \in Int /\ WeekDay(d, w) <= d /\ d < WeekDay(d, w) + 7
BY DEF WeekDay

LEMMA WeekOfNextDay ==
  ASSUME NEW d \in Int, NEW w \in 0..6
  PROVE  WeekDay(d + 1, w) \in {WeekDay(d, w), WeekDay(d, w) + 7}
BY DEF WeekDay

LEMMA WeeklyDays ==
  ASSUME NEW d \in Int, NEW cal, cal.weekStartDay \in 0..6
  PROVE  Weekly(d, cal) = Days(WeekDay(d, cal.weekStartDay), WeekDay(d, cal.weekStartDay) + 7)
<1>1. PICK a : a = WeekDay(d, cal.weekStartDay)
  OBVIOUS
<1>2. a \in Int
  BY <1>1, WeekContainsDay
<1>3. WorkWeekStart(d, cal.weekStartDay) = Midnight(a)
  BY <1>1 DEF WorkWeekStart, WeekDay
<1>4. AddDays(Midnight(a), 7) = Midnight(a + 7)
  BY <1>2, AddedDays
<1> QED
  BY <1>1, <1>3, <1>4 DEF Weekly, Days

(* The days from the anchor's week to a day, as the code counts them: in
   summer time from an anchor before it, one too few. *)
Elapsed(d, a) == d - a - (IF Summer(d) - Summer(a) = 1 THEN 1 ELSE 0)

Fortnight(d, a) == a + (Elapsed(d, a) \div 14) * 14

LEMMA BiWeeklyDays ==
  ASSUME NEW d \in Int, NEW cal, cal.weekStartDay \in 0..6, cal.anchor \in Int,
         NEW a, a = WeekDay(cal.anchor, cal.weekStartDay)
  PROVE  a \in Int /\ BiWeekly(d, cal) = Days(Fortnight(d, a), Fortnight(d, a) + 14)
<1>1. a \in Int
  BY WeekContainsDay
<1>2. WorkWeekStart(cal.anchor, cal.weekStartDay) = Midnight(a)
  BY DEF WorkWeekStart, WeekDay
<1>3. (Midnight(d) - Midnight(a)) \div DayLength = Elapsed(d, a)
  <2>1. PICK s \in {-1, 0, 1} : s = Summer(d) - Summer(a)
    BY DEF Summer
  <2>2. PICK p, q : p = d * DayLength /\ q = a * DayLength
    OBVIOUS
  <2>3. p \in Int /\ q \in Int /\ (d - a) * DayLength = p - q
    BY <1>1, <2>2, PayPeriodsAssumption
  <2>4. Midnight(d) = p - Summer(d) /\ Midnight(a) = q - Summer(a)
    BY <2>2 DEF Midnight, Summer
  <2>5. Summer(d) \in Int /\ Summer(a) \in Int
    BY DEF Summer
  <2>6. Midnight(d) - Midnight(a) = (d - a) * DayLength - s
    BY <2>1, <2>3, <2>4, <2>5
  <2>7. d - a \in Int
    BY <1>1
  <2>8. ((d - a) * DayLength - s) \div DayLength = IF s = 1 THEN d - a - 1 ELSE d - a
    BY <2>7, WholeDays, PayPeriodsAssumption
  <2> QED
    BY <1>1, <2>1, <2>6, <2>8 DEF Elapsed
<1>4. PICK f \in Int : f = Fortnight(d, a)
  BY <1>1 DEF Fortnight, Elapsed
<1>5. PICK k \in Int : k = (Elapsed(d, a) \div 14) * 14 /\ f = a + k
  BY <1>1, <1>4 DEF Fortnight, Elapsed
<1>6. AddDays(Midnight(a), k) = Midnight(f) /\ AddDays(Midnight(f), 14) = Midnight(f + 14)
  BY <1>1, <1>4, <1>5, AddedDays
<1> QED
  BY <1>1, <1>2, <1>3, <1>4, <1>5, <1>6, Zenon DEF BiWeekly, Days

LEMMA FortnightOfNextDay ==
  ASSUME NEW d \in Int, NEW a \in Int
  PROVE  Fortnight(d + 1, a) \in {Fortnight(d, a), Fortnight(d, a) + 14}
<1>1. PICK x, y \in Int : x = Elapsed(d, a) /\ y = Elapsed(d + 1, a)
  <2>1. \A e \in Int : Elapsed(e, a) \in Int
    BY DEF Elapsed
  <2>2. d + 1 \in Int
    OBVIOUS
  <2> QED
    BY <2>1, <2>2
<1>2. y - x \in 0..2
  BY <1>1 DEF Elapsed, Summer
<1>3. y \div 14 = x \div 14 \/ y \div 14 = (x \div 14) + 1
  BY <1>2
<1> QED
  BY <1>1, <1>3 DEF Fortnight

(* The month of a day, and the next. *)
LEMMA MonthOfDay ==
  ASSUME NEW d \in 0..LastDay
  PROVE  /\ MonthStart(d) \in Int /\ NextMonth(MonthStart(d)) \in Int
         /\ MonthStart(d) <= d /\ d < NextMonth(MonthStart(d))
         /\ NextMonth(MonthStart(d)) - MonthStart(d) \in 28..31
         /\ MonthStart(d) \in MonthStarts /\ NextMonth(MonthStart(d)) \in MonthStarts
         /\ \A m2 \in MonthStarts : m2 <= MonthStart(d) \/ NextMonth(MonthStart(d)) <= m2
<1>1. PICK m \in MonthStarts, next \in MonthStarts :
        /\ m <= d /\ d < next /\ next - m \in 28..31
        /\ \A m2 \in MonthStarts : m2 <= m \/ next <= m2
  BY MonthsAssumption
<1>2. d \in Int /\ m \in Int /\ next \in Int /\ \A m2 \in MonthStarts : m2 \in Int
  BY MonthsAssumption
<1>3. MonthStart(d) = m
  <2>1. m <= d /\ \A m2 \in MonthStarts : m2 <= d => m2 <= m
    BY <1>1, <1>2
  <2>2. ASSUME NEW c \in MonthStarts, c <= d, \A m2 \in MonthStarts : m2 <= d => m2 <= c
        PROVE  c = m
    BY <1>2, <2>1, <2>2
  <2> QED
    BY <2>1, <2>2 DEF MonthStart
<1>4. NextMonth(m) = next
  <2>1. next > m /\ \A m3 \in MonthStarts : m3 > m => next <= m3
    BY <1>1, <1>2
  <2>2. ASSUME NEW c \in MonthStarts, c > m, \A m3 \in MonthStarts : m3 > m => c <= m3
        PROVE  c = next
    BY <1>2, <2>1, <2>2
  <2> QED
    BY <2>1, <2>2 DEF NextMonth
<1> QED
  BY <1>1, <1>2, <1>3, <1>4

(* The next day is in the same month, or begins the next. *)
LEMMA MonthOfNextDay ==
  ASSUME NEW d \in 0..LastDay, d + 1 \in 0..LastDay
  PROVE  \/ MonthStart(d + 1) = MonthStart(d)
         \/ MonthStart(d + 1) = d + 1 /\ NextMonth(MonthStart(d)) = d + 1
<1>1. PICK m, n, p, q :
        /\ m = MonthStart(d) /\ n = NextMonth(m)
        /\ p = MonthStart(d + 1) /\ q = NextMonth(p)
  OBVIOUS
<1>2. /\ m \in Int /\ n \in Int /\ m <= d /\ d < n
      /\ m \in MonthStarts /\ n \in MonthStarts
      /\ \A m2 \in MonthStarts : m2 <= m \/ n <= m2
  BY <1>1, MonthOfDay
<1>3. /\ p \in Int /\ q \in Int /\ p <= d + 1 /\ d + 1 < q
      /\ p \in MonthStarts /\ q \in MonthStarts
      /\ \A m2 \in MonthStarts : m2 <= p \/ q <= m2
  BY <1>1, MonthOfDay
<1>4. p <= m \/ n <= p
  BY <1>2, <1>3
<1>5. m <= p
  BY <1>2, <1>3
<1> QED
  BY <1>1, <1>2, <1>3, <1>4, <1>5

(* A half of a month, as days. *)
HalfStart(d) == IF d - MonthStart(d) < 15 THEN MonthStart(d) ELSE MonthStart(d) + 15

HalfEnd(d) == IF d - MonthStart(d) < 15 THEN MonthStart(d) + 15 ELSE NextMonth(MonthStart(d))

LEMMA SemiMonthlyDays ==
  ASSUME NEW d \in 0..LastDay
  PROVE  SemiMonthly(d) = Days(HalfStart(d), HalfEnd(d))
<1>1. PICK m : m = MonthStart(d)
  OBVIOUS
<1>2. m \in Int
  BY <1>1, MonthOfDay
<1>3. AddDays(Midnight(m), 15) = Midnight(m + 15)
  BY <1>2, AddedDays
<1> QED
  BY <1>1, <1>3 DEF SemiMonthly, Days, HalfStart, HalfEnd

LEMMA MonthlyDays ==
  ASSUME NEW d
  PROVE  Monthly(d) = Days(MonthStart(d), NextMonth(MonthStart(d)))
BY DEF Monthly, Days

-----------------------------------------------------------------------------
(* What resolves for a day, and for the next *)

LEMMA Resolved ==
  ASSUME NEW d \in 0..LastDay, NEW cal \in Calendars
  PROVE  /\ cal.type \in {"weekly", "bi_weekly", "semi_monthly", "monthly"}
         /\ cal.weekStartDay \in 0..6 /\ cal.anchor \in Int
         /\ cal.type = "weekly" => ResolvePayPeriod(d, cal) = Weekly(d, cal)
         /\ cal.type = "bi_weekly" => ResolvePayPeriod(d, cal) = BiWeekly(d, cal)
         /\ cal.type = "semi_monthly" => ResolvePayPeriod(d, cal) = SemiMonthly(d)
         /\ cal.type = "monthly" => ResolvePayPeriod(d, cal) = Monthly(d)
BY PayPeriodsAssumption DEF ResolvePayPeriod

(* From a day to the next the period stays, or the next one begins. *)
LEMMA PeriodOfNextDay ==
  ASSUME NEW d \in 0..LastDay, d + 1 \in 0..LastDay, NEW cal \in Calendars
  PROVE  \/ ResolvePayPeriod(d + 1, cal) = ResolvePayPeriod(d, cal)
         \/ ResolvePayPeriod(d + 1, cal).start = ResolvePayPeriod(d, cal).end
<1>1. d \in Int /\ d + 1 \in Int
  OBVIOUS
<1>2. CASE cal.type = "weekly"
  <2>1. PICK w \in 0..6 : w = cal.weekStartDay
    BY Resolved
  <2>2. /\ ResolvePayPeriod(d, cal) = Days(WeekDay(d, w), WeekDay(d, w) + 7)
        /\ ResolvePayPeriod(d + 1, cal) = Days(WeekDay(d + 1, w), WeekDay(d + 1, w) + 7)
    BY <1>1, <1>2, <2>1, Resolved, WeeklyDays
  <2>3. WeekDay(d + 1, w) = WeekDay(d, w) \/ WeekDay(d + 1, w) = WeekDay(d, w) + 7
    BY <1>1, WeekOfNextDay
  <2> QED
    BY <2>2, <2>3 DEF Days
<1>3. CASE cal.type = "bi_weekly"
  <2>1. PICK a : a = WeekDay(cal.anchor, cal.weekStartDay)
    OBVIOUS
  <2>2. /\ a \in Int
        /\ ResolvePayPeriod(d, cal) = Days(Fortnight(d, a), Fortnight(d, a) + 14)
        /\ ResolvePayPeriod(d + 1, cal) = Days(Fortnight(d + 1, a), Fortnight(d + 1, a) + 14)
    BY <1>1, <1>3, <2>1, Resolved, BiWeeklyDays
  <2>3. Fortnight(d + 1, a) = Fortnight(d, a) \/ Fortnight(d + 1, a) = Fortnight(d, a) + 14
    BY <1>1, <2>2, FortnightOfNextDay
  <2> QED
    BY <2>2, <2>3 DEF Days
<1>4. CASE cal.type = "semi_monthly"
  <2>1. /\ ResolvePayPeriod(d, cal) = Days(HalfStart(d), HalfEnd(d))
        /\ ResolvePayPeriod(d + 1, cal) = Days(HalfStart(d + 1), HalfEnd(d + 1))
    BY <1>4, Resolved, SemiMonthlyDays
  <2>2. PICK m, n : m = MonthStart(d) /\ n = NextMonth(m)
    OBVIOUS
  <2>3. m \in Int /\ n \in Int /\ m <= d /\ d < n /\ n - m \in 28..31
    BY <2>2, MonthOfDay
  <2>4. CASE MonthStart(d + 1) = m
    <3>1. \/ HalfStart(d + 1) = HalfStart(d) /\ HalfEnd(d + 1) = HalfEnd(d)
          \/ HalfStart(d + 1) = HalfEnd(d)
      BY <2>2, <2>3, <2>4 DEF HalfStart, HalfEnd
    <3> QED
      BY <2>1, <3>1 DEF Days
  <2>5. CASE MonthStart(d + 1) = d + 1 /\ n = d + 1
    <3>1. HalfStart(d + 1) = HalfEnd(d)
      BY <2>2, <2>3, <2>5 DEF HalfStart, HalfEnd
    <3> QED
      BY <2>1, <3>1 DEF Days
  <2> QED
    BY <2>2, <2>4, <2>5, MonthOfNextDay
<1>5. CASE cal.type = "monthly"
  <2>1. /\ ResolvePayPeriod(d, cal) = Days(MonthStart(d), NextMonth(MonthStart(d)))
        /\ ResolvePayPeriod(d + 1, cal) = Days(MonthStart(d + 1), NextMonth(MonthStart(d + 1)))
    BY <1>5, Resolved, MonthlyDays
  <2> QED
    BY <2>1, MonthOfNextDay DEF Days
<1> QED
  BY <1>2, <1>3, <1>4, <1>5, Resolved

(* The three kinds of period that count days by the calendar hold the day. *)
LEMMA PeriodHoldsDay ==
  ASSUME NEW d \in 0..LastDay, NEW cal \in Calendars, cal.type # "bi_weekly"
  PROVE  /\ ResolvePayPeriod(d, cal).start <= Midnight(d)
         /\ Midnight(d) < ResolvePayPeriod(d, cal).end
<1>1. SUFFICES ASSUME NEW p \in Int, NEW q \in Int, p <= d, d < q,
                      ResolvePayPeriod(d, cal) = Days(p, q)
               PROVE  /\ ResolvePayPeriod(d, cal).start <= Midnight(d)
                      /\ Midnight(d) < ResolvePayPeriod(d, cal).end
  <2>1. CASE cal.type = "weekly"
    <3>1. PICK w \in 0..6 : w = cal.weekStartDay
      BY Resolved
    <3>2. ResolvePayPeriod(d, cal) = Days(WeekDay(d, w), WeekDay(d, w) + 7)
      BY <2>1, <3>1, Resolved, WeeklyDays
    <3>3. WeekDay(d, w) \in Int /\ WeekDay(d, w) <= d /\ d < WeekDay(d, w) + 7
      <4>1. d \in Int
        OBVIOUS
      <4> QED
        BY <4>1, WeekContainsDay, Zenon
    <3> QED
      BY <3>2, <3>3
  <2>2. CASE cal.type = "semi_monthly"
    <3>1. ResolvePayPeriod(d, cal) = Days(HalfStart(d), HalfEnd(d))
      BY <2>2, Resolved, SemiMonthlyDays
    <3>2. /\ HalfStart(d) \in Int /\ HalfEnd(d) \in Int
          /\ HalfStart(d) <= d /\ d < HalfEnd(d)
      BY MonthOfDay DEF HalfStart, HalfEnd
    <3> QED
      BY <3>1, <3>2
  <2>3. CASE cal.type = "monthly"
    BY <2>3, Resolved, MonthlyDays, MonthOfDay
  <2> QED
    BY <2>1, <2>2, <2>3, Resolved
<1>2. Midnight(p) <= Midnight(d) /\ Midnight(d) < Midnight(q)
  <2>1. d \in Int /\ (p = d \/ p < d)
    BY <1>1
  <2> QED
    BY <1>1, <2>1, MidnightGrows, MidnightIsInt
<1> QED
  BY <1>1, <1>2 DEF Days

(* The period is the one that resolves for today. *)
PeriodInv ==
  today \in 0..LastDay /\ calendar \in Calendars /\ period = ResolvePayPeriod(today, calendar)

LEMMA PeriodInvInit == PeriodInit => PeriodInv
BY PayPeriodsAssumption DEF PeriodInit, PeriodInv

LEMMA PeriodInvStep == PeriodInv /\ [PeriodNext]_periodVars => PeriodInv'
<1>1. ASSUME PeriodInv, NextDay PROVE PeriodInv'
  <2>1. today' \in 0..LastDay /\ calendar' \in Calendars
    BY <1>1, PayPeriodsAssumption DEF PeriodInv, NextDay
  <2>2. period' = ResolvePayPeriod(today', calendar')
    BY <1>1 DEF NextDay
  <2> QED
    BY <2>1, <2>2 DEF PeriodInv
<1>2. ASSUME PeriodInv, UNCHANGED periodVars PROVE PeriodInv'
  BY <1>2 DEF PeriodInv, periodVars
<1> QED
  BY <1>1, <1>2 DEF PeriodNext

(* resolvePayPeriod: for any calendar, length of the day, months and days on
   which the clock changes, no time is in two periods or in none. *)
THEOREM PeriodsTileAlways == PeriodSpec => PeriodsTile
<1>1. PeriodInv /\ [PeriodNext]_periodVars
        => [period' # period => period'.start = period.end]_periodVars
  <2> SUFFICES ASSUME PeriodInv, NextDay, period' # period
               PROVE  period'.start = period.end
    BY DEF PeriodNext
  <2>1. PICK d, cal, p, q : d = today /\ cal = calendar /\ p = period /\ q = period'
    OBVIOUS
  <2>2. /\ d \in 0..LastDay /\ d + 1 \in 0..LastDay /\ cal \in Calendars
        /\ p = ResolvePayPeriod(d, cal) /\ q = ResolvePayPeriod(d + 1, cal)
    BY <2>1, PayPeriodsAssumption DEF PeriodInv, NextDay
  <2>3. q.start = p.end
    BY <2>1, <2>2, PeriodOfNextDay
  <2> QED
    BY <2>1, <2>3
<1> QED
  BY <1>1, PeriodInvInit, PeriodInvStep, PTL DEF PeriodSpec, PeriodsTile

(* resolvePayPeriod of a company that is not bi-weekly: the period holds the
   day it was asked for, through every change of the clock. *)
THEOREM CalendarPeriodsHoldTheDay ==
  PeriodSpec => [](calendar.type # "bi_weekly" => PeriodContainsDate)
<1>1. PeriodInv => (calendar.type # "bi_weekly" => PeriodContainsDate)
  BY PeriodHoldsDay DEF PeriodInv, PeriodContainsDate
<1> QED
  BY <1>1, PeriodInvInit, PeriodInvStep, PTL DEF PeriodSpec

-----------------------------------------------------------------------------
(* Types: the tablets *)

(* A tablet uses the token of a device that there is. *)
TokensOfDevices ==
  /\ \A s \in Screens : screen[s].device \in 0..Len(devices)
  /\ storedId \in 0..Len(devices)

KioskTypeInv == PairingInv /\ LockoutInv /\ TokensOfDevices

LEMMA KioskTypeInit == KioskInit => KioskTypeInv
<1>1. KioskInit => TokensOfDevices
  <2> SUFFICES ASSUME KioskInit PROVE TokensOfDevices
    OBVIOUS
  <2>1. Len(devices) = 0 /\ storedId = 0 /\ \A s \in Screens : screen[s].device = 0
    BY DEF KioskInit, HomeScreen
  <2> QED
    BY <2>1 DEF TokensOfDevices
<1> QED
  BY <1>1, PairingInvInit, LockoutInvInit DEF KioskTypeInv

(* A screen keeps its device, or takes the one whose token is stored. *)
LEMMA TokensKept ==
  ASSUME TokensOfDevices, Len(devices') = Len(devices), storedId' = storedId,
         \A s \in Screens : screen'[s].device \in {screen[s].device, storedId}
  PROVE  TokensOfDevices'
BY DEF TokensOfDevices

LEMMA TokensOfDevicesStep ==
  PairingInv /\ TokensOfDevices /\ [KioskNext]_kioskVars => TokensOfDevices'
<1> SUFFICES ASSUME PairingInv, TokensOfDevices, [KioskNext]_kioskVars PROVE TokensOfDevices'
  OBVIOUS
<1>1. /\ screen \in [Screens -> Screen] /\ devices \in Seq(Device) /\ Len(devices) \in Nat
      /\ DOMAIN devices = 1..Len(devices)
  BY LenProperties DEF PairingInv, PairingTypeOK
<1>2. ASSUME NEW s \in Screens, CommitPairing(s) PROVE TokensOfDevices'
  <2>1. /\ devices' = Append(devices, [code |-> screen[s].code, revoked |-> FALSE])
        /\ screen' = [screen EXCEPT ![s] = HomeScreen(Len(devices) + 1)]
        /\ storedId' = Len(devices) + 1
    BY <1>2 DEF CommitPairing
  <2>2. Len(devices') = Len(devices) + 1
    BY <1>1, <2>1
  <2>3. \A t \in Screens : screen'[t].device \in {screen[t].device, Len(devices) + 1}
    BY <1>1, <2>1 DEF HomeScreen
  <2> QED
    BY <1>1, <2>1, <2>2, <2>3 DEF TokensOfDevices
<1>3. ASSUME NEW s \in Screens,
             \/ PairingFails(s) \/ OpenScreen(s) \/ PunchAtKiosk(s) \/ AcceptPin(s) \/ RefusePin(s)
             \/ \E c \in DOMAIN codes : BeginPairing(s, c)
             \/ \E e \in Someone : EnterPin(s, e)
      PROVE  TokensOfDevices'
  <2>1. UNCHANGED <<devices, storedId>>
    BY <1>3 DEF PairingFails, OpenScreen, PunchAtKiosk, AcceptPin, RefusePin, RefusePinTo,
                BeginPairing, EnterPin
  <2>2. CASE PairingFails(s) \/ PunchAtKiosk(s) \/ RefusePin(s)
    <3>1. screen' = [screen EXCEPT ![s] = HomeScreen(screen[s].device)]
      BY <2>2 DEF PairingFails, PunchAtKiosk, RefusePin, RefusePinTo
    <3> QED
      BY <1>1, <2>1, <3>1, TokensKept DEF HomeScreen
  <2>3. CASE OpenScreen(s)
    <3>1. screen' = [screen EXCEPT ![s] = HomeScreen(storedId)]
      BY <2>3 DEF OpenScreen
    <3> QED
      BY <1>1, <2>1, <3>1, TokensKept DEF HomeScreen
  <2>4. CASE \/ AcceptPin(s)
             \/ \E c \in DOMAIN codes : BeginPairing(s, c)
             \/ \E e \in Someone : EnterPin(s, e)
    <3>1. \A t \in Screens : screen'[t].device = screen[t].device
      BY <1>1, <2>4 DEF AcceptPin, BeginPairing, EnterPin, Screen
    <3> QED
      BY <2>1, <3>1, TokensKept
  <2> QED
    BY <1>3, <2>2, <2>3, <2>4
<1>4. ASSUME NEW d \in DOMAIN devices, RevokeKioskDevice(d) PROVE TokensOfDevices'
  <2>1. /\ devices' = [devices EXCEPT ![d].revoked = TRUE] /\ UNCHANGED <<screen, storedId>>
    BY <1>4 DEF RevokeKioskDevice
  <2>4. d \in 1..Len(devices) /\ devices[d] \in Device
    BY <1>1
  <2>2. [devices[d] EXCEPT !.revoked = TRUE] \in Device
    BY <2>4 DEF Device
  <2>3. Len(devices') = Len(devices)
    BY <1>1, <2>1, <2>2, <2>4, ExceptSeq
  <2> QED
    BY <2>1, <2>3, TokensKept
<1>5. CASE KioskRestarts
  BY <1>5, TokensKept DEF KioskRestarts, HomeScreen
<1>6. CASE \/ IssuePairingCode \/ UNCHANGED kioskVars
           \/ \E c \in DOMAIN codes : PairingCodeExpires(c)
           \/ \E d \in DOMAIN devices : LockoutEnds(d) \/ LockoutDropped(d)
  BY <1>6, TokensKept
  DEF IssuePairingCode, PairingCodeExpires, LockoutEnds, LockoutDropped, kioskVars
<1> QED
  BY <1>2, <1>3, <1>4, <1>5, <1>6 DEF KioskNext

LEMMA KioskTypeStep == KioskTypeInv /\ [KioskNext]_kioskVars => KioskTypeInv'
BY PairingInvStep, LockoutInvStep, TokensOfDevicesStep DEF KioskTypeInv

LEMMA KioskTypeGiven == KioskTypeInv => KioskTypeOK
BY DEF KioskTypeInv, KioskTypeOK, PairingInv, PairingTypeOK, PairedIsOver, LockoutInv,
       TokensOfDevices

-----------------------------------------------------------------------------
(* Types: reminders *)

OneClaimed ==
  \A w \in Workers : sweeps[w].claimed = {} \/ \E e \in Reminded : sweeps[w].claimed = {e}

ReminderTypeInv == ReminderInv /\ OneClaimed

LEMMA ReminderTypeInit == ReminderInit => ReminderTypeInv
<1>1. ReminderInit => OneClaimed
  BY DEF ReminderInit, OneClaimed, NoSweep
<1> QED
  BY <1>1, ReminderInvInit DEF ReminderTypeInv

LEMMA ReminderTypeStep == ReminderTypeInv /\ [ReminderNext]_reminderVars => ReminderTypeInv'
<1> SUFFICES ASSUME ReminderTypeInv, [ReminderNext]_reminderVars PROVE OneClaimed'
  BY ReminderInvStep DEF ReminderTypeInv
<1>1. sweeps \in [Workers -> SweepRows] /\ OneClaimed
  BY DEF ReminderTypeInv, ReminderInv, ReminderTypes
<1>2. ASSUME NEW w \in Workers, NEW e \in Reminded, ClaimReminder(w, e) PROVE OneClaimed'
  <2> DEFINE x == [due |-> sweeps[w].due \ {e},
                   claimed |-> IF [who |-> e, day |-> reminderDay] \in claims THEN {} ELSE {e}]
  <2>1. sweeps' = [sweeps EXCEPT ![w] = x]
    BY <1>2 DEF ClaimReminder
  <2>2. x.claimed \in {{}, {e}}
    OBVIOUS
  <2> HIDE DEF x
  <2> QED
    BY <1>1, <2>1, <2>2 DEF OneClaimed
<1>3. ASSUME NEW w \in Workers, StartSweep(w) \/ RemindEmployee(w) \/ SweepDies(w)
      PROVE  OneClaimed'
  <2>1. \A v \in Workers : sweeps'[v].claimed \in {{}, sweeps[v].claimed}
    BY <1>1, <1>3 DEF StartSweep, RemindEmployee, SweepDies, NoSweep, SweepRows
  <2> QED
    BY <1>1, <2>1 DEF OneClaimed
<1>4. CASE \/ \E e \in Reminded : FillDay(e)
           \/ ReminderNextDay \/ UNCHANGED reminderVars
  BY <1>1, <1>4 DEF FillDay, ReminderNextDay, reminderVars, OneClaimed
<1> QED
  BY <1>2, <1>3, <1>4 DEF ReminderNext

LEMMA ReminderTypeGiven == ReminderTypeInv => ReminderTypeOK
<1> SUFFICES ASSUME ReminderTypeInv PROVE ReminderTypeOK
  OBVIOUS
<1>1. ASSUME NEW w \in Workers PROVE Cardinality(sweeps[w].claimed) <= 1
  <2>1. CASE sweeps[w].claimed = {}
    BY <2>1, FS_EmptySet
  <2>2. ASSUME NEW e, sweeps[w].claimed = {e} PROVE Cardinality(sweeps[w].claimed) <= 1
    <3>1. Cardinality({e}) = 1
      BY FS_Singleton, Zenon
    <3> QED
      BY <2>2, <3>1
  <2> QED
    BY <2>1, <2>2 DEF ReminderTypeInv, OneClaimed
<1>2. ReminderTypes
  BY DEF ReminderTypeInv, ReminderInv
<1> QED
  BY <1>1, <1>2 DEF ReminderTypes, ReminderTypeOK, SweepRows, SentRows

-----------------------------------------------------------------------------
(* Types: exports *)

(* What replaces an export is a later one, and a run has found one of them. *)
ReplacedLater ==
  /\ Len(exports) <= MaxExports
  /\ \A x \in DOMAIN exports : exports[x] # 0 => exports[x] \in (x + 1)..Len(exports)
  /\ \A u \in Exporters :
       exporting[u] # NotExporting => exporting[u].prior \in 0..Len(exports)

ExportTypeInv == ExportInv /\ ReplacedLater

LEMMA ExportTypeInit == ExportInit => ExportTypeInv
<1>1. ExportInit => ReplacedLater
  <2> SUFFICES ASSUME ExportInit PROVE ReplacedLater
    OBVIOUS
  <2>1. exports = <<>> /\ Len(exports) = 0 /\ DOMAIN exports = {}
    BY DEF ExportInit
  <2>2. \A u \in Exporters : exporting[u] = NotExporting
    BY DEF ExportInit
  <2> QED
    BY <2>1, <2>2, PayrollExportsAssumption DEF ReplacedLater
<1> QED
  BY <1>1, ExportInvInit DEF ExportTypeInv

LEMMA PriorIsThere == ExportTypes => Prior \in 0..Len(exports)
<1> SUFFICES ASSUME ExportTypes PROVE Prior \in 0..Len(exports)
  OBVIOUS
<1>1. Len(exports) \in Nat /\ DOMAIN exports = 1..Len(exports)
  BY LenProperties DEF ExportTypes
<1>2. {0} \cup InForce \in SUBSET (0..Len(exports))
  BY <1>1 DEF InForce
<1>3. Prior \in {0} \cup InForce
  BY <1>1, <1>2, MaxExists DEF Prior
<1> QED
  BY <1>1, <1>2, <1>3

LEMMA ReplacedLaterStep ==
  ExportTypes /\ ReplacedLater /\ [ExportNext]_exportVars => ReplacedLater'
<1> SUFFICES ASSUME ExportTypes, ReplacedLater, [ExportNext]_exportVars PROVE ReplacedLater'
  OBVIOUS
<1> DEFINE n == Len(exports)
<1>1. /\ exports \in Seq(Nat) /\ n \in Nat /\ DOMAIN exports = 1..n
      /\ exporting \in [Exporters -> ExportRuns \cup {NotExporting}]
  BY LenProperties DEF ExportTypes
<1>2. ASSUME UNCHANGED exports, NEW u \in Exporters, NEW x,
             x = NotExporting \/ x.prior \in 0..n,
             exporting' = [exporting EXCEPT ![u] = x]
      PROVE  ReplacedLater'
  <2>1. \A v \in Exporters : exporting'[v] = IF v = u THEN x ELSE exporting[v]
    BY <1>1, <1>2
  <2> QED
    BY <1>2, <2>1 DEF ReplacedLater
<1>3. ASSUME NEW u \in Exporters, RecordExport(u) PROVE ReplacedLater'
  <2> DEFINE prior == exporting[u].prior
             replaced == IF prior = 0 THEN exports ELSE [exports EXCEPT ![prior] = n + 1]
  <2>1. exporting[u] # NotExporting /\ n < MaxExports
    BY <1>3 DEF RecordExport, NotExporting
  <2>2. prior \in 0..n
    BY <2>1 DEF ReplacedLater
  <2>3. exports' = Append(replaced, 0) /\ exporting' = [exporting EXCEPT ![u] = NotExporting]
    BY <1>3 DEF RecordExport
  <2> HIDE DEF prior
  <2>4. /\ replaced \in Seq(Nat) /\ Len(replaced) = n
        /\ \A i \in 1..n : replaced[i] = IF prior = i THEN n + 1 ELSE exports[i]
    <3>1. CASE prior \in 1..n
      <4>1. replaced = [exports EXCEPT ![prior] = n + 1] /\ n + 1 \in Nat
        BY <1>1, <3>1
      <4> QED
        BY <1>1, <3>1, <4>1, ExceptSeq
    <3>2. CASE prior = 0
      BY <1>1, <3>2
    <3> QED
      BY <1>1, <2>2, <3>1, <3>2
  <2> HIDE DEF replaced
  <2>5. /\ exports' \in Seq(Nat) /\ Len(exports') = n + 1 /\ exports'[n + 1] = 0
        /\ \A i \in 1..n : exports'[i] = replaced[i]
    BY <1>1, <2>3, <2>4, AppendProperties
  <2>6. DOMAIN exports' = 1..(n + 1)
    BY <2>5, LenProperties
  <2>7. ASSUME NEW x \in 1..(n + 1), exports'[x] # 0
        PROVE  exports'[x] \in (x + 1)..(n + 1)
    <3>1. x \in 1..n
      BY <1>1, <2>5, <2>7
    <3>2. CASE prior = x
      BY <1>1, <2>4, <2>5, <3>1, <3>2
    <3>3. CASE prior # x
      <4>1. exports'[x] = exports[x] /\ exports[x] \in (x + 1)..n
        BY <1>1, <2>4, <2>5, <2>7, <3>1, <3>3 DEF ReplacedLater
      <4> QED
        BY <1>1, <4>1
    <3> QED
      BY <3>2, <3>3
  <2>8. \A v \in Exporters : exporting'[v] # NotExporting => exporting'[v].prior \in 0..(n + 1)
    BY <1>1, <2>3 DEF ReplacedLater
  <2>9. n + 1 <= MaxExports
    BY <1>1, <2>1, PayrollExportsAssumption
  <2> QED
    BY <2>5, <2>6, <2>7, <2>8, <2>9 DEF ReplacedLater
<1>4. ASSUME NEW u \in Exporters, NEW acknowledged \in BOOLEAN, RunExport(u, acknowledged)
      PROVE  ReplacedLater'
  <2> DEFINE x == [pc |-> "prior", acknowledged |-> acknowledged, prior |-> 0]
  <2>1. UNCHANGED exports /\ exporting' = [exporting EXCEPT ![u] = x]
    BY <1>4 DEF RunExport
  <2>2. x.prior \in 0..n
    BY <1>1
  <2> HIDE DEF x
  <2> QED
    BY <1>2, <2>1, <2>2
<1>5. ASSUME NEW u \in Exporters, FindPrior(u) PROVE ReplacedLater'
  <2> DEFINE x == IF Prior # 0 /\ ~exporting[u].acknowledged THEN NotExporting
                  ELSE [[exporting[u] EXCEPT !.pc = "totals"] EXCEPT !.prior = Prior]
  <2>1. UNCHANGED exports /\ exporting' = [exporting EXCEPT ![u] = x]
    BY <1>5 DEF FindPrior
  <2>2. exporting[u] \in ExportRuns
    BY <1>1, <1>5 DEF FindPrior, NotExporting
  <2>3. Prior \in 0..n
    BY PriorIsThere
  <2>4. x = NotExporting \/ x.prior \in 0..n
    BY <2>2, <2>3 DEF ExportRuns
  <2> HIDE DEF x
  <2> QED
    BY <1>2, <2>1, <2>4
<1>6. ASSUME NEW u \in Exporters, CollectTotals(u) PROVE ReplacedLater'
  <2> DEFINE x == [exporting[u] EXCEPT !.pc = "record"]
  <2>1. UNCHANGED exports /\ exporting' = [exporting EXCEPT ![u] = x]
    BY <1>6 DEF CollectTotals
  <2>2. exporting[u] \in ExportRuns /\ exporting[u] # NotExporting
    BY <1>1, <1>6 DEF CollectTotals, NotExporting
  <2>3. x.prior \in 0..n
    BY <2>2 DEF ExportRuns, ReplacedLater
  <2> HIDE DEF x
  <2> QED
    BY <1>2, <2>1, <2>3
<1>7. ASSUME NEW u \in Exporters, ExportFails(u) PROVE ReplacedLater'
  BY <1>2, <1>7 DEF ExportFails
<1>8. CASE ChangeEntries \/ UNCHANGED exportVars
  BY <1>8 DEF ChangeEntries, exportVars, ReplacedLater
<1> QED
  BY <1>3, <1>4, <1>5, <1>6, <1>7, <1>8 DEF ExportNext

LEMMA ExportTypeStep == ExportTypeInv /\ [ExportNext]_exportVars => ExportTypeInv'
BY ExportInvStep, ReplacedLaterStep DEF ExportTypeInv, ExportInv

LEMMA ExportTypeGiven == ExportTypeInv => ExportTypeOK
<1> SUFFICES ASSUME ExportTypeInv PROVE ExportTypeOK
  OBVIOUS
<1>1. ExportTypes /\ ReplacedLater
  BY DEF ExportTypeInv, ExportInv
<1>2. exports \in Seq(Nat) /\ Len(exports) \in Nat /\ DOMAIN exports = 1..Len(exports)
  BY <1>1, LenProperties DEF ExportTypes
<1>3. \A x \in 1..Len(exports) : exports[x] \in 0..MaxExports
  <2> SUFFICES ASSUME NEW x \in 1..Len(exports), exports[x] # 0
               PROVE  exports[x] \in 0..MaxExports
    BY PayrollExportsAssumption
  <2>1. exports[x] \in (x + 1)..Len(exports) /\ Len(exports) <= MaxExports
    BY <1>1, <1>2 DEF ReplacedLater
  <2> QED
    BY <1>2, <2>1, PayrollExportsAssumption
<1>4. exports \in Seq(0..MaxExports)
  <2>1. PICK S, n, t : S = 0..MaxExports /\ n = Len(exports) /\ t = exports
    OBVIOUS
  <2>2. n \in Nat /\ t = [i \in 1..n |-> t[i]] /\ \A i \in 1..n : t[i] \in S
    BY <1>2, <1>3, <2>1
  <2>3. t \in Seq(S)
    BY <2>2, IsASeq
  <2> QED
    BY <2>1, <2>3
<1>5. ASSUME NEW u \in Exporters, exporting[u] # NotExporting PROVE exporting[u] \in Exports
  <2>1. exporting[u] \in ExportRuns /\ exporting[u].prior \in 0..Len(exports)
    BY <1>1, <1>5 DEF ExportTypes, ReplacedLater
  <2>2. exporting[u].prior \in 0..MaxExports
    BY <1>1, <1>2, <2>1, PayrollExportsAssumption DEF ReplacedLater
  <2> QED
    BY <2>1, <2>2 DEF ExportRuns, Exports
<1> QED
  BY <1>1, <1>4, <1>5 DEF ExportTypes, ReplacedLater, ExportTypeOK

-----------------------------------------------------------------------------
(* Types: badges and pay periods *)

LEMMA BadgeTypeGiven == BadgeInv => BadgeTypeOK
BY DEF BadgeInv, BadgeColumns, PrintJobs, BadgeTypeOK

(* No period is empty: it begins some days before it ends. *)
LEMMA PeriodNotEmpty ==
  ASSUME NEW d \in 0..LastDay, NEW cal \in Calendars
  PROVE  /\ ResolvePayPeriod(d, cal).start \in Int
         /\ ResolvePayPeriod(d, cal).end \in Int
         /\ ResolvePayPeriod(d, cal).start < ResolvePayPeriod(d, cal).end
<1>1. d \in Int
  OBVIOUS
<1>2. \E p, q \in Int : p < q /\ ResolvePayPeriod(d, cal) = Days(p, q)
  <2>1. CASE cal.type = "weekly"
    <3>1. PICK w \in 0..6 : w = cal.weekStartDay
      BY Resolved
    <3>2. ResolvePayPeriod(d, cal) = Days(WeekDay(d, w), WeekDay(d, w) + 7)
      BY <1>1, <2>1, <3>1, Resolved, WeeklyDays
    <3>3. WeekDay(d, w) \in Int
      BY <1>1, WeekContainsDay, Zenon
    <3> QED
      BY <3>2, <3>3
  <2>2. CASE cal.type = "bi_weekly"
    <3>1. PICK a : a = WeekDay(cal.anchor, cal.weekStartDay)
      OBVIOUS
    <3>2. a \in Int /\ ResolvePayPeriod(d, cal) = Days(Fortnight(d, a), Fortnight(d, a) + 14)
      BY <1>1, <2>2, <3>1, Resolved, BiWeeklyDays
    <3>3. Fortnight(d, a) \in Int
      BY <1>1, <3>2 DEF Fortnight, Elapsed, Summer
    <3> QED
      BY <3>2, <3>3
  <2>3. CASE cal.type = "semi_monthly"
    <3>1. ResolvePayPeriod(d, cal) = Days(HalfStart(d), HalfEnd(d))
      BY <2>3, Resolved, SemiMonthlyDays
    <3>2. /\ HalfStart(d) \in Int /\ HalfEnd(d) \in Int /\ HalfStart(d) < HalfEnd(d)
      BY MonthOfDay DEF HalfStart, HalfEnd
    <3> QED
      BY <3>1, <3>2
  <2>4. CASE cal.type = "monthly"
    BY <2>4, Resolved, MonthlyDays, MonthOfDay
  <2> QED
    BY <2>1, <2>2, <2>3, <2>4, Resolved
<1>3. PICK p \in Int, q \in Int : p < q /\ ResolvePayPeriod(d, cal) = Days(p, q)
  BY <1>2
<1> QED
  BY <1>3, MidnightGrows, MidnightIsInt DEF Days

LEMMA PeriodTypeGiven == PeriodInv => PeriodTypeOK
<1> SUFFICES ASSUME PeriodInv PROVE PeriodTypeOK
  OBVIOUS
<1>1. PICK d, cal, p : d = today /\ cal = calendar /\ p = period
  OBVIOUS
<1>2. d \in 0..LastDay /\ cal \in Calendars /\ p = ResolvePayPeriod(d, cal)
  BY <1>1 DEF PeriodInv
<1>3. p.start \in Int /\ p.end \in Int /\ p.start < p.end
  BY <1>2, PeriodNotEmpty
<1> QED
  BY <1>1, <1>2, <1>3 DEF PeriodTypeOK

-----------------------------------------------------------------------------
(* The components together.  In a behaviour of one of them the others do not
   move, so that each brings its own invariant. *)

ApplianceTypes ==
  /\ part = "links" => LinkInv
  /\ part = "kiosks" => KioskTypeInv
  /\ part = "badges" => BadgeInv
  /\ part = "setup" => SetupInv
  /\ part = "reminders" => ReminderTypeInv
  /\ part = "exports" => ExportTypeInv
  /\ part = "periods" => PeriodInv
  /\ part = "updates" => UpdateInv
  /\ part = "queue" => QueueInv

LEMMA ApplianceTypesInit == ApplianceInit => ApplianceTypes
BY LinkInvInit, KioskTypeInit, BadgeInvInit, SetupInvInit, ReminderTypeInit, ExportTypeInit,
   PeriodInvInit, UpdateInvInit, QueueInvInit
DEF ApplianceInit, ApplianceTypes

LEMMA ApplianceTypesStep == ApplianceTypes /\ [ApplianceNext]_mcVars => ApplianceTypes'
<1> SUFFICES ASSUME ApplianceTypes, [ApplianceNext]_mcVars PROVE ApplianceTypes'
  OBVIOUS
<1>1. part' = part
  BY DEF ApplianceNext, mcVars
<1>2. /\ part = "links" => [LinkNext]_linkVars
      /\ part = "kiosks" => [KioskNext]_kioskVars
      /\ part = "badges" => [BadgeNext]_badgeVars
      /\ part = "setup" => [SetupNext]_setupVars
      /\ part = "reminders" => [ReminderNext]_reminderVars
      /\ part = "exports" => [ExportNext]_exportVars
      /\ part = "periods" => [PeriodNext]_periodVars
      /\ part = "updates" => [UpdateNext]_updateVars
      /\ part = "queue" => [Next]_vars
  BY DEF ApplianceNext, mcVars
<1> QED
  BY <1>1, <1>2, LinkInvStep, KioskTypeStep, BadgeInvStep, SetupInvStep, ReminderTypeStep,
     ExportTypeStep, PeriodInvStep, UpdateInvStep, QueueInvStep
  DEF ApplianceTypes

(* Sign-in links, tablets, badges, the wizard, reminders, exports, pay
   periods, updates and the offline queue, in any behaviour: their tables have
   the types of their columns, ids are of rows that there are, what replaces an
   export is a later one, a worker sends its claims one by one, no pay period is
   empty, and a punch is on its way or queued, never both. *)
THEOREM ApplianceTypeCorrect == ApplianceSpec => []ApplianceTypeOK
<1>1. ApplianceTypes => ApplianceTypeOK
  BY KioskTypeGiven, BadgeTypeGiven, ReminderTypeGiven, ExportTypeGiven, PeriodTypeGiven,
     QueueInvGives
  DEF ApplianceTypes, ApplianceTypeOK, LinkInv, SetupInv, UpdateInv
<1> QED
  BY <1>1, ApplianceTypesInit, ApplianceTypesStep, PTL DEF ApplianceSpec
=============================================================================
