--------------------------- MODULE PayrollExports ---------------------------
(***************************************************************************)
(* Exports of one pay period in one format.  The preflight, the export     *)
(* that is to be replaced and the totals are read one after another, and   *)
(* only what is recorded in the end is one transaction.                    *)
(***************************************************************************)
EXTENDS Integers, Sequences, FiniteSetsExt

CONSTANTS
  Exporters,
  MaxExports  \* bound of the model

ASSUME PayrollExportsAssumption == MaxExports \in Nat

VARIABLES
  exports,    \* payroll_exports: by id, the id of what replaces it; 0: in force
  approved,   \* every entry of the period is closed and approved
  exporting,  \* the run of each exporter
  crossed     \* history: two runs overlapped

exportVars == <<exports, approved, exporting, crossed>>

NotExporting == [pc |-> "idle"]
Exports == [pc : {"prior", "totals", "record"}, acknowledged : BOOLEAN,
            prior : 0..MaxExports]

(* Variables have their types; an export is replaced by a later one. *)
ExportTypeOK ==
  /\ exports \in Seq(0..MaxExports)
  /\ \A x \in DOMAIN exports : exports[x] # 0 => exports[x] \in (x + 1)..Len(exports)
  /\ approved \in BOOLEAN /\ crossed \in BOOLEAN
  /\ \A u \in Exporters : exporting[u] = NotExporting \/ exporting[u] \in Exports

ExportInit ==
  /\ exports = <<>> /\ approved \in BOOLEAN /\ crossed = FALSE
  /\ exporting = [u \in Exporters |-> NotExporting]

InForce == {x \in DOMAIN exports : exports[x] = 0}

(* Mutant of Prior: the first export of the period, replaced or not. *)
PriorFirst == IF exports = <<>> THEN 0 ELSE 1

(* The latest export that is not replaced; 0: none *)
Prior == Max({0} \cup InForce)

RunExport(u, acknowledged) ==
  /\ exporting[u] = NotExporting /\ approved
  /\ crossed' = (crossed \/ \E v \in Exporters : exporting[v] # NotExporting)
  /\ exporting' = [exporting EXCEPT ![u] = [pc |-> "prior", acknowledged |-> acknowledged,
                                            prior |-> 0]]
  /\ UNCHANGED <<exports, approved>>

FindPrior(u) ==
  /\ exporting[u].pc = "prior"
  /\ exporting' = [exporting EXCEPT ![u] =
       IF Prior # 0 /\ ~@.acknowledged THEN NotExporting
       ELSE [@ EXCEPT !.pc = "totals", !.prior = Prior]]
  /\ UNCHANGED <<exports, approved, crossed>>

(* The entries are read a second time, and the file is written. *)
CollectTotals(u) ==
  /\ exporting[u].pc = "totals"
  /\ exporting' = [exporting EXCEPT ![u].pc = "record"]
  /\ UNCHANGED <<exports, approved, crossed>>

(* Mutant of RecordExport: what is replaced points at itself. *)
RecordBehind(u) ==
  /\ exporting[u].pc = "record" /\ Len(exports) < MaxExports
  /\ LET prior == exporting[u].prior
     IN  exports' = Append(IF prior = 0 THEN exports ELSE [exports EXCEPT ![prior] = prior], 0)
  /\ exporting' = [exporting EXCEPT ![u] = NotExporting]
  /\ UNCHANGED <<approved, crossed>>

RecordExport(u) ==
  /\ exporting[u].pc = "record" /\ Len(exports) < MaxExports
  /\ LET prior == exporting[u].prior
     IN  exports' = Append(IF prior = 0 THEN exports
                           ELSE [exports EXCEPT ![prior] = Len(exports) + 1], 0)
  /\ exporting' = [exporting EXCEPT ![u] = NotExporting]
  /\ UNCHANGED <<approved, crossed>>

ExportFails(u) ==
  /\ exporting[u] # NotExporting
  /\ exporting' = [exporting EXCEPT ![u] = NotExporting]
  /\ UNCHANGED <<exports, approved, crossed>>

(* Entries are reopened, changed and approved again. *)
ChangeEntries ==
  /\ approved' = ~approved
  /\ UNCHANGED <<exports, exporting, crossed>>

ExportNext ==
  \/ \E u \in Exporters :
       \/ \E acknowledged \in BOOLEAN : RunExport(u, acknowledged)
       \/ FindPrior(u)
       \/ CollectTotals(u)
       \/ RecordExport(u)
       \/ ExportFails(u)
  \/ ChangeEntries

ExportSpec == ExportInit /\ [][ExportNext]_exportVars

-----------------------------------------------------------------------------
(* Properties *)

(* A period that was exported has one export in force, the last one, however
   often it is exported again and wherever a run failed.  Two runs that overlap
   leave two of them in force, although docs/exports/README.md has every repeat
   acknowledged and linked: hence only as long as one run has ended when the
   next begins. *)
OneExportInForce == ~crossed => InForce = (IF exports = <<>> THEN {} ELSE {Len(exports)})
=============================================================================
