--------------------------- MODULE People_proofs ----------------------------
(***************************************************************************)
(* What holds of employees, whoever edits them at once, and of the data    *)
(* that an update of the appliance puts at risk.                           *)
(*                                                                         *)
(* The time of an approved request is added once, for any slots and any    *)
(* number of reviewers.  The invariant behind it: a reviewer who is about  *)
(* to add has found nothing that stands for the request, unless two are at *)
(* it, and every row of a request lies where the request wants it.         *)
(*                                                                         *)
(* A user's access is what the groups grant, for any groups, roles and     *)
(* administrators.  The invariant behind it: what a transaction that runs  *)
(* alone has read still holds, but for its own change.                     *)
(*                                                                         *)
(* Rounding keeps the stretches of an employee apart, for any interval,    *)
(* grace and pay period: an instant that is rounded as an end never passes *)
(* a later one that is rounded as a start.                                 *)
(*                                                                         *)
(* The work of a period counts no time twice, for any number of shifts.    *)
(* The totals are a loop over the entries; the argument goes along it: the *)
(* work up to a shift fits what lies before its rounded end, and the first *)
(* shift of which that were false would follow one of which it is true.    *)
(*                                                                         *)
(* The database from before an update is there or has a dump, for any      *)
(* releases, unless the operator has skipped it or the dump has grown too  *)
(* old.  The invariant behind it: without that dump, nothing that may boot *)
(* has a migration to run, and the update is not past its backup.          *)
(*                                                                         *)
(* The components together keep their types, in any behaviour of MCPeople. *)
(* What that takes beyond the above: memberships have ids that were given  *)
(* out, the role that groups add up to is one of finitely many ranks, the  *)
(* token that replaces another is in the table when it is named, and a     *)
(* code that can be typed was sent to some number.                         *)
(***************************************************************************)
EXTENDS MCPeople, Sessions_proofs, SequenceTheorems, WellFoundedInduction,
        NaturalsInduction, TLAPS

-----------------------------------------------------------------------------
(* PINs *)

(* Between two PINs a clerk is in its initial state. *)
LEMMA IdleClerk == NoClerk \in [pc : {"idle", "choosing"}, who : Staff, taken : SUBSET Pins]
<1>1. (CHOOSE e \in Staff : TRUE) \in Staff
  BY EmployeePinsAssumption
<1> QED
  BY <1>1 DEF NoClerk

LEMMA PinTypeInit == PinInit => PinTypeOK
  BY IdleClerk DEF PinInit, PinTypeOK

(* Every step of a clerk, and every change of an employee's status, keeps the
   types. *)
LEMMA PinTypeStep == PinTypeOK /\ [PinNext]_pinVars => PinTypeOK'
<1> SUFFICES ASSUME PinTypeOK, [PinNext]_pinVars PROVE PinTypeOK'
  OBVIOUS
<1> DEFINE Row == [active : BOOLEAN, pin : Pins \cup {NoPin}]
<1> USE IdleClerk DEF PinTypeOK
<1>a. ActivePins \subseteq Pins
  BY DEF ActivePins
<1>1. ASSUME NEW k \in PinClerks, NEW e \in Staff, RegeneratePin(k, e) \/ SetPinManually(k, e)
      PROVE  PinTypeOK'
  BY <1>1, <1>a DEF RegeneratePin, SetPinManually, BeginPin
<1>2. ASSUME NEW k \in PinClerks, WritePin(k) PROVE PinTypeOK'
  <2>1. clerk[k].who \in Staff
    OBVIOUS
  <2>2. PICK p \in Pins \ clerk[k].taken :
          LET row == [staff[clerk[k].who] EXCEPT !.pin = p] IN
          IF IndexAllows(clerk[k].who, row)
          THEN staff' = [staff EXCEPT ![clerk[k].who] = row] ELSE UNCHANGED staff
    BY <1>2 DEF WritePin
  <2>3. [staff[clerk[k].who] EXCEPT !.pin = p] \in Row
    BY <2>1
  <2>4. staff' \in [Staff -> Row]
    BY <2>1, <2>2, <2>3
  <2>5. clerk' \in [PinClerks -> [pc : {"idle", "choosing"}, who : Staff, taken : SUBSET Pins]]
    BY <1>2 DEF WritePin
  <2> QED
    BY <2>4, <2>5
<1>3. ASSUME NEW k \in PinClerks, NoPinLeft(k) PROVE PinTypeOK'
  BY <1>3 DEF NoPinLeft
<1>4. ASSUME NEW e \in Staff, Terminate(e) PROVE PinTypeOK'
  BY <1>4 DEF Terminate
<1>5. ASSUME NEW e \in Staff, Reactivate(e) PROVE PinTypeOK'
  BY <1>5 DEF Reactivate
<1>6. CASE UNCHANGED pinVars
  BY <1>6 DEF pinVars
<1> QED
  BY <1>1, <1>2, <1>3, <1>4, <1>5, <1>6 DEF PinNext

-----------------------------------------------------------------------------
(* Phone numbers *)

(* A code that can be typed was sent somewhere. *)
CodeWasSent == \A h \in Holders : challenge[h].live => challenge[h].number # NoNumber

PhoneInv == PhoneTypeOK /\ CodeWasSent

LEMMA PhoneInvInit == PhoneInit => PhoneInv
<1> SUFFICES ASSUME PhoneInit PROVE PhoneInv
  OBVIOUS
<1>1. NoChallenge \in Challenge /\ ~NoChallenge.live
  BY PhoneCodesAssumption DEF NoChallenge, Challenge, MaybeNumber
<1>2. NoEdit \in [busy : BOOLEAN, saw : MaybeNumber, to : MaybeNumber]
  BY DEF NoEdit, MaybeNumber
<1> QED
  BY <1>1, <1>2
  DEF PhoneInit, PhoneInv, PhoneTypeOK, CodeWasSent, Holders, MaybeNumber

(* Every step of the employee, the user and the administrator keeps the
   invariant. *)
LEMMA PhoneInvStep == PhoneInv /\ [PhoneNext]_phoneVars => PhoneInv'
<1> SUFFICES ASSUME PhoneInv, [PhoneNext]_phoneVars PROVE PhoneInv'
  OBVIOUS
<1>a. "employee" \in Holders /\ "user" \in Holders /\ "user" # "employee"
  BY DEF Holders
<1>b. NoChallenge \in Challenge /\ ~NoChallenge.live
  BY PhoneCodesAssumption DEF NoChallenge, Challenge, MaybeNumber
<1>c. \A n \in MaybeNumber : Sent(n) \in Challenge /\ Sent(n).number = n /\ Sent(n).live
  BY PhoneCodesAssumption DEF Sent, Challenge
<1>d. NoEdit \in [busy : BOOLEAN, saw : MaybeNumber, to : MaybeNumber]
  BY DEF NoEdit, MaybeNumber
<1>e. /\ phone \in [Holders -> MaybeNumber] /\ verified \subseteq Holders
      /\ challenge \in [Holders -> Challenge]
      /\ edit \in [Holders -> [busy : BOOLEAN, saw : MaybeNumber, to : MaybeNumber]]
      /\ request \in MaybeNumber /\ proved \subseteq Numbers
      /\ CodeWasSent
  BY DEF PhoneInv, PhoneTypeOK
<1> USE DEF PhoneInv, PhoneTypeOK, CodeWasSent
<1>1. ASSUME NEW n \in Numbers, StartPhoneVerification(n) PROVE PhoneInv'
  <2>1. /\ Sent(n) \in Challenge /\ Sent(n).number = n /\ n \in MaybeNumber
        /\ n # NoNumber
    BY <1>c, PhoneCodesAssumption DEF MaybeNumber
  <2>2. /\ phone' \in [Holders -> MaybeNumber] /\ phone'["employee"] = n
        /\ challenge' \in [Holders -> Challenge] /\ challenge'["employee"] = Sent(n)
        /\ \A h \in Holders : h # "employee" => challenge'[h] = challenge[h]
    BY <1>1, <1>a, <1>e, <2>1 DEF StartPhoneVerification
  <2> QED
    BY <1>1, <1>e, <2>1, <2>2 DEF StartPhoneVerification
<1>2. ASSUME NEW h \in Holders, NEW n \in MaybeNumber, BeginNumberEdit(h, n)
      PROVE  PhoneInv'
  BY <1>2, <1>e DEF BeginNumberEdit
<1>3. CASE WriteEmployeeEdit
  BY <1>3, <1>a, <1>d, <1>e DEF WriteEmployeeEdit, WriteEdit
<1>4. CASE WriteUserEdit
  BY <1>4, <1>a, <1>b, <1>d, <1>e DEF WriteUserEdit, WriteEdit
<1>5. CASE RequestUserCode
  BY <1>5, <1>a, <1>e DEF RequestUserCode
<1>6. CASE WriteUserCode
  <2>1. /\ request \in MaybeNumber /\ request # NoNumber /\ request' \in MaybeNumber
        /\ challenge' = [challenge EXCEPT !["user"] = Sent(request)]
        /\ UNCHANGED <<phone, verified, edit, proved>>
    BY <1>6, <1>e DEF WriteUserCode, MaybeNumber
  <2>2. Sent(request) \in Challenge /\ Sent(request).number # NoNumber
    BY <1>c, <2>1
  <2>3. /\ challenge' \in [Holders -> Challenge]
        /\ challenge'["user"] = Sent(request)
        /\ \A h \in Holders : h # "user" => challenge'[h] = challenge[h]
    BY <1>a, <1>e, <2>1, <2>2
  <2> QED
    BY <1>a, <1>e, <2>1, <2>2, <2>3
<1>7. ASSUME NEW h \in Holders, ConfirmCode(h) PROVE PhoneInv'
  <2>1. UNCHANGED <<phone, edit, request>>
    BY <1>7 DEF ConfirmCode
  <2>2. challenge[h].live /\ challenge[h].number \in Numbers
    BY <1>7, <1>e DEF ConfirmCode, CanConfirm, Challenge, MaybeNumber
  <2>3. /\ challenge' \in [Holders -> Challenge]
        /\ challenge'[h] = NoChallenge
        /\ \A g \in Holders : g # h => challenge'[g] = challenge[g]
    BY <1>7, <1>b, <1>e DEF ConfirmCode
  <2>4. verified' = verified \cup {h} /\ proved' = proved \cup {challenge[h].number}
    BY <1>7 DEF ConfirmCode
  <2>5. CASE h = "employee"
    BY <1>a, <1>b, <1>e, <2>1, <2>2, <2>3, <2>4, <2>5
  <2>6. CASE h # "employee"
    BY <1>a, <1>b, <1>e, <2>1, <2>2, <2>3, <2>4, <2>6
  <2> QED
    BY <2>5, <2>6
<1>8. ASSUME NEW h \in Holders, CodeExpires(h) PROVE PhoneInv'
  BY <1>8, <1>b, <1>e DEF CodeExpires
<1>9. CASE UNCHANGED phoneVars
  BY <1>9 DEF phoneVars
<1> QED
  BY <1>1, <1>2, <1>3, <1>4, <1>5, <1>6, <1>7, <1>8, <1>9 DEF PhoneNext, ConfirmWrongCode

-----------------------------------------------------------------------------
(* Correction requests *)

(* The types without the bounds of the model. *)
AskedRow == [type : {"add", "edit", "delete"}, entry : Nat, slot : Slots,
             status : {"pending", "approved", "rejected"}, applied : BOOLEAN]

StoredRow == [slot : Slots, live : BOOLEAN, origin : Nat]

Deciding == [pc : {"idle", "check", "apply", "mark", "reject"}, request : Nat]

CorrectionTypes ==
  /\ requests \in Seq(AskedRow) /\ rows \in Seq(StoredRow)
  /\ deciding \in [Reviewers -> Deciding]
  /\ \A w \in Reviewers : deciding[w].pc # "idle" => deciding[w].request \in DOMAIN requests

(* A row that stands for a request is where the request wants it. *)
RowsWhereAsked ==
  \A e \in LiveRows :
    LET r == rows[e].origin IN
    r # 0 => /\ r \in DOMAIN requests
             /\ requests[r].type = "add" /\ rows[e].slot = requests[r].slot

(* Whoever is about to add the time of a request adds it where nothing stands
   for it, unless two are at it. *)
Applies(w, r) == deciding[w].pc = "apply" /\ deciding[w].request = r

NothingStandsYet ==
  \A w \in Reviewers : \A r \in DOMAIN requests \ raced :
    Applies(w, r) /\ requests[r].type = "add" => \A e \in LiveRows : rows[e].origin # r

CorrectionInv ==
  /\ CorrectionTypes
  /\ RowsWhereAsked /\ NothingStandsYet /\ AddedOnce

LEMMA CorrectionInvInit == CorrectionInit => CorrectionInv
<1> SUFFICES ASSUME CorrectionInit PROVE CorrectionInv
  OBVIOUS
<1>1. requests = <<>> /\ rows = <<>> /\ DOMAIN requests = {} /\ DOMAIN rows = {}
  BY DEF CorrectionInit
<1>2. NotDeciding \in Deciding /\ NotDeciding.pc = "idle"
  BY DEF NotDeciding, Deciding
<1>3. CorrectionTypes
  BY <1>1, <1>2 DEF CorrectionInit, CorrectionTypes
<1> QED
  BY <1>1, <1>3
  DEF CorrectionInv, RowsWhereAsked, NothingStandsYet, AddedOnce, LiveRows

(* What changes requests leaves what they ask for. *)
SameRequests ==
  /\ requests' \in Seq(AskedRow)
  /\ DOMAIN requests \subseteq DOMAIN requests'
  /\ \A r \in DOMAIN requests :
       requests'[r].type = requests[r].type /\ requests'[r].slot = requests[r].slot

(* A reviewer goes on, or turns away. *)
LEMMA DecisionMoved ==
  ASSUME CorrectionTypes, NEW w \in Reviewers, NEW x \in Deciding,
         deciding' = [deciding EXCEPT ![w] = x], SameRequests,
         x.pc # "idle" => x.request \in DOMAIN requests
  PROVE  /\ deciding' \in [Reviewers -> Deciding]
         /\ deciding'[w] = x
         /\ \A v \in Reviewers : v # w => deciding'[v] = deciding[v]
         /\ \A v \in Reviewers : deciding'[v].pc # "idle" =>
              deciding'[v].request \in DOMAIN requests'
BY DEF CorrectionTypes, SameRequests

(* A request changes in place, or is added. *)
LEMMA RequestKept ==
  ASSUME CorrectionTypes, NEW r \in DOMAIN requests, NEW q \in AskedRow,
         q.type = requests[r].type, q.slot = requests[r].slot,
         requests' = [requests EXCEPT ![r] = q]
  PROVE  SameRequests /\ DOMAIN requests' = DOMAIN requests
<1>1. requests \in Seq(AskedRow) /\ DOMAIN requests = 1..Len(requests)
  BY LenProperties DEF CorrectionTypes
<1>2. requests' \in Seq(AskedRow)
  BY <1>1, ExceptSeq
<1> QED
  BY <1>1, <1>2 DEF SameRequests

LEMMA RequestAdded ==
  ASSUME CorrectionTypes, NEW q \in AskedRow, requests' = Append(requests, q)
  PROVE  SameRequests
<1>1. requests \in Seq(AskedRow) /\ DOMAIN requests = 1..Len(requests) /\ Len(requests) \in Nat
  BY LenProperties DEF CorrectionTypes
<1>2. /\ requests' \in Seq(AskedRow) /\ Len(requests') = Len(requests) + 1
      /\ \A i \in 1..Len(requests) : requests'[i] = requests[i]
  BY <1>1, AppendProperties
<1>3. DOMAIN requests' = 1..Len(requests')
  BY <1>2, LenProperties
<1> QED
  BY <1>1, <1>2, <1>3 DEF SameRequests

(* Steps after which the live rows stand for no more than before, and nobody is
   about to add who has not looked. *)
LEMMA RowsThinned ==
  ASSUME CorrectionInv, SameRequests, rows' \in Seq(StoredRow), raced \subseteq raced',
         LiveRows' \subseteq LiveRows,
         \A e \in LiveRows' : \/ rows'[e].origin = 0
                              \/ rows'[e].origin = rows[e].origin /\ rows'[e].slot = rows[e].slot,
         deciding' \in [Reviewers -> Deciding],
         \A v \in Reviewers : deciding'[v].pc # "idle" => deciding'[v].request \in DOMAIN requests',
         \A v \in Reviewers : \A r : Applies(v, r)' =>
           r \in DOMAIN requests /\ (Applies(v, r) \/ Applicable(requests[r]))
  PROVE  CorrectionInv'
<1>1. CorrectionTypes /\ RowsWhereAsked /\ NothingStandsYet /\ AddedOnce
  BY DEF CorrectionInv
<1>2. CorrectionTypes'
  BY DEF CorrectionTypes, SameRequests
<1>3. RowsWhereAsked'
  BY <1>1 DEF RowsWhereAsked, SameRequests
<1>4. NothingStandsYet'
  <2> SUFFICES ASSUME NEW v \in Reviewers, NEW r \in DOMAIN requests' \ raced', Applies(v, r)',
                      requests'[r].type = "add", NEW e \in LiveRows', rows'[e].origin = r
               PROVE  FALSE
    BY DEF NothingStandsYet
  <2>1. r \in DOMAIN requests \ raced /\ requests[r].type = "add"
    BY DEF SameRequests
  <2>2. r # 0
    BY <1>1, <2>1, LenProperties DEF CorrectionTypes
  <2>3. e \in LiveRows /\ rows[e].origin = r
    BY <2>2
  <2>4. CASE Applies(v, r)
    BY <1>1, <2>1, <2>3, <2>4 DEF NothingStandsYet
  <2>5. CASE Applicable(requests[r])
    <3>1. rows[e].slot # requests[r].slot
      BY <2>1, <2>3, <2>5 DEF Applicable, SlotFree
    <3> QED
      BY <1>1, <2>2, <2>3, <3>1 DEF RowsWhereAsked
  <2> QED
    BY <2>4, <2>5
<1>5. AddedOnce'
  <2> SUFFICES ASSUME NEW r \in DOMAIN requests' \ raced', NEW e1 \in LiveRows', NEW e2 \in LiveRows',
                      rows'[e1].origin = r, rows'[e2].origin = r
               PROVE  e1 = e2
    BY DEF AddedOnce
  <2>1. r # 0
    BY LenProperties DEF SameRequests
  <2>2. e1 \in LiveRows /\ e2 \in LiveRows /\ rows[e1].origin = r /\ rows[e2].origin = r
    BY <2>1
  <2>3. r \in DOMAIN requests \ raced
    BY <1>1, <2>1, <2>2 DEF RowsWhereAsked
  <2> QED
    BY <1>1, <2>2, <2>3 DEF AddedOnce
<1> QED
  BY <1>2, <1>3, <1>4, <1>5 DEF CorrectionInv

(* A row is added. *)
LEMMA RowAdded ==
  ASSUME CorrectionTypes, NEW row \in StoredRow, row.live, rows' = Append(rows, row)
  PROVE  /\ rows' \in Seq(StoredRow)
         /\ Len(rows) + 1 \notin LiveRows
         /\ LiveRows' = LiveRows \cup {Len(rows) + 1}
         /\ rows'[Len(rows) + 1] = row
         /\ \A e \in LiveRows : rows'[e] = rows[e]
<1>1. rows \in Seq(StoredRow) /\ DOMAIN rows = 1..Len(rows) /\ Len(rows) \in Nat
  BY LenProperties DEF CorrectionTypes
<1>2. /\ rows' \in Seq(StoredRow) /\ Len(rows') = Len(rows) + 1 /\ rows'[Len(rows) + 1] = row
      /\ \A i \in 1..Len(rows) : rows'[i] = rows[i]
  BY <1>1, AppendProperties
<1>3. DOMAIN rows' = 1..(Len(rows) + 1)
  BY <1>2, LenProperties
<1>4. LiveRows \subseteq 1..Len(rows)
  BY <1>1 DEF LiveRows
<1>5. LiveRows' = LiveRows \cup {Len(rows) + 1}
  BY <1>1, <1>2, <1>3 DEF LiveRows
<1> QED
  BY <1>1, <1>2, <1>4, <1>5

LEMMA InsertOwnTimeStep ==
  ASSUME CorrectionInv, NEW s \in Slots, InsertOwnTime(s)
  PROVE  CorrectionInv'
<1> DEFINE row == [slot |-> s, live |-> TRUE, origin |-> 0]
<1>1. CorrectionTypes /\ RowsWhereAsked /\ NothingStandsYet /\ AddedOnce
  BY DEF CorrectionInv
<1>2. UNCHANGED <<requests, deciding, raced>> /\ rows' = Append(rows, row)
  BY DEF InsertOwnTime, AppendRow
<1>3. row \in StoredRow /\ row.live /\ row.origin = 0
  BY DEF StoredRow
<1> HIDE DEF row
<1>4. /\ rows' \in Seq(StoredRow)
      /\ LiveRows' = LiveRows \cup {Len(rows) + 1} /\ rows'[Len(rows) + 1].origin = 0
      /\ \A e \in LiveRows : rows'[e] = rows[e]
  BY <1>1, <1>2, <1>3, RowAdded
<1>5. CorrectionTypes'
  BY <1>1, <1>2, <1>4 DEF CorrectionTypes
<1>6. RowsWhereAsked'
  BY <1>1, <1>2, <1>4 DEF RowsWhereAsked
<1>7. \A r \in DOMAIN requests : r # 0
  BY <1>1, LenProperties DEF CorrectionTypes
<1>a. \A r \in DOMAIN requests : \A e \in LiveRows' :
        rows'[e].origin = r => e \in LiveRows /\ rows[e].origin = r
  BY <1>4, <1>7
<1>8. NothingStandsYet'
  BY <1>1, <1>2, <1>a DEF NothingStandsYet, Applies
<1>9. AddedOnce'
  <2> SUFFICES ASSUME NEW r \in DOMAIN requests \ raced, NEW e1 \in LiveRows', NEW e2 \in LiveRows',
                      rows'[e1].origin = r, rows'[e2].origin = r
               PROVE  e1 = e2
    BY <1>2 DEF AddedOnce
  <2> QED
    BY <1>1, <1>a DEF AddedOnce
<1> QED
  BY <1>5, <1>6, <1>8, <1>9 DEF CorrectionInv

(* The time of a request is added, and nothing stood for it. *)
LEMMA AddChangeStep ==
  ASSUME CorrectionInv, NEW w \in Reviewers, ApplyChange(w),
         requests[deciding[w].request].type = "add"
  PROVE  CorrectionInv'
<1> DEFINE r == deciding[w].request
           q == requests[r]
           row == [slot |-> q.slot, live |-> TRUE, origin |-> r]
           done == [q EXCEPT !.applied = TRUE]
           marking == [deciding[w] EXCEPT !.pc = "mark"]
<1>1. CorrectionTypes /\ RowsWhereAsked /\ NothingStandsYet /\ AddedOnce
  BY DEF CorrectionInv
<1>2. deciding[w].pc = "apply" /\ r \in DOMAIN requests /\ q \in AskedRow /\ r # 0 /\ r \in Nat
  BY <1>1, LenProperties, ElementOfSeq DEF ApplyChange, CorrectionTypes
<1>3. /\ rows' = Append(rows, row)
      /\ requests' = [requests EXCEPT ![r] = done]
      /\ deciding' = [deciding EXCEPT ![w] = marking]
  BY <1>2 DEF ApplyChange, AppendRow, Carried, Turns
<1>4. row \in StoredRow /\ row.live /\ row.origin = r /\ row.slot = q.slot
  BY <1>2 DEF StoredRow, AskedRow
<1>5. done \in AskedRow /\ done.type = q.type /\ done.slot = q.slot
  BY <1>2 DEF AskedRow
<1>6. deciding[w] \in Deciding
  BY <1>1 DEF CorrectionTypes
<1>7. marking \in Deciding /\ marking.pc = "mark" /\ marking.request = r
  BY <1>6 DEF Deciding
<1>8. q.type = "add"
  OBVIOUS
<1>9. \/ raced' = raced \cup {r}
      \/ raced' = raced /\ \A v \in Reviewers \ {w} : deciding[v] # [pc |-> "apply", request |-> r]
  BY DEF ApplyChange
<1>10. PICK n : n = Len(rows) + 1
  OBVIOUS
<1> HIDE DEF row, done, marking, r, q
<1>12. /\ rows' \in Seq(StoredRow) /\ n \notin LiveRows
       /\ LiveRows' = LiveRows \cup {n} /\ rows'[n] = row
       /\ \A e \in LiveRows : rows'[e] = rows[e]
  BY <1>1, <1>3, <1>4, <1>10, RowAdded
<1>13. SameRequests /\ DOMAIN requests' = DOMAIN requests
  BY <1>1, <1>2, <1>3, <1>5, RequestKept DEF q
<1>14. /\ deciding' \in [Reviewers -> Deciding] /\ deciding'[w].pc = "mark"
       /\ \A v \in Reviewers : v # w => deciding'[v] = deciding[v]
       /\ \A v \in Reviewers : deciding'[v].pc # "idle" =>
            deciding'[v].request \in DOMAIN requests'
  BY <1>1, <1>2, <1>3, <1>7, <1>13, DecisionMoved
<1>15. CorrectionTypes'
  BY <1>12, <1>13, <1>14 DEF CorrectionTypes, SameRequests
<1>16. RowsWhereAsked'
  <2> SUFFICES ASSUME NEW e \in LiveRows', rows'[e].origin # 0
               PROVE  /\ rows'[e].origin \in DOMAIN requests'
                      /\ requests'[rows'[e].origin].type = "add"
                      /\ rows'[e].slot = requests'[rows'[e].origin].slot
    BY DEF RowsWhereAsked
  <2>1. CASE e = n
    BY <1>2, <1>4, <1>8, <1>12, <1>13, <2>1 DEF SameRequests, q
  <2>2. CASE e # n
    BY <1>1, <1>12, <1>13, <2>2 DEF RowsWhereAsked, SameRequests
  <2> QED
    BY <2>1, <2>2
<1>17. raced \subseteq raced'
  BY <1>9
<1>18. ASSUME NEW v \in Reviewers, NEW r2 \in DOMAIN requests \ raced', Applies(v, r2)'
       PROVE  Applies(v, r2) /\ r2 # r
  <2>1. v # w /\ Applies(v, r2)
    BY <1>14, <1>18 DEF Applies
  <2>2. deciding[v] \in Deciding
    BY <1>1 DEF CorrectionTypes
  <2>3. deciding[v] = [pc |-> "apply", request |-> r2]
    BY <2>1, <2>2 DEF Applies, Deciding
  <2> QED
    BY <1>9, <2>1, <2>3
<1>19. NothingStandsYet'
  <2> SUFFICES ASSUME NEW v \in Reviewers, NEW r2 \in DOMAIN requests \ raced', Applies(v, r2)',
                      requests'[r2].type = "add", NEW e \in LiveRows', rows'[e].origin = r2
               PROVE  FALSE
    BY <1>13 DEF NothingStandsYet
  <2>1. Applies(v, r2) /\ r2 # r /\ r2 \notin raced /\ requests[r2].type = "add"
    BY <1>13, <1>17, <1>18 DEF SameRequests
  <2>2. e \in LiveRows /\ rows[e].origin = r2
    BY <1>4, <1>12, <2>1
  <2> QED
    BY <1>1, <2>1, <2>2 DEF NothingStandsYet
<1>20. r \notin raced => \A e \in LiveRows : rows[e].origin # r
  <2>1. Applies(w, r)
    BY <1>2 DEF Applies, r
  <2> QED
    BY <1>1, <1>2, <1>8, <2>1 DEF NothingStandsYet, q
<1>21. AddedOnce'
  <2> SUFFICES ASSUME NEW r2 \in DOMAIN requests \ raced', NEW e1 \in LiveRows', NEW e2 \in LiveRows',
                      rows'[e1].origin = r2, rows'[e2].origin = r2
               PROVE  e1 = e2
    BY <1>13 DEF AddedOnce
  <2>1. r2 \notin raced
    BY <1>17
  <2>2. CASE r2 = r
    BY <1>4, <1>12, <1>20, <2>1, <2>2
  <2>3. CASE r2 # r
    BY <1>1, <1>4, <1>12, <2>1, <2>3 DEF AddedOnce
  <2> QED
    BY <2>2, <2>3
<1> QED
  BY <1>15, <1>16, <1>19, <1>21 DEF CorrectionInv

(* The row of a request changes, or goes. *)
LEMMA OtherChangeStep ==
  ASSUME CorrectionInv, NEW w \in Reviewers, ApplyChange(w),
         requests[deciding[w].request].type # "add"
  PROVE  CorrectionInv'
<1> DEFINE r == deciding[w].request
           q == requests[r]
           done == [q EXCEPT !.applied = TRUE]
           marking == [deciding[w] EXCEPT !.pc = "mark"]
<1>1. CorrectionTypes /\ rows \in Seq(StoredRow) /\ DOMAIN rows = 1..Len(rows)
      /\ \A e \in DOMAIN rows : rows[e] \in StoredRow
  BY LenProperties, ElementOfSeq DEF CorrectionInv, CorrectionTypes
<1>2. deciding[w] \in Deciding /\ r \in DOMAIN requests /\ q \in AskedRow
  BY <1>1, LenProperties, ElementOfSeq DEF ApplyChange, CorrectionTypes
<1>3. raced \subseteq raced'
  BY DEF ApplyChange
<1>4. done \in AskedRow /\ done.type = q.type /\ done.slot = q.slot
  BY <1>2 DEF AskedRow
<1>5. marking \in Deciding /\ marking.pc = "mark" /\ marking.request = r
  BY <1>2 DEF Deciding
<1>6. NotDeciding \in Deciding /\ NotDeciding.pc = "idle"
  BY DEF NotDeciding, Deciding
<1>7. \/ /\ rows' = [rows EXCEPT ![q.entry].live = FALSE]
         /\ requests' = [requests EXCEPT ![r] = done]
         /\ deciding' = [deciding EXCEPT ![w] = marking]
      \/ /\ rows' = [rows EXCEPT ![q.entry].slot = q.slot, ![q.entry].origin = 0]
         /\ requests' = [requests EXCEPT ![r] = done]
         /\ deciding' = [deciding EXCEPT ![w] = marking]
      \/ /\ deciding' = [deciding EXCEPT ![w] = NotDeciding]
         /\ UNCHANGED <<requests, rows>>
  BY DEF ApplyChange, Carried, Turns, TurnsAway
<1>8. SameRequests
  <2>1. CASE requests' = [requests EXCEPT ![r] = done]
    BY <1>1, <1>2, <1>4, <2>1, RequestKept
  <2>2. CASE requests' = requests
    BY <1>1, <2>2 DEF SameRequests, CorrectionTypes
  <2> QED
    BY <1>7, <2>1, <2>2
<1>9. PICK x \in Deciding : /\ deciding' = [deciding EXCEPT ![w] = x] /\ x.pc # "apply"
                            /\ x.pc # "idle" => x.request \in DOMAIN requests
  BY <1>2, <1>5, <1>6, <1>7
<1>10. /\ deciding' \in [Reviewers -> Deciding] /\ deciding'[w] = x
       /\ \A v \in Reviewers : v # w => deciding'[v] = deciding[v]
       /\ \A v \in Reviewers : deciding'[v].pc # "idle" =>
            deciding'[v].request \in DOMAIN requests'
  BY <1>1, <1>8, <1>9, DecisionMoved
<1>11. /\ rows' \in Seq(StoredRow)
       /\ LiveRows' \subseteq LiveRows
       /\ \A e \in LiveRows' : \/ rows'[e].origin = 0
                               \/ rows'[e].origin = rows[e].origin /\ rows'[e].slot = rows[e].slot
  <2>1. CASE rows' = rows
    BY <1>1, <2>1 DEF LiveRows
  <2>2. CASE rows' = [rows EXCEPT ![q.entry].live = FALSE]
    <3> DEFINE gone == [rows[q.entry] EXCEPT !.live = FALSE]
    <3>1. rows' = [rows EXCEPT ![q.entry] = gone]
      BY <2>2
    <3>2. CASE q.entry \in DOMAIN rows
      <4>1. gone \in StoredRow /\ ~gone.live
        BY <1>1, <3>2 DEF StoredRow
      <4> HIDE DEF gone
      <4>2. rows' \in Seq(StoredRow) /\ DOMAIN rows' = DOMAIN rows
        BY <1>1, <3>1, <3>2, <4>1, ExceptSeq
      <4>3. \A e \in DOMAIN rows : rows'[e] = IF e = q.entry THEN gone ELSE rows[e]
        BY <3>1
      <4> QED
        BY <4>1, <4>2, <4>3 DEF LiveRows
    <3>3. CASE q.entry \notin DOMAIN rows
      <4>1. rows' = rows
        BY <1>1, <3>1, <3>3
      <4> QED
        BY <1>1, <4>1 DEF LiveRows
    <3> QED
      BY <3>2, <3>3
  <2>3. CASE rows' = [rows EXCEPT ![q.entry].slot = q.slot, ![q.entry].origin = 0]
    <3> DEFINE moved == [[rows[q.entry] EXCEPT !.slot = q.slot] EXCEPT !.origin = 0]
    <3>2. CASE q.entry \in DOMAIN rows
      <4>0. rows' = [rows EXCEPT ![q.entry] = moved]
        BY <2>3, <3>2
      <4>1. moved \in StoredRow /\ moved.live = rows[q.entry].live /\ moved.origin = 0
        BY <1>1, <1>2, <3>2 DEF StoredRow, AskedRow
      <4> HIDE DEF moved
      <4>2. rows' \in Seq(StoredRow) /\ DOMAIN rows' = DOMAIN rows
        BY <1>1, <4>0, <3>2, <4>1, ExceptSeq
      <4>3. \A e \in DOMAIN rows : rows'[e] = IF e = q.entry THEN moved ELSE rows[e]
        BY <4>0
      <4> QED
        BY <4>1, <4>2, <4>3 DEF LiveRows
    <3>3. CASE q.entry \notin DOMAIN rows
      <4>1. rows' = rows
        BY <1>1, <2>3, <3>3
      <4> QED
        BY <1>1, <4>1 DEF LiveRows
    <3> QED
      BY <3>2, <3>3
  <2> QED
    BY <1>7, <2>1, <2>2, <2>3
<1>12. ASSUME NEW v \in Reviewers, NEW k, Applies(v, k)'
       PROVE  k \in DOMAIN requests /\ (Applies(v, k) \/ Applicable(requests[k]))
  <2>1. v # w /\ Applies(v, k)
    BY <1>9, <1>10, <1>12 DEF Applies
  <2> QED
    BY <1>1, <2>1 DEF Applies, CorrectionTypes
<1> QED
  BY <1>3, <1>8, <1>10, <1>11, <1>12, RowsThinned

(* What leaves the rows: requests are made, read, looked at, marked or given
   up. *)
LEMMA PaperStep ==
  ASSUME CorrectionInv, UNCHANGED <<rows, raced>>, SameRequests,
         NEW w \in Reviewers, NEW x \in Deciding, deciding' = [deciding EXCEPT ![w] = x],
         x.pc # "idle" => x.request \in DOMAIN requests,
         x.pc = "apply" => Applicable(requests[x.request])
  PROVE  CorrectionInv'
<1>1. CorrectionTypes
  BY DEF CorrectionInv
<1>2. /\ deciding' \in [Reviewers -> Deciding] /\ deciding'[w] = x
      /\ \A v \in Reviewers : v # w => deciding'[v] = deciding[v]
      /\ \A v \in Reviewers : deciding'[v].pc # "idle" =>
           deciding'[v].request \in DOMAIN requests'
  BY <1>1, DecisionMoved
<1>3. ASSUME NEW v \in Reviewers, NEW k, Applies(v, k)'
      PROVE  k \in DOMAIN requests /\ (Applies(v, k) \/ Applicable(requests[k]))
  BY <1>1, <1>2, <1>3 DEF Applies, CorrectionTypes
<1>4. rows' \in Seq(StoredRow) /\ LiveRows' = LiveRows
  BY <1>1 DEF CorrectionTypes, LiveRows
<1> QED
  BY <1>2, <1>3, <1>4, RowsThinned

LEMMA AskedStep ==
  ASSUME CorrectionInv, UNCHANGED <<rows, raced, deciding>>, SameRequests
  PROVE  CorrectionInv'
<1>1. CorrectionTypes
  BY DEF CorrectionInv
<1>2. ASSUME NEW v \in Reviewers, NEW k, Applies(v, k)'
      PROVE  k \in DOMAIN requests /\ (Applies(v, k) \/ Applicable(requests[k]))
  BY <1>1, <1>2 DEF Applies, CorrectionTypes
<1>3. \A v \in Reviewers : deciding'[v].pc # "idle" => deciding'[v].request \in DOMAIN requests'
  BY <1>1 DEF CorrectionTypes, SameRequests
<1>4. rows' \in Seq(StoredRow) /\ LiveRows' = LiveRows /\ deciding' \in [Reviewers -> Deciding]
  BY <1>1 DEF CorrectionTypes, LiveRows
<1> QED
  BY <1>2, <1>3, <1>4, RowsThinned

(* Every step of the employee and of the reviewers keeps the invariant. *)
LEMMA CorrectionInvStep == CorrectionInv /\ [CorrectionNext]_correctionVars => CorrectionInv'
<1> SUFFICES ASSUME CorrectionInv, [CorrectionNext]_correctionVars PROVE CorrectionInv'
  OBVIOUS
<1>a. CorrectionTypes /\ requests \in Seq(AskedRow) /\ deciding \in [Reviewers -> Deciding]
  BY DEF CorrectionInv, CorrectionTypes
<1>b. requests' = requests => SameRequests
  BY <1>a DEF SameRequests
<1>c. NotDeciding \in Deciding /\ NotDeciding.pc = "idle"
  BY DEF NotDeciding, Deciding
<1>1. ASSUME NEW type \in {"add", "edit", "delete"}, NEW e \in Nat, NEW s \in Slots,
             Ask(type, e, s)
      PROVE  SameRequests
  <2> DEFINE q == [type |-> type, entry |-> e, slot |-> s, status |-> "pending",
                   applied |-> FALSE]
  <2>1. q \in AskedRow
    BY DEF AskedRow
  <2>2. requests' = Append(requests, q)
    BY <1>1 DEF Ask
  <2> QED
    BY <1>a, <2>1, <2>2, RequestAdded
<1>2. ASSUME NEW type \in {"add", "edit", "delete"}, NEW e \in Nat, NEW s \in Slots,
             CreateRequest(type, e, s)
      PROVE  CorrectionInv'
  BY <1>1, <1>2, AskedStep DEF CreateRequest
<1>3. ASSUME NEW s \in Slots, AddOwnTime(s) PROVE CorrectionInv'
  BY <1>1, <1>3, <1>b, AskedStep DEF AddOwnTime
<1>4. LiveRows \subseteq Nat
  BY <1>a, LenProperties DEF LiveRows, CorrectionTypes
<1>5. ASSUME NEW w \in Reviewers, NEW r \in DOMAIN requests, NEW pc \in {"check", "reject"},
             ReadPending(w, r, pc)
      PROVE  CorrectionInv'
  <2> DEFINE x == [pc |-> pc, request |-> r]
  <2>1. x \in Deciding /\ x.pc = pc /\ x.request = r
    BY <1>a, LenProperties DEF Deciding
  <2>2. deciding' = [deciding EXCEPT ![w] = x] /\ UNCHANGED <<requests, rows, raced>>
    BY <1>5 DEF ReadPending
  <2> HIDE DEF x
  <2> QED
    BY <1>b, <2>1, <2>2, PaperStep
<1>6. ASSUME NEW w \in Reviewers, CheckChange(w) PROVE CorrectionInv'
  <2> DEFINE x == IF Applicable(requests[deciding[w].request])
                  THEN [deciding[w] EXCEPT !.pc = "apply"] ELSE NotDeciding
  <2>1. deciding[w] \in Deciding /\ deciding[w].request \in DOMAIN requests
    BY <1>6, <1>a DEF CheckChange, CorrectionTypes
  <2>2. /\ x \in Deciding
        /\ x.pc # "idle" => x.request \in DOMAIN requests
        /\ x.pc = "apply" => Applicable(requests[x.request])
    BY <1>c, <2>1 DEF Deciding
  <2>3. deciding' = [deciding EXCEPT ![w] = x] /\ UNCHANGED <<requests, rows, raced>>
    BY <1>6 DEF CheckChange, Turns, TurnsAway
  <2> HIDE DEF x
  <2> QED
    BY <1>b, <2>2, <2>3, PaperStep
<1>7. ASSUME NEW w \in Reviewers, MarkRequest(w) PROVE CorrectionInv'
  <2> DEFINE r == deciding[w].request
             q == [requests[r] EXCEPT !.status = IF deciding[w].pc = "reject" THEN "rejected"
                                                 ELSE "approved"]
  <2>1. r \in DOMAIN requests /\ requests[r] \in AskedRow
    BY <1>7, <1>a, LenProperties, ElementOfSeq DEF MarkRequest, CorrectionTypes
  <2>2. q \in AskedRow /\ q.type = requests[r].type /\ q.slot = requests[r].slot
    BY <2>1 DEF AskedRow
  <2>3. requests' = [requests EXCEPT ![r] = q] /\ UNCHANGED <<rows, raced>>
    BY <1>7 DEF MarkRequest
  <2>4. SameRequests
    BY <1>a, <2>1, <2>2, <2>3, RequestKept
  <2>5. deciding' = [deciding EXCEPT ![w] = NotDeciding]
    BY <1>7 DEF MarkRequest, TurnsAway
  <2> QED
    BY <1>c, <2>3, <2>4, <2>5, PaperStep
<1>8. ASSUME NEW w \in Reviewers, ReviewerStops(w) PROVE CorrectionInv'
  BY <1>8, <1>b, <1>c, PaperStep DEF ReviewerStops, TurnsAway
<1>9. CASE UNCHANGED correctionVars
  BY <1>9, <1>b, AskedStep DEF correctionVars
<1> QED
  BY <1>2, <1>3, <1>4, <1>5, <1>6, <1>7, <1>8, <1>9,
     InsertOwnTimeStep, AddChangeStep, OtherChangeStep
  DEF CorrectionNext

LEMMA CorrectionInvAlways == CorrectionSpec => []CorrectionInv
  BY CorrectionInvInit, CorrectionInvStep, PTL DEF CorrectionSpec

(* approveCorrectionRequest checks, adds the time and marks the request in three
   transactions.  For any slots, requests and reviewers, some of them stopped
   on the way: the time of a request does not stand in the table twice, unless
   two reviewers were at the request at one moment. *)
THEOREM AddedOnceAlways == CorrectionSpec => []AddedOnce
<1>1. CorrectionInv => AddedOnce
  BY DEF CorrectionInv
<1> QED
  BY <1>1, CorrectionInvAlways, PTL

-----------------------------------------------------------------------------
(* Access groups *)

(* What desiredGroupAccess can say of some grants and groups *)
DesiredRoles == Grants \cup {Desired(grants, groups) : grants \in [AccessGroupIds -> Grants],
                                                      groups \in SUBSET AccessGroupIds}

EditRows == [pc : {"desired", "current", "write"}, kind : {"members", "companies", "revoke"},
             group : AccessGroupIds, role : Grants, desired : DesiredRoles,
             current : [id : Nat, byGroup : BOOLEAN], alone : BOOLEAN]

MembershipRows == [id : Nat, role : DesiredRoles, byGroup : BOOLEAN]

AccessTypes ==
  /\ granting \in [AccessGroupIds -> Grants] /\ belongs \subseteq AccessGroupIds
  /\ membership \in MembershipRows /\ lastId \in Nat
  /\ membership.id = 0 => membership = NoMembership
  /\ editing \in [AccessAdmins -> EditRows \cup {NotEditing}]
  /\ overlapped \in BOOLEAN

Alone(a) == a \in Editing /\ editing[a].alone

AloneIsAlone == \A a, b \in AccessAdmins : Alone(a) /\ b \in Editing => a = b

(* What a transaction that runs alone has read still stands, but for a direct
   membership that has come in between. *)
DesiredIsSeen(a) ==
  editing[a].desired = Desired(GrantsSeen(editing[a]), MembersSeen(editing[a]))

DesiredStands ==
  \A a \in AccessAdmins : Alone(a) /\ editing[a].pc # "desired" => DesiredIsSeen(a)

Direct(row) == row.id # 0 /\ ~row.byGroup

CurrentFits(a) ==
  LET current == editing[a].current IN
  \/ current.id = 0 /\ ~current.byGroup /\ (Rest(a) = NoMembership \/ Direct(Rest(a)))
  \/ Direct(current) /\ Direct(Rest(a))
  \/ current.id # 0 /\ current.byGroup /\ Rest(a).id = current.id

CurrentStands ==
  \A a \in AccessAdmins : Alone(a) /\ editing[a].pc = "write" => CurrentFits(a)

AccessInv ==
  /\ AccessTypes /\ AloneIsAlone /\ DesiredStands /\ CurrentStands /\ AccessFollowsGroups

LEMMA EmptyRows ==
  /\ NoMembership \in MembershipRows
  /\ NoMembership.id = 0 /\ NoMembership.role = 0 /\ ~NoMembership.byGroup
  /\ NotEditing \notin EditRows
BY DEF NoMembership, MembershipRows, DesiredRoles, Grants, NotEditing, EditRows

LEMMA AccessInvInit == AccessInit => AccessInv
<1> SUFFICES ASSUME AccessInit PROVE AccessInv
  OBVIOUS
<1>1. \A a \in AccessAdmins : a \notin Editing
  BY DEF AccessInit, Editing
<1>2. AccessTypes
  BY EmptyRows DEF AccessInit, AccessTypes, Grants
<1>3. overlapped = FALSE /\ membership = NoMembership /\ belongs = {}
      /\ granting = [g \in AccessGroupIds |-> 0]
  BY DEF AccessInit
<1>4. {granting[g] : g \in belongs} = {}
  BY <1>3
<1>5. Desired(granting, belongs) = 0
  <2>1. \A x : x \in {0} => (x = 0 /\ x >= 0)
    OBVIOUS
  <2>2. {0} \cup {granting[g] : g \in belongs} = {0}
    BY <1>4
  <2> QED
    BY <2>1, <2>2 DEF Desired, Max
<1> QED
  BY <1>1, <1>2, <1>3, <1>5, EmptyRows
  DEF AccessInv, AloneIsAlone, DesiredStands, CurrentStands, AccessFollowsGroups, Alone

(* What a transaction sees depends on what it changes, and on the tables. *)
LEMMA SeenTables ==
  ASSUME AccessTypes, NEW a \in Editing
  PROVE  /\ a \in AccessAdmins /\ editing[a] \in EditRows
         /\ MembersSeen(editing[a]) \in SUBSET AccessGroupIds
         /\ GrantsSeen(editing[a]) \in [AccessGroupIds -> Grants]
         /\ Desired(GrantsSeen(editing[a]), MembersSeen(editing[a])) \in DesiredRoles
<1>1. a \in AccessAdmins /\ editing[a] \in EditRows
  BY DEF Editing, AccessTypes
<1>2. MembersSeen(editing[a]) \in SUBSET AccessGroupIds
  BY <1>1 DEF MembersSeen, AccessTypes, EditRows
<1>3. GrantsSeen(editing[a]) \in [AccessGroupIds -> Grants]
  BY <1>1 DEF GrantsSeen, AccessTypes, EditRows
<1> QED
  BY <1>1, <1>2, <1>3 DEF DesiredRoles

(* A transaction is over: nobody else ran alone. *)
LEMMA EditEnds ==
  ASSUME AccessInv, NEW a \in Editing, editing' = [editing EXCEPT ![a] = NotEditing]
  PROVE  /\ editing' \in [AccessAdmins -> EditRows \cup {NotEditing}]
         /\ AloneIsAlone' /\ DesiredStands' /\ CurrentStands'
<1>1. a \in AccessAdmins /\ editing \in [AccessAdmins -> EditRows \cup {NotEditing}]
  BY DEF AccessInv, AccessTypes, Editing
<1>2. \A b \in AccessAdmins : editing'[b] = IF b = a THEN NotEditing ELSE editing[b]
  BY <1>1
<1>3. \A b \in AccessAdmins : ~Alone(b)'
  BY <1>1, <1>2 DEF AccessInv, AloneIsAlone, Alone, Editing
<1> QED
  BY <1>1, <1>3 DEF AloneIsAlone, DesiredStands, CurrentStands

LEMMA CommitKeeps ==
  ASSUME AccessInv, NEW a \in Editing, NEW row \in MembershipRows, Commit(a, row),
         row.id = 0 => row = NoMembership, lastId' \in Nat, overlapped' \in BOOLEAN,
         AccessFollowsGroups'
  PROVE  AccessInv'
<1>1. AccessTypes
  BY DEF AccessInv
<1>2. /\ belongs' \subseteq AccessGroupIds /\ granting' \in [AccessGroupIds -> Grants]
      /\ membership' = row
  BY <1>1, SeenTables DEF Commit
<1>3. /\ editing' \in [AccessAdmins -> EditRows \cup {NotEditing}]
      /\ AloneIsAlone' /\ DesiredStands' /\ CurrentStands'
  BY EditEnds DEF Commit
<1> QED
  BY <1>2, <1>3 DEF AccessInv, AccessTypes

(* Whom the change does not affect keeps what the groups grant. *)
LEMMA UnaffectedKeeps ==
  ASSUME AccessTypes, NEW a \in Editing, ~Affected(editing[a])
  PROVE  Desired(GrantsSeen(editing[a]), MembersSeen(editing[a])) = Desired(granting, belongs)
<1> DEFINE x == editing[a]
<1>1. x \in EditRows
  BY SeenTables
<1>2. x.group \notin belongs
      /\ (x.kind = "companies" \/ (x.kind = "members" /\ x.role = 0))
  BY <1>1 DEF Affected, EditRows
<1>3. MembersSeen(x) = belongs
  BY <1>2 DEF MembersSeen
<1>4. \A g \in belongs : GrantsSeen(x)[g] = granting[g]
  BY <1>2 DEF GrantsSeen, AccessTypes
<1>5. {GrantsSeen(x)[g] : g \in belongs} = {granting[g] : g \in belongs}
  BY <1>4
<1> QED
  BY <1>3, <1>5 DEF Desired

LEMMA ReadDesiredStep ==
  ASSUME AccessInv, NEW a \in AccessAdmins, ReadDesired(a)
  PROVE  AccessInv'
<1> DEFINE x == editing[a]
           wanted == Desired(GrantsSeen(x), MembersSeen(x))
<1>1. /\ AccessTypes /\ AloneIsAlone /\ DesiredStands /\ CurrentStands /\ AccessFollowsGroups
      /\ a \in Editing /\ lastId' = lastId
  BY DEF AccessInv, ReadDesired
<1>2. x \in EditRows /\ wanted \in DesiredRoles
  BY <1>1, SeenTables
<1>3. CASE Affected(x)
  <2> DEFINE y == [[x EXCEPT !.pc = "current"] EXCEPT !.desired = wanted]
  <2>1. editing' = [editing EXCEPT ![a] = y]
        /\ UNCHANGED <<granting, belongs, membership, overlapped>>
    BY <1>1, <1>3 DEF ReadDesired, AccessTypes
  <2>2. /\ y \in EditRows /\ y.pc = "current" /\ y.desired = wanted /\ y.alone = x.alone
        /\ y.kind = x.kind /\ y.group = x.group /\ y.role = x.role
    BY <1>2 DEF EditRows
  <2>3. GrantsSeen(y) = GrantsSeen(x) /\ MembersSeen(y) = MembersSeen(x)
    BY <2>2 DEF GrantsSeen, MembersSeen
  <2>4. PICK z \in EditRows : z = y
    BY <2>2
  <2>5. /\ editing' \in [AccessAdmins -> EditRows \cup {NotEditing}]
        /\ editing'[a] = z /\ \A b \in AccessAdmins : b # a => editing'[b] = editing[b]
    BY <1>1, <2>1, <2>4 DEF AccessTypes
  <2>6. /\ z.pc = "current" /\ z.alone = x.alone
        /\ z.desired = Desired(GrantsSeen(z), MembersSeen(z))
    BY <2>2, <2>3, <2>4
  <2> HIDE DEF x, y, wanted
  <2>7. Editing' = Editing
    BY <1>1, <2>5, EmptyRows DEF Editing
  <2>8. \A b \in AccessAdmins : Alone(b)' <=> Alone(b)
    BY <2>5, <2>6, <2>7 DEF Alone, x
  <2>9. AccessTypes' /\ AccessFollowsGroups' /\ AloneIsAlone'
    BY <1>1, <2>1, <2>5, <2>7, <2>8 DEF AccessTypes, AccessFollowsGroups, AloneIsAlone
  <2>10. DesiredStands'
    <3> SUFFICES ASSUME NEW b \in AccessAdmins, Alone(b)', editing'[b].pc # "desired"
                 PROVE  DesiredIsSeen(b)'
      BY DEF DesiredStands
    <3>1. CASE b = a
      BY <2>1, <2>5, <2>6, <3>1 DEF DesiredIsSeen, GrantsSeen, MembersSeen
    <3>2. CASE b # a
      <4>1. DesiredIsSeen(b) /\ editing'[b] = editing[b]
        BY <1>1, <2>5, <2>8, <3>2 DEF DesiredStands
      <4> QED
        BY <2>1, <4>1 DEF DesiredIsSeen, GrantsSeen, MembersSeen
    <3> QED
      BY <3>1, <3>2
  <2>11. CurrentStands'
    <3> SUFFICES ASSUME NEW b \in AccessAdmins, Alone(b)', editing'[b].pc = "write"
                 PROVE  CurrentFits(b)'
      BY DEF CurrentStands
    <3>1. b # a /\ Alone(b)
      BY <2>5, <2>6, <2>8
    <3>2. editing'[b] = editing[b] /\ Rest(b)' = Rest(b) /\ CurrentFits(b)
      BY <1>1, <2>1, <2>5, <3>1 DEF Rest, CurrentStands
    <3> QED
      BY <3>2 DEF CurrentFits, Direct
  <2> QED
    BY <2>9, <2>10, <2>11 DEF AccessInv
<1>4. CASE ~Affected(x)
  <2>1. Commit(a, membership) /\ overlapped' = (overlapped \/ ~x.alone)
    BY <1>4 DEF ReadDesired
  <2>2. AccessFollowsGroups'
    <3>1. Desired(granting', belongs') = Desired(granting, belongs)
      BY <1>1, <1>4, <2>1, UnaffectedKeeps DEF Commit
    <3> QED
      BY <1>1, <2>1, <3>1 DEF AccessFollowsGroups, Commit
  <2>3. membership \in MembershipRows /\ (membership.id = 0 => membership = NoMembership)
        /\ lastId' \in Nat /\ overlapped' \in BOOLEAN
    BY <1>1, <2>1 DEF AccessTypes
  <2> QED
    BY <1>1, <2>1, <2>2, <2>3, CommitKeeps
<1> QED
  BY <1>3, <1>4

LEMMA ReadCurrentStep ==
  ASSUME AccessInv, NEW a \in AccessAdmins, ReadCurrent(a)
  PROVE  AccessInv'
<1> DEFINE x == editing[a]
           found == [id |-> Rest(a).id, byGroup |-> Rest(a).byGroup]
           y == [[x EXCEPT !.pc = "write"] EXCEPT !.current = found]
<1>1. /\ AccessTypes /\ AloneIsAlone /\ DesiredStands /\ CurrentStands /\ AccessFollowsGroups
      /\ a \in Editing /\ x.pc = "current"
      /\ UNCHANGED <<granting, belongs, membership, lastId, overlapped>>
  BY DEF AccessInv, ReadCurrent
<1>2. x \in EditRows
  BY <1>1, SeenTables
<1>3. Rest(a) \in MembershipRows /\ (Rest(a).id = 0 => Rest(a) = NoMembership)
  BY <1>1, EmptyRows DEF Rest, AccessTypes
<1>4. found \in [id : Nat, byGroup : BOOLEAN]
  BY <1>3 DEF MembershipRows
<1>5. editing' = [editing EXCEPT ![a] = y]
  BY <1>1 DEF ReadCurrent, AccessTypes
<1>6. /\ y \in EditRows /\ y.pc = "write" /\ y.desired = x.desired /\ y.alone = x.alone
      /\ y.kind = x.kind /\ y.group = x.group /\ y.role = x.role
      /\ y.current.id = Rest(a).id /\ y.current.byGroup = Rest(a).byGroup
  BY <1>2, <1>4 DEF EditRows
<1>7. PICK z \in EditRows : z = y
  BY <1>6
<1>8. /\ editing' \in [AccessAdmins -> EditRows \cup {NotEditing}]
      /\ editing'[a] = z /\ \A b \in AccessAdmins : b # a => editing'[b] = editing[b]
  BY <1>1, <1>5, <1>7 DEF AccessTypes
<1>9. /\ z.pc = "write" /\ z.desired = x.desired /\ z.alone = x.alone
      /\ z.kind = x.kind /\ z.group = x.group /\ z.role = x.role
      /\ z.current.id = Rest(a).id /\ z.current.byGroup = Rest(a).byGroup
  BY <1>6, <1>7
<1> HIDE DEF x, y, found
<1>10. Editing' = Editing
  BY <1>1, <1>8, EmptyRows DEF Editing
<1>11. \A b \in AccessAdmins : Alone(b)' <=> Alone(b)
  BY <1>8, <1>9, <1>10 DEF Alone, x
<1>12. AccessTypes' /\ AccessFollowsGroups' /\ AloneIsAlone'
  BY <1>1, <1>8, <1>10, <1>11 DEF AccessTypes, AccessFollowsGroups, AloneIsAlone
<1>13. DesiredStands'
  <2> SUFFICES ASSUME NEW b \in AccessAdmins, Alone(b)', editing'[b].pc # "desired"
               PROVE  DesiredIsSeen(b)'
    BY DEF DesiredStands
  <2>1. DesiredIsSeen(b)
    BY <1>1, <1>8, <1>11 DEF DesiredStands, x
  <2>2. CASE b = a
    BY <1>1, <1>8, <1>9, <2>1, <2>2 DEF DesiredIsSeen, GrantsSeen, MembersSeen, x
  <2>3. CASE b # a
    BY <1>1, <1>8, <2>1, <2>3 DEF DesiredIsSeen, GrantsSeen, MembersSeen
  <2> QED
    BY <2>2, <2>3
<1>14. \A b \in AccessAdmins : Rest(b)' = Rest(b)
  BY <1>1, <1>8, <1>9 DEF Rest, x
<1>15. CurrentStands'
  <2> SUFFICES ASSUME NEW b \in AccessAdmins, Alone(b)', editing'[b].pc = "write"
               PROVE  CurrentFits(b)'
    BY DEF CurrentStands
  <2>1. CASE b = a
    <3>1. Rest(a)' = Rest(a) /\ editing'[a] = z
      BY <1>8, <1>14
    <3> QED
      BY <1>3, <1>9, <2>1, <3>1, EmptyRows DEF CurrentFits, Direct, MembershipRows
  <2>2. CASE b # a
    <3>1. CurrentFits(b)
      BY <1>1, <1>8, <1>11, <2>2 DEF CurrentStands
    <3> QED
      BY <1>8, <1>14, <2>2, <3>1 DEF CurrentFits, Direct
  <2> QED
    BY <2>1, <2>2
<1> QED
  BY <1>12, <1>13, <1>15 DEF AccessInv

LEMMA ReconcileStep ==
  ASSUME AccessInv, NEW a \in AccessAdmins, Reconcile(a)
  PROVE  AccessInv'
<1> DEFINE x == editing[a]
           same == Rest(a).id = x.current.id
           inserted == [id |-> lastId + 1, role |-> x.desired, byGroup |-> TRUE]
           changed == [membership EXCEPT !.role = x.desired]
<1>1. /\ AccessTypes /\ AloneIsAlone /\ DesiredStands /\ CurrentStands
      /\ a \in Editing /\ x.pc = "write" /\ overlapped' = ~x.alone
  BY DEF AccessInv, Reconcile
<1>2. x \in EditRows
  BY <1>1, SeenTables
<1>3. Rest(a) \in MembershipRows /\ (Rest(a).id = 0 => Rest(a) = NoMembership)
      /\ (Rest(a).id # 0 => Rest(a) = membership)
  BY <1>1, EmptyRows DEF Rest, AccessTypes
<1>4. /\ x.desired \in DesiredRoles /\ x.alone \in BOOLEAN
      /\ x.current.id \in Nat /\ x.current.byGroup \in BOOLEAN
  BY <1>2 DEF EditRows
<1>5. inserted \in MembershipRows /\ inserted.id # 0 /\ inserted.role = x.desired
  BY <1>1, <1>4 DEF AccessTypes, MembershipRows
<1>6. changed \in MembershipRows /\ changed.id = membership.id /\ changed.role = x.desired
  BY <1>1, <1>4 DEF AccessTypes, MembershipRows
<1>7. PICK row \in MembershipRows :
        /\ Commit(a, row) /\ lastId' \in Nat
        /\ row.id = 0 => row = NoMembership
        /\ \/ row.role = x.desired
           \/ /\ row = Rest(a)
              /\ x.current.id = 0 => x.desired = 0
              /\ ~x.current.byGroup \/ ~same
  <2>1. CASE x.current.id = 0 /\ x.desired # 0
    <3>1. Commit(a, inserted) /\ lastId' = lastId + 1
      BY <2>1 DEF Reconcile
    <3> QED
      BY <1>1, <1>5, <3>1 DEF AccessTypes
  <2>2. CASE ~(x.current.id = 0 /\ x.desired # 0)
    <3>1. lastId' = lastId /\
          Commit(a, IF ~x.current.byGroup \/ ~same THEN Rest(a)
                    ELSE IF x.desired = 0 THEN NoMembership ELSE changed)
      BY <2>2 DEF Reconcile
    <3>2. CASE ~x.current.byGroup \/ ~same
      BY <1>1, <1>3, <2>2, <3>1, <3>2 DEF AccessTypes
    <3>3. CASE x.current.byGroup /\ same /\ x.desired = 0
      BY <1>1, <3>1, <3>3, EmptyRows DEF AccessTypes
    <3>4. CASE x.current.byGroup /\ same /\ x.desired # 0
      <4>1. x.current.id # 0 /\ membership.id # 0
        BY <1>3, <2>2, <3>4
      <4> QED
        BY <1>1, <1>6, <3>1, <3>4, <4>1 DEF AccessTypes
    <3> QED
      BY <1>4, <3>2, <3>3, <3>4
  <2> QED
    BY <2>1, <2>2
<1>8. AccessFollowsGroups'
  <2> SUFFICES ASSUME x.alone
               PROVE  Direct(membership') \/ membership'.role = Desired(granting', belongs')
    BY <1>1, <1>4 DEF AccessFollowsGroups, Direct
  <2>1. DesiredIsSeen(a) /\ CurrentFits(a)
    BY <1>1 DEF DesiredStands, CurrentStands, Alone
  <2>2. x.desired = Desired(granting', belongs') /\ membership' = row
    BY <1>7, <2>1 DEF DesiredIsSeen, Commit
  <2>3. CASE row.role = x.desired
    BY <2>2, <2>3
  <2>4. CASE row = Rest(a) /\ (x.current.id = 0 => x.desired = 0)
               /\ (~x.current.byGroup \/ ~same)
    <3>1. CASE x.current.id = 0 /\ ~x.current.byGroup /\ Rest(a) = NoMembership
      BY <2>2, <2>4, <3>1, EmptyRows
    <3>2. CASE Direct(Rest(a))
      BY <2>2, <2>4, <3>2
    <3> QED
      BY <2>1, <2>4, <3>1, <3>2 DEF CurrentFits
  <2> QED
    BY <1>7, <2>3, <2>4
<1> QED
  BY <1>1, <1>4, <1>7, <1>8, CommitKeeps

(* A transaction begins: none is alone any more but one that finds no other. *)
LEMMA BeginEditStep ==
  ASSUME AccessInv, NEW a \in AccessAdmins, NEW c \in Changes, BeginEdit(a, c)
  PROVE  AccessInv'
<1> DEFINE crowded(b) == [editing[b] EXCEPT !.alone = FALSE]
<1>1. /\ AccessTypes /\ AccessFollowsGroups /\ a \notin Editing
      /\ UNCHANGED <<granting, belongs, membership, lastId, overlapped>>
  BY DEF AccessInv, BeginEdit
<1>2. PICK first \in BOOLEAN : first = (Editing = {})
  OBVIOUS
<1>a. c \in [kind : {"members", "companies", "revoke"}, group : AccessGroupIds, role : Grants]
  BY DEF Changes
<1> DEFINE opened == [pc |-> "desired", kind |-> c.kind, group |-> c.group, role |-> c.role,
                     desired |-> 0, current |-> [id |-> 0, byGroup |-> FALSE],
                     alone |-> first]
<1>b. 0 \in DesiredRoles
  BY DEF DesiredRoles, Grants
<1>c. opened \in EditRows /\ opened.pc = "desired" /\ opened.alone = first
  BY <1>a, <1>b DEF EditRows
<1>3. \A b \in Editing : crowded(b) \in EditRows /\ ~crowded(b).alone
  BY <1>1, SeenTables DEF EditRows
<1>4. editing' = [b \in AccessAdmins |-> IF b = a THEN opened
                                         ELSE IF b \in Editing THEN crowded(b) ELSE NotEditing]
  BY <1>2 DEF BeginEdit
<1> HIDE DEF opened, crowded
<1>d. /\ editing'[a] = opened
      /\ \A b \in Editing : b # a => editing'[b] = crowded(b)
      /\ \A b \in AccessAdmins : b # a /\ b \notin Editing => editing'[b] = NotEditing
  BY <1>1, <1>4 DEF Editing
<1>e. \A b \in AccessAdmins : editing'[b] \in EditRows \cup {NotEditing}
  BY <1>c, <1>3, <1>d
<1>5. editing' \in [AccessAdmins -> EditRows \cup {NotEditing}]
  BY <1>4, <1>e
<1>6. Editing' = Editing \cup {a}
  <2>1. \A b \in AccessAdmins : editing'[b] # NotEditing <=> b = a \/ b \in Editing
    BY <1>c, <1>3, <1>d, EmptyRows
  <2> QED
    BY <2>1 DEF Editing
<1>7. \A b \in AccessAdmins : Alone(b)' => b = a /\ Editing = {}
  BY <1>2, <1>c, <1>3, <1>d, <1>6 DEF Alone
<1>8. editing'[a].pc = "desired"
  BY <1>c, <1>d
<1>9. AloneIsAlone' /\ DesiredStands' /\ CurrentStands'
  BY <1>6, <1>7, <1>8 DEF AloneIsAlone, DesiredStands, CurrentStands
<1> QED
  BY <1>1, <1>5, <1>9 DEF AccessInv, AccessTypes, AccessFollowsGroups

(* A direct membership is made, or changes: that is the user's access. *)
LEMMA SetDirectStep ==
  ASSUME AccessInv, NEW r \in Roles, SetDirect(r)
  PROVE  AccessInv'
<1>1. /\ AccessTypes /\ AloneIsAlone /\ DesiredStands /\ CurrentStands
      /\ UNCHANGED <<granting, belongs, editing, overlapped>>
  BY DEF AccessInv, SetDirect
<1>2. r \in DesiredRoles
  BY DEF DesiredRoles, Grants
<1>3. /\ membership' \in MembershipRows /\ Direct(membership') /\ lastId' \in Nat
      /\ membership = NoMembership \/ (Direct(membership) /\ membership'.id = membership.id)
  <2>1. CASE /\ membership = NoMembership
             /\ membership' = [id |-> lastId + 1, role |-> r, byGroup |-> FALSE]
             /\ lastId' = lastId + 1
    <3>1. lastId \in Nat
      BY <1>1 DEF AccessTypes
    <3> QED
      BY <1>2, <2>1, <3>1 DEF MembershipRows, Direct
  <2>2. CASE /\ membership.id # 0 /\ ~membership.byGroup
             /\ membership' = [membership EXCEPT !.role = r] /\ lastId' = lastId
    <3>1. membership \in MembershipRows /\ lastId \in Nat
      BY <1>1 DEF AccessTypes
    <3> QED
      BY <1>2, <2>2, <3>1 DEF MembershipRows, Direct
  <2> QED
    BY <2>1, <2>2 DEF SetDirect
<1>4. Editing' = Editing /\ \A b \in AccessAdmins : Alone(b)' <=> Alone(b)
  BY <1>1 DEF Alone, Editing
<1>5. AloneIsAlone'
  BY <1>1, <1>4 DEF AloneIsAlone
<1>6. DesiredStands'
  BY <1>1, <1>4 DEF DesiredStands, DesiredIsSeen, GrantsSeen, MembersSeen
<1>7. CurrentStands'
  <2> SUFFICES ASSUME NEW b \in AccessAdmins, CurrentFits(b) PROVE CurrentFits(b)'
    BY <1>1, <1>4 DEF CurrentStands
  <2>1. Rest(b)' = Rest(b) \/ (Rest(b) = membership /\ Rest(b)' = membership')
    BY <1>1, <1>3, EmptyRows DEF Rest, Direct
  <2>2. CASE Rest(b)' = Rest(b)
    BY <1>1, <2>2 DEF CurrentFits, Direct
  <2>3. CASE Rest(b) = membership /\ Rest(b)' = membership'
    BY <1>1, <1>3, <2>3, EmptyRows DEF CurrentFits, Direct
  <2> QED
    BY <2>1, <2>2, <2>3
<1>8. AccessTypes' /\ AccessFollowsGroups'
  BY <1>1, <1>3 DEF AccessTypes, AccessFollowsGroups, Direct
<1> QED
  BY <1>5, <1>6, <1>7, <1>8 DEF AccessInv

LEMMA AccessInvStep == AccessInv /\ [AccessNext]_accessVars => AccessInv'
<1> SUFFICES ASSUME AccessInv, [AccessNext]_accessVars PROVE AccessInv'
  OBVIOUS
<1>1. ASSUME NEW a \in AccessAdmins, EditFails(a) PROVE AccessInv'
  BY <1>1, EditEnds DEF EditFails, AccessInv, AccessTypes, AccessFollowsGroups
<1>2. CASE UNCHANGED accessVars
  BY <1>2 DEF accessVars, AccessInv, AccessTypes, AloneIsAlone, DesiredStands, CurrentStands,
              DesiredIsSeen, CurrentFits, GrantsSeen, MembersSeen, Rest, Alone, Editing,
              AccessFollowsGroups
<1> QED
  BY <1>1, <1>2, BeginEditStep, ReadDesiredStep, ReadCurrentStep, ReconcileStep, SetDirectStep
  DEF AccessNext

LEMMA AccessInvAlways == AccessSpec => []AccessInv
  BY AccessInvInit, AccessInvStep, PTL DEF AccessSpec

(* The user's access is what reconcileUserCompany makes of the groups, for any
   groups, roles and administrators whose transactions do not overlap. *)
THEOREM AccessFollows == AccessSpec => []AccessFollowsGroups
<1>1. AccessInv => AccessFollowsGroups
  BY DEF AccessInv
<1> QED
  BY <1>1, AccessInvAlways, PTL

-----------------------------------------------------------------------------
(* Rounding *)

(* The least and the greatest of two instants. *)
LEMMA LeastOfTwo ==
  ASSUME NEW a \in Int, NEW b \in Int
  PROVE  /\ Min({a, b}) = IF a <= b THEN a ELSE b
         /\ Max({a, b}) = IF a >= b THEN a ELSE b
<1>1. CASE a <= b
  BY <1>1 DEF Min, Max
<1>2. CASE b < a
  BY <1>2 DEF Min, Max
<1> QED
  BY <1>1, <1>2

(* An instant lies in one interval of the clock. *)
LEMMA InInterval ==
  ASSUME NEW t \in Nat, NEW i \in Nat \ {0}, NEW q, q = t \div i
  PROVE  q \in Nat /\ q * i <= t /\ t < q * i + i
<1>1. q \in Nat
  OBVIOUS
<1>2. t = i * (t \div i) + (t % i) /\ t % i \in 0..(i - 1)
  OBVIOUS
<1> QED
  BY <1>1, <1>2

(* Intervals follow each other. *)
LEMMA NextInterval ==
  ASSUME NEW p \in Nat, NEW q \in Nat, NEW i \in Nat \ {0}, p < q
  PROVE  p * i + i <= q * i
<1>1. PICK d \in Nat : q = p + 1 + d
  <2>1. q - p - 1 \in Nat
    OBVIOUS
  <2> QED
    BY <2>1
<1>2. q * i = p * i + i + d * i /\ d * i \in Nat /\ p * i \in Nat
  BY <1>1
<1> QED
  BY <1>2

(* The instant of a punch is moved to one of the ends of its interval, or stays. *)
Moved(t, lower, upper, grace, direction) ==
  IF grace > 0 /\ (IF t - lower <= upper - t THEN t - lower ELSE upper - t) > grace THEN t
  ELSE IF t - lower = upper - t THEN Tie(lower, upper, direction)
  ELSE IF t - lower < upper - t THEN lower ELSE upper

LEMMA RoundedMoves ==
  ASSUME NEW t \in Nat, NEW direction, NEW r, r = rounding, r \in [interval : Nat, grace : Nat],
         r.interval # 0, NEW lower \in Nat, lower = (t \div r.interval) * r.interval
  PROVE  Rounded(t, direction) = Moved(t, lower, lower + r.interval, r.grace, direction)
<1>1. PICK upper \in Int : upper = lower + r.interval
  OBVIOUS
<1>2. PICK a, b : a = t - lower /\ b = upper - t
  OBVIOUS
<1>3. Min({a, b}) = IF a <= b THEN a ELSE b
  BY <1>1, <1>2, LeastOfTwo
<1>4. Rounded(t, direction) =
        IF r.grace > 0 /\ Min({a, b}) > r.grace THEN t
        ELSE IF a = b THEN Tie(lower, upper, direction)
        ELSE IF a < b THEN lower ELSE upper
  BY <1>1, <1>2, Zenon DEF Rounded
<1> QED
  BY <1>1, <1>2, <1>3, <1>4, Zenon DEF Moved

(* Where one stretch ends and another begins, later or at that instant, both
   rounded: they do not overlap. *)
LEMMA RoundingKeepsOrder ==
  ASSUME rounding \in [interval : Nat, grace : Nat], NEW t \in Nat, NEW u \in Nat, t <= u
  PROVE  Rounded(t, "out") <= Rounded(u, "in")
<1>1. PICK r : r = rounding
  OBVIOUS
<1>2. CASE r.interval = 0
  BY <1>1, <1>2 DEF Rounded
<1>3. CASE r.interval # 0
  <2>1. PICK i, g : i = r.interval /\ g = r.grace
    OBVIOUS
  <2>2. i \in Nat \ {0} /\ g \in Nat
    BY <1>1, <1>3, <2>1
  <2>3. PICK p, q : p = t \div i /\ q = u \div i
    OBVIOUS
  <2>4. /\ p \in Nat /\ p * i <= t /\ t < p * i + i
        /\ q \in Nat /\ q * i <= u /\ u < q * i + i
    BY <2>2, <2>3, InInterval
  <2>5. PICK a, b : a = p * i /\ b = q * i
    OBVIOUS
  <2>6. a \in Nat /\ b \in Nat /\ a <= t /\ t < a + i /\ b <= u /\ u < b + i
    BY <2>2, <2>4, <2>5
  <2>7. /\ Rounded(t, "out") = Moved(t, a, a + i, g, "out")
        /\ Rounded(u, "in") = Moved(u, b, b + i, g, "in")
    BY <1>1, <1>3, <2>1, <2>3, <2>5, <2>6, RoundedMoves
  <2>8. a = b \/ a + i <= b
    <3>1. CASE p < q
      BY <2>2, <2>4, <2>5, <3>1, NextInterval
    <3>2. CASE p = q
      BY <2>5, <3>2
    <3>3. CASE q < p
      <4>1. b + i <= a
        BY <2>2, <2>4, <2>5, <3>3, NextInterval
      <4> QED
        BY <2>2, <2>6, <4>1
    <3> QED
      BY <2>4, <3>1, <3>2, <3>3
  <2>9. CASE a = b
    BY <2>2, <2>6, <2>7, <2>9 DEF Moved, Tie
  <2>10. CASE a + i <= b
    <3>1. Moved(t, a, a + i, g, "out") <= a + i
      BY <2>2, <2>6 DEF Moved, Tie
    <3>2. b <= Moved(u, b, b + i, g, "in")
      BY <2>2, <2>6 DEF Moved, Tie
    <3>3. Moved(t, a, a + i, g, "out") \in Int /\ Moved(u, b, b + i, g, "in") \in Int
      BY <2>2, <2>6 DEF Moved, Tie
    <3> QED
      BY <2>2, <2>6, <2>7, <2>10, <3>1, <3>2, <3>3
  <2> QED
    BY <2>8, <2>9, <2>10
<1> QED
  BY <1>2, <1>3

-----------------------------------------------------------------------------
(* Shifts follow each other, and stay apart when they are rounded. *)
ShiftsFollow ==
  /\ shifts \in Seq(Shift) /\ rounding \in [interval : Nat, grace : Nat]
  /\ \A k \in DOMAIN shifts : shifts[k].start < shifts[k].end
  /\ \A j, k \in DOMAIN shifts : j < k => shifts[j].end <= shifts[k].start

RoundedApart ==
  \A j, k \in DOMAIN shifts : j < k =>
    \A from, to \in Nat :
      Rounded(Clipped(shifts[j], from, to).end, "out")
        <= Rounded(Clipped(shifts[k], from, to).start, "in")

LEMMA ShiftsFollowInit == TotalsInit => ShiftsFollow
BY TotalsAssumption DEF TotalsInit, ShiftsFollow

(* A shift is recorded after the one before, and so after all. *)
LEMMA ShiftsFollowStep == ShiftsFollow /\ [TotalsNext]_totalsVars => ShiftsFollow'
<1>1. ASSUME ShiftsFollow, NEW s \in Shift, RecordShift(s)
      PROVE  ShiftsFollow'
  <2>1. /\ shifts \in Seq(Shift) /\ Len(shifts) \in Nat /\ DOMAIN shifts = 1..Len(shifts)
        /\ s.start < s.end /\ shifts' = Append(shifts, s)
        /\ shifts # <<>> => shifts[Len(shifts)].end <= s.start
        /\ UNCHANGED rounding
    BY <1>1, LenProperties DEF ShiftsFollow, RecordShift
  <2>2. /\ shifts' \in Seq(Shift) /\ DOMAIN shifts' = 1..(Len(shifts) + 1)
        /\ shifts'[Len(shifts) + 1] = s
        /\ \A k \in DOMAIN shifts : shifts'[k] = shifts[k]
    BY <2>1, AppendProperties
  <2>3. \A k \in DOMAIN shifts : shifts[k].start \in Nat /\ shifts[k].end \in Nat
    <3>1. \A k \in DOMAIN shifts : shifts[k] \in Shift
      BY <2>1
    <3>2. \A x \in Shift : x.start \in Nat /\ x.end \in Nat
      BY DEF Shift
    <3> QED
      BY <3>1, <3>2
  <2>4. s.start \in Nat /\ s.end \in Nat
    BY DEF Shift
  <2>5. \A j \in DOMAIN shifts : shifts[j].end <= s.start
    <3> SUFFICES ASSUME NEW j \in DOMAIN shifts
                 PROVE  shifts[j].end <= s.start
      OBVIOUS
    <3>1. Len(shifts) \in DOMAIN shifts /\ shifts # <<>>
      BY <2>1
    <3>2. j = Len(shifts) \/ j < Len(shifts)
      BY <2>1
    <3>3. j < Len(shifts) => shifts[j].end <= shifts[Len(shifts)].start
      BY <1>1, <3>1 DEF ShiftsFollow
    <3>4. shifts[Len(shifts)].start < shifts[Len(shifts)].end
      BY <1>1, <3>1 DEF ShiftsFollow
    <3> QED
      BY <2>1, <2>3, <2>4, <3>1, <3>2, <3>3, <3>4
  <2>6. \A k \in DOMAIN shifts' : shifts'[k].start < shifts'[k].end
    BY <1>1, <2>1, <2>2 DEF ShiftsFollow
  <2>7. \A j, k \in DOMAIN shifts' : j < k => shifts'[j].end <= shifts'[k].start
    <3> SUFFICES ASSUME NEW j \in DOMAIN shifts', NEW k \in DOMAIN shifts', j < k
                 PROVE  shifts'[j].end <= shifts'[k].start
      OBVIOUS
    <3>1. j \in DOMAIN shifts
      BY <2>1, <2>2
    <3>2. CASE k = Len(shifts) + 1
      BY <2>2, <2>5, <3>1, <3>2
    <3>3. CASE k # Len(shifts) + 1
      <4>1. k \in DOMAIN shifts
        BY <2>1, <2>2, <3>3
      <4> QED
        BY <1>1, <2>2, <3>1, <4>1 DEF ShiftsFollow
    <3> QED
      BY <3>2, <3>3
  <2> QED
    BY <1>1, <2>1, <2>2, <2>6, <2>7 DEF ShiftsFollow
<1>2. ASSUME ShiftsFollow, UNCHANGED totalsVars PROVE ShiftsFollow'
  BY <1>2 DEF ShiftsFollow, totalsVars
<1> QED
  BY <1>1, <1>2 DEF TotalsNext

(* roundTimestamp, at both ends of a punch: for any interval, grace and pay
   period, the rounded stretches of an employee do not overlap, however the
   shifts touch.  A tie goes into the shift, at its start and at its end. *)
THEOREM RoundedStretchesApart == TotalsSpec => []RoundedApart
<1>1. ASSUME ShiftsFollow PROVE RoundedApart
  <2> SUFFICES ASSUME NEW j \in DOMAIN shifts, NEW k \in DOMAIN shifts, j < k,
                      NEW from \in Nat, NEW to \in Nat
               PROVE  Rounded(Clipped(shifts[j], from, to).end, "out")
                        <= Rounded(Clipped(shifts[k], from, to).start, "in")
    BY DEF RoundedApart
  <2>1. shifts[j] \in Shift /\ shifts[k] \in Shift
    BY <1>1, LenProperties DEF ShiftsFollow
  <2>2. PICK e, s : e = shifts[j].end /\ s = shifts[k].start
    OBVIOUS
  <2>3. e \in Nat /\ s \in Nat /\ e <= s
    BY <1>1, <2>1, <2>2 DEF ShiftsFollow, Shift
  <2>4. /\ Clipped(shifts[j], from, to).end = Min({e, to})
        /\ Clipped(shifts[k], from, to).start = Max({s, from})
    BY <2>1, <2>2 DEF Clipped, Shift
  <2>5. PICK a, b : a = Min({e, to}) /\ b = Max({s, from})
    OBVIOUS
  <2>6. a \in Nat /\ b \in Nat /\ a <= b
    <3>1. /\ a = IF e <= to THEN e ELSE to
          /\ b = IF s >= from THEN s ELSE from
      BY <2>3, <2>5, LeastOfTwo
    <3> QED
      BY <2>3, <3>1
  <2> QED
    BY <1>1, <2>4, <2>5, <2>6, RoundingKeepsOrder DEF ShiftsFollow
<1> QED
  BY <1>1, ShiftsFollowInit, ShiftsFollowStep, PTL DEF TotalsSpec

-----------------------------------------------------------------------------
(* The work of a period, added up *)

(* A loop can be run over any amounts.  Were there a first position that it
   does not reach, it would reach it from the one before. *)
LEMMA LoopRuns ==
  ASSUME NEW a \in Seq(Int), NEW n \in 0..Len(a)
  PROVE  \E g \in [0..n -> Int] : g[0] = 0 /\ \A k \in 1..n : g[k] = g[k - 1] + a[k]
<1> DEFINE Runs(m, g) == g \in [0..m -> Int] /\ g[0] = 0 /\ \A k \in 1..m : g[k] = g[k - 1] + a[k]
           stuck == {m \in Nat : m <= Len(a) /\ ~ \E g : Runs(m, g)}
<1>1. Len(a) \in Nat /\ \A k \in 1..Len(a) : a[k] \in Int
  BY LenProperties, ElementOfSeq
<1>2. ASSUME stuck # {} PROVE FALSE
  <2>1. IsWellFoundedOn(OpToRel(<, Nat), Nat)
    BY NatLessThanWellFounded
  <2>2. PICK m \in stuck : \A k \in stuck : ~(<<k, m>> \in OpToRel(<, Nat))
    BY <1>2, <2>1, WFMin
  <2>3. \A k \in stuck : ~(k < m)
    BY <2>2 DEF OpToRel
  <2>4. CASE m = 0
    <3>1. Runs(0, [k \in 0..0 |-> 0])
      OBVIOUS
    <3> QED
      BY <2>4, <3>1
  <2>5. CASE m # 0
    <3>1. m - 1 \in Nat /\ m - 1 <= Len(a) /\ m - 1 < m /\ m \in 1..Len(a)
      BY <1>1, <2>5
    <3>2. PICK g : Runs(m - 1, g)
      BY <2>3, <3>1
    <3>3. PICK h : h = [k \in 0..m |-> IF k = m THEN g[m - 1] + a[m] ELSE g[k]]
      OBVIOUS
    <3>4. \A k \in 0..m : k = m \/ k \in 0..(m - 1)
      BY <3>1
    <3>5. m - 1 \in 0..(m - 1) /\ g[m - 1] \in Int /\ a[m] \in Int
      BY <1>1, <3>1, <3>2
    <3>6. h \in [0..m -> Int]
      BY <3>2, <3>3, <3>4, <3>5
    <3>7. h[0] = 0
      BY <2>5, <3>1, <3>2, <3>3
    <3>8. ASSUME NEW k \in 1..m PROVE h[k] = h[k - 1] + a[k]
      <4>1. k - 1 \in 0..(m - 1) /\ k - 1 # m /\ k - 1 \in 0..m /\ k \in 0..m
        BY <3>1
      <4>2. h[k - 1] = g[k - 1]
        BY <3>3, <4>1
      <4>3. CASE k = m
        BY <3>3, <4>1, <4>2, <4>3
      <4>4. CASE k # m
        <5>1. k \in 1..(m - 1) /\ h[k] = g[k]
          BY <3>1, <3>3, <4>1, <4>4
        <5> QED
          BY <3>2, <4>2, <5>1
      <4> QED
        BY <4>3, <4>4
    <3>9. Runs(m, h)
      BY <3>6, <3>7, <3>8
    <3> QED
      BY <3>9
  <2> QED
    BY <2>4, <2>5
<1>3. n \in Nat /\ n <= Len(a)
  BY <1>1
<1> QED
  BY <1>2, <1>3

(* The tally is what the loop has at its end. *)
LEMMA TallyIsLoop ==
  ASSUME NEW a \in Seq(Int)
  PROVE  \E g \in [0..Len(a) -> Int] :
           g[0] = 0 /\ (\A k \in 1..Len(a) : g[k] = g[k - 1] + a[k]) /\ Tally(a) = g[Len(a)]
<1>1. Len(a) \in Nat /\ \A k \in 1..Len(a) : a[k] \in Int
  BY LenProperties, ElementOfSeq
<1>2. PICK n : n = Len(a)
  OBVIOUS
<1>3. PICK g \in [0..n -> Int] : g[0] = 0 /\ \A k \in 1..n : g[k] = g[k - 1] + a[k]
  <2>1. n \in 0..Len(a)
    BY <1>1, <1>2
  <2> QED
    BY <2>1, LoopRuns, Zenon
<1>4. g = [k \in 0..n |-> IF k = 0 THEN 0 ELSE g[k - 1] + a[k]]
  <2>1. \A k \in 0..n : g[k] = IF k = 0 THEN 0 ELSE g[k - 1] + a[k]
    BY <1>1, <1>2, <1>3
  <2> QED
    BY <1>3, <2>1
<1>5. PICK s : s = CHOOSE f : f = [k \in 0..n |-> IF k = 0 THEN 0 ELSE f[k - 1] + a[k]]
  OBVIOUS
<1>6. s = [k \in 0..n |-> IF k = 0 THEN 0 ELSE s[k - 1] + a[k]]
  BY <1>4, <1>5, Zenon
<1>7. Tally(a) = s[n]
  BY <1>2, <1>5, Zenon DEF Tally
<1>8. s[0] = 0 /\ \A k \in 1..n : s[k] = s[k - 1] + a[k]
  <2>1. \A k \in 0..n : s[k] = IF k = 0 THEN 0 ELSE s[k - 1] + a[k]
    BY <1>6
  <2> QED
    BY <1>1, <1>2, <2>1
<1>9. s \in [0..n -> Int]
  <2> DEFINE wrong == {m \in Nat : m <= n /\ s[m] \notin Int}
  <2>1. ASSUME wrong # {} PROVE FALSE
    <3>1. IsWellFoundedOn(OpToRel(<, Nat), Nat)
      BY NatLessThanWellFounded
    <3>2. PICK m \in wrong : \A k \in wrong : ~(<<k, m>> \in OpToRel(<, Nat))
      BY <2>1, <3>1, WFMin
    <3>3. \A k \in wrong : ~(k < m)
      BY <3>2 DEF OpToRel
    <3>4. m # 0
      BY <1>8
    <3>5. m - 1 \in Nat /\ m - 1 <= n /\ m - 1 < m /\ m \in 1..n
      BY <1>1, <1>2, <3>4
    <3>6. s[m - 1] \in Int
      BY <3>3, <3>5
    <3> QED
      BY <1>1, <1>2, <1>8, <3>5, <3>6
  <2>2. \A m \in 0..n : m \in Nat /\ m <= n
    BY <1>1, <1>2
  <2>3. \A m \in 0..n : s[m] \in Int
    BY <2>1, <2>2
  <2> QED
    BY <1>6, <2>3
<1> QED
  BY <1>2, <1>7, <1>8, <1>9

(* Of two ends, or of two starts, the later is rounded to no earlier instant. *)
LEMMA RoundingIsMonotonic ==
  ASSUME rounding \in [interval : Nat, grace : Nat], NEW t \in Nat, NEW u \in Nat, t <= u,
         NEW way \in {"in", "out"}
  PROVE  /\ Rounded(t, way) \in Int /\ Rounded(u, way) \in Int
         /\ Rounded(t, way) <= Rounded(u, way)
<1>1. PICK r : r = rounding
  OBVIOUS
<1>2. CASE r.interval = 0
  BY <1>1, <1>2 DEF Rounded
<1>3. CASE r.interval # 0
  <2>1. PICK i, g : i = r.interval /\ g = r.grace
    OBVIOUS
  <2>2. i \in Nat \ {0} /\ g \in Nat
    BY <1>1, <1>3, <2>1
  <2>3. PICK p, q : p = t \div i /\ q = u \div i
    OBVIOUS
  <2>4. /\ p \in Nat /\ p * i <= t /\ t < p * i + i
        /\ q \in Nat /\ q * i <= u /\ u < q * i + i
    BY <2>2, <2>3, InInterval
  <2>5. PICK a, b : a = p * i /\ b = q * i
    OBVIOUS
  <2>6. a \in Nat /\ b \in Nat /\ a <= t /\ t < a + i /\ b <= u /\ u < b + i
    BY <2>2, <2>4, <2>5
  <2>7. /\ Rounded(t, way) = Moved(t, a, a + i, g, way)
        /\ Rounded(u, way) = Moved(u, b, b + i, g, way)
    BY <1>1, <1>3, <2>1, <2>3, <2>5, <2>6, RoundedMoves
  <2>8. a = b \/ a + i <= b
    <3>1. CASE p < q
      BY <2>2, <2>4, <2>5, <3>1, NextInterval
    <3>2. CASE p = q
      BY <2>5, <3>2
    <3>3. CASE q < p
      <4>1. b + i <= a
        BY <2>2, <2>4, <2>5, <3>3, NextInterval
      <4> QED
        BY <2>2, <2>6, <4>1
    <3> QED
      BY <2>4, <3>1, <3>2, <3>3
  <2>9. /\ Moved(t, a, a + i, g, way) \in Int /\ Moved(u, b, b + i, g, way) \in Int
        /\ Moved(t, a, a + i, g, way) <= a + i /\ b <= Moved(u, b, b + i, g, way)
    BY <2>2, <2>6 DEF Moved, Tie
  <2>10. CASE a = b
    BY <2>2, <2>6, <2>7, <2>9, <2>10 DEF Moved, Tie
  <2>11. CASE a + i <= b
    BY <2>2, <2>6, <2>7, <2>9, <2>11
  <2> QED
    BY <2>8, <2>10, <2>11
<1> QED
  BY <1>2, <1>3

-----------------------------------------------------------------------------
(* What one shift adds to the work of a period, and where the work that is
   counted so far ends. *)
AddedWork(k, to) ==
  IF k \in InPeriod(0, to) /\ shifts[k].type = "work" THEN Counted(k, 0, to) ELSE 0

RoundedEnd(k, to) == Rounded(IF shifts[k].end <= to THEN shifts[k].end ELSE to, "out")

RoundedStart(k) == Rounded(shifts[k].start, "in")

LEMMA ShiftTimes ==
  ASSUME ShiftsFollow, NEW k \in DOMAIN shifts
  PROVE  /\ shifts[k].start \in Nat /\ shifts[k].end \in Nat
         /\ shifts[k].start < shifts[k].end /\ shifts[k] \in Shift
<1>1. shifts[k] \in Shift
  BY LenProperties, ElementOfSeq DEF ShiftsFollow
<1> QED
  BY <1>1 DEF ShiftsFollow, Shift

(* A shift that lies in the period adds what is between its rounded ends; any
   other adds nothing. *)
LEMMA WhatOneShiftAdds ==
  ASSUME ShiftsFollow, NEW k \in DOMAIN shifts, NEW to \in Nat
  PROVE  /\ RoundedEnd(k, to) \in Int /\ RoundedStart(k) \in Int
         /\ \/ AddedWork(k, to) = 0
            \/ /\ shifts[k].start < to
               /\ AddedWork(k, to) = IF RoundedEnd(k, to) <= RoundedStart(k) THEN 0
                                     ELSE RoundedEnd(k, to) - RoundedStart(k)
<1>1. PICK x : x = shifts[k]
  OBVIOUS
<1>2. /\ x \in Shift /\ x.start \in Nat /\ x.end \in Nat /\ x.start < x.end
  BY <1>1, ShiftTimes
<1>3. PICK e \in Nat : e = IF x.end <= to THEN x.end ELSE to
  BY <1>2
<1>4. PICK c : c = Clipped(shifts[k], 0, to)
  OBVIOUS
<1>5. /\ c.start = x.start /\ c.end = e /\ c.type = x.type
  <2>1. Max({x.start, 0}) = x.start /\ Min({x.end, to}) = e
    <3>1. x.start \in Int /\ x.end \in Int /\ to \in Int /\ 0 \in Int
      BY <1>2
    <3>2. /\ Max({x.start, 0}) = IF x.start >= 0 THEN x.start ELSE 0
          /\ Min({x.end, to}) = IF x.end <= to THEN x.end ELSE to
      BY <3>1, LeastOfTwo, Zenon
    <3> QED
      BY <1>2, <1>3, <3>2
  <2>2. c = [x EXCEPT !.start = Max({x.start, 0}), !.end = Min({x.end, to})]
    BY <1>1, <1>4 DEF Clipped
  <2> QED
    BY <1>2, <2>1, <2>2 DEF Shift
<1>6. RoundedEnd(k, to) = Rounded(e, "out") /\ RoundedStart(k) = Rounded(x.start, "in")
  BY <1>1, <1>3 DEF RoundedEnd, RoundedStart
<1>7. PICK p, q : p = Rounded(e, "out") /\ q = Rounded(x.start, "in")
  OBVIOUS
<1>8. p \in Int /\ q \in Int
  <2>1. rounding \in [interval : Nat, grace : Nat] /\ e <= e /\ x.start <= x.start
    BY <1>2, <1>3 DEF ShiftsFollow
  <2>2. Rounded(e, "out") \in Int
    BY <2>1, RoundingIsMonotonic
  <2>3. Rounded(x.start, "in") \in Int
    BY <1>2, <2>1, RoundingIsMonotonic
  <2> QED
    BY <1>7, <2>2, <2>3
<1>9. CASE k \in InPeriod(0, to) /\ shifts[k].type = "work"
  <2>1. c.start < c.end
    BY <1>4, <1>9 DEF InPeriod
  <2>2. x.start < to
    BY <1>2, <1>3, <1>5, <2>1
  <2>3. AddedWork(k, to) = RoundedDuration(c.start, c.end)
    BY <1>1, <1>4, <1>5, <1>9, Zenon DEF AddedWork, Counted
  <2>4. RoundedDuration(c.start, c.end) = Max({0, p - q})
    BY <1>5, <1>7, Zenon DEF RoundedDuration
  <2>5. PICK d \in Int : d = p - q
    BY <1>8
  <2>6. Max({0, d}) = IF 0 >= d THEN 0 ELSE d
    <3>1. 0 \in Int
      OBVIOUS
    <3> QED
      BY <3>1, LeastOfTwo, Zenon
  <2>7. AddedWork(k, to) = IF p <= q THEN 0 ELSE p - q
    BY <1>8, <2>3, <2>4, <2>5, <2>6
  <2> QED
    BY <1>1, <1>6, <1>7, <1>8, <2>2, <2>7
<1>10. CASE ~(k \in InPeriod(0, to) /\ shifts[k].type = "work")
  BY <1>6, <1>7, <1>8, <1>10 DEF AddedWork
<1> QED
  BY <1>9, <1>10

(* From one shift to the next, rounded ends do not come earlier, rounded starts
   neither, and the next shift starts no earlier than the one before it ends. *)
LEMMA RoundedInTurn ==
  ASSUME ShiftsFollow, NEW j \in DOMAIN shifts, NEW k \in DOMAIN shifts, j < k, NEW to \in Nat
  PROVE  /\ RoundedEnd(j, to) <= RoundedEnd(k, to)
         /\ RoundedStart(j) <= RoundedStart(k)
         /\ RoundedEnd(j, to) <= RoundedStart(k)
<1>1. /\ shifts[j].start \in Nat /\ shifts[j].end \in Nat /\ shifts[j].start < shifts[j].end
      /\ shifts[k].start \in Nat /\ shifts[k].end \in Nat /\ shifts[k].start < shifts[k].end
      /\ shifts[j].end <= shifts[k].start
  <2>1. shifts[j].start \in Nat /\ shifts[j].end \in Nat /\ shifts[j].start < shifts[j].end
    BY ShiftTimes
  <2>2. shifts[k].start \in Nat /\ shifts[k].end \in Nat /\ shifts[k].start < shifts[k].end
    BY ShiftTimes
  <2> QED
    BY <2>1, <2>2 DEF ShiftsFollow
<1>2. PICK u, v, s, t : /\ u = shifts[j].end /\ v = shifts[k].end
                       /\ s = shifts[j].start /\ t = shifts[k].start
  OBVIOUS
<1>3. /\ s \in Nat /\ u \in Nat /\ s < u /\ t \in Nat /\ v \in Nat /\ t < v /\ u <= t
  BY <1>1, <1>2
<1>4. PICK d \in Nat : d = IF u <= to THEN u ELSE to
  BY <1>3
<1>5. PICK e \in Nat : e = IF v <= to THEN v ELSE to
  BY <1>3
<1>6. d <= e /\ s <= t /\ d <= t
  BY <1>3, <1>4, <1>5
<1>7. rounding \in [interval : Nat, grace : Nat]
  BY DEF ShiftsFollow
<1>8. Rounded(d, "out") <= Rounded(e, "out")
  BY <1>6, <1>7, RoundingIsMonotonic
<1>9. Rounded(s, "in") <= Rounded(t, "in")
  BY <1>6, <1>7, <1>3, RoundingIsMonotonic
<1>10. Rounded(d, "out") <= Rounded(t, "in")
  BY <1>6, <1>7, <1>3, RoundingKeepsOrder
<1>11. /\ RoundedEnd(j, to) = Rounded(d, "out") /\ RoundedEnd(k, to) = Rounded(e, "out")
       /\ RoundedStart(j) = Rounded(s, "in") /\ RoundedStart(k) = Rounded(t, "in")
  BY <1>2, <1>4, <1>5 DEF RoundedEnd, RoundedStart
<1> QED
  BY <1>2, <1>8, <1>9, <1>10, <1>11

(* The work up to a shift is no more than the stretch up to its rounded end. *)
LEMMA WorkFitsStretch ==
  ASSUME ShiftsFollow, NEW to \in Nat, NEW n \in DOMAIN shifts,
         NEW g \in [0..Len(shifts) -> Int], g[0] = 0,
         \A k \in 1..Len(shifts) : g[k] = g[k - 1] + AddedWork(k, to)
  PROVE  g[n] <= IF RoundedEnd(n, to) <= RoundedStart(1) THEN 0
                 ELSE RoundedEnd(n, to) - RoundedStart(1)
<1> DEFINE Room(k) == IF RoundedEnd(k, to) <= RoundedStart(1) THEN 0
                      ELSE RoundedEnd(k, to) - RoundedStart(1)
           over == {k \in Nat : k \in DOMAIN shifts /\ ~(g[k] <= Room(k))}
<1>1. Len(shifts) \in Nat /\ DOMAIN shifts = 1..Len(shifts)
  BY LenProperties DEF ShiftsFollow
<1>2. ASSUME over # {} PROVE FALSE
  <2>1. IsWellFoundedOn(OpToRel(<, Nat), Nat)
    BY NatLessThanWellFounded
  <2>2. PICK k \in over : \A i \in over : ~(<<i, k>> \in OpToRel(<, Nat))
    BY <1>2, <2>1, WFMin
  <2>3. \A i \in over : ~(i < k)
    BY <2>2 DEF OpToRel
  <2>4. k \in DOMAIN shifts /\ 1 \in DOMAIN shifts /\ k - 1 \in 0..Len(shifts)
    BY <1>1
  <2>5. g[k] = g[k - 1] + AddedWork(k, to) /\ g[k - 1] \in Int
    BY <1>1, <2>4
  <2>6. PICK w, p, q : w = AddedWork(k, to) /\ p = RoundedEnd(k, to) /\ q = RoundedStart(k)
    OBVIOUS
  <2>7. PICK f : f = RoundedStart(1)
    OBVIOUS
  <2>8. /\ p \in Int /\ q \in Int /\ f \in Int
        /\ \/ w = 0
           \/ shifts[k].start < to /\ w = IF p <= q THEN 0 ELSE p - q
    BY <2>4, <2>6, <2>7, WhatOneShiftAdds
  <2>9. ~(g[k] <= IF p <= f THEN 0 ELSE p - f)
    BY <2>6, <2>7
  <2>10. CASE k = 1
    <3>1. q = f /\ g[k - 1] = 0
      BY <2>6, <2>7, <2>10
    <3> QED
      BY <2>5, <2>6, <2>8, <2>9, <3>1
  <2>11. CASE k # 1
    <3>1. k - 1 \in DOMAIN shifts /\ k - 1 \in Nat /\ k - 1 < k /\ 1 < k
      BY <1>1, <2>4, <2>11
    <3>2. g[k - 1] <= Room(k - 1)
      BY <2>3, <3>1
    <3>3. PICK o : o = RoundedEnd(k - 1, to)
      OBVIOUS
    <3>4. o \in Int /\ g[k - 1] <= IF o <= f THEN 0 ELSE o - f
      BY <2>7, <3>1, <3>2, <3>3, WhatOneShiftAdds
    <3>5. o <= p /\ o <= q
      BY <2>4, <2>6, <3>1, <3>3, RoundedInTurn
    <3>6. f <= q
      BY <2>4, <2>6, <2>7, <3>1, RoundedInTurn
    <3> QED
      BY <2>5, <2>6, <2>8, <2>9, <3>4, <3>5, <3>6
  <2> QED
    BY <2>10, <2>11
<1>3. n \in Nat /\ n \notin over
  BY <1>1, <1>2
<1> QED
  BY <1>3

(* buildTimesheetSummary: the work of a period is no more than the rounded span
   from the first clock-in to the last clock-out or to the end of the period,
   for any number of shifts, however they touch, any interval and grace, and any
   end of the period.  What two shifts are rounded into is counted once. *)
THEOREM NothingIsCountedTwice == TotalsSpec => []NothingCountedTwice
<1>1. ASSUME ShiftsFollow, cut \in Nat PROVE NothingCountedTwice
  <2> SUFFICES ASSUME shifts # <<>>
               PROVE  Total("work", 0, cut) <=
                        Max({0, Rounded(Min({cut, shifts[Len(shifts)].end}), "out")
                                  - Rounded(shifts[1].start, "in")})
    BY DEF NothingCountedTwice
  <2>1. PICK n, to : n = Len(shifts) /\ to = cut
    OBVIOUS
  <2>2. n \in Nat /\ n # 0 /\ DOMAIN shifts = 1..n /\ to \in Nat
    BY <1>1, <2>1, LenProperties, EmptySeq DEF ShiftsFollow
  <2>3. n \in DOMAIN shifts /\ 1 \in DOMAIN shifts
    BY <2>2
  <2>4. PICK a : a = [k \in 1..n |-> AddedWork(k, to)]
    OBVIOUS
  <2>5. Total("work", 0, cut) = Tally(a)
    BY <2>1, <2>4 DEF Total, AddedWork
  <2>6. \A k \in 1..n : AddedWork(k, to) \in Int
    <3> SUFFICES ASSUME NEW k \in 1..n PROVE AddedWork(k, to) \in Int
      OBVIOUS
    <3>1. PICK w, p, q : w = AddedWork(k, to) /\ p = RoundedEnd(k, to) /\ q = RoundedStart(k)
      OBVIOUS
    <3>2. p \in Int /\ q \in Int /\ (w = 0 \/ w = IF p <= q THEN 0 ELSE p - q)
      BY <1>1, <2>2, <3>1, WhatOneShiftAdds
    <3>3. w \in Int
      BY <3>2
    <3> QED
      BY <3>1, <3>3
  <2>7. a \in Seq(Int) /\ Len(a) = n
    BY <2>2, <2>4, <2>6
  <2>8. PICK g \in [0..n -> Int] :
          g[0] = 0 /\ (\A k \in 1..n : g[k] = g[k - 1] + a[k]) /\ Tally(a) = g[n]
    BY <2>7, TallyIsLoop
  <2>9. \A k \in 1..Len(shifts) : g[k] = g[k - 1] + AddedWork(k, to)
    BY <2>1, <2>4, <2>8
  <2>10. PICK p, q : p = RoundedEnd(n, to) /\ q = RoundedStart(1)
    OBVIOUS
  <2>11. g[n] <= IF p <= q THEN 0 ELSE p - q
    BY <1>1, <2>1, <2>2, <2>3, <2>8, <2>9, <2>10, WorkFitsStretch
  <2>12. p \in Int /\ q \in Int
    BY <1>1, <2>2, <2>3, <2>10, WhatOneShiftAdds
  <2>13. Rounded(Min({cut, shifts[Len(shifts)].end}), "out") = p
    <3>1. PICK e \in Nat : e = shifts[n].end
      BY <1>1, <2>3, ShiftTimes
    <3>2. Min({to, e}) = IF e <= to THEN e ELSE to
      BY <2>2, <3>1, LeastOfTwo
    <3> QED
      BY <2>1, <2>10, <3>1, <3>2 DEF RoundedEnd
  <2>14. Rounded(shifts[1].start, "in") = q
    BY <2>10 DEF RoundedStart
  <2>15. PICK d \in Int : d = p - q
    BY <2>12
  <2>16. Max({0, d}) = IF 0 >= d THEN 0 ELSE d
    <3>1. 0 \in Int
      OBVIOUS
    <3> QED
      BY <3>1, LeastOfTwo, Zenon
  <2>17. n \in 0..n
    BY <2>2
  <2>18. g[n] \in Int
    BY <2>8, <2>17
  <2>19. g[n] <= Max({0, d})
    BY <2>11, <2>12, <2>15, <2>16, <2>18
  <2>20. Total("work", 0, cut) = g[n]
    BY <2>5, <2>8
  <2> QED
    BY <2>13, <2>14, <2>15, <2>19, <2>20, Zenon
<1>2. TotalsInit => cut \in Nat
  BY TotalsAssumption DEF TotalsInit
<1>3. cut \in Nat /\ [TotalsNext]_totalsVars => (cut \in Nat)'
  BY DEF TotalsNext, RecordShift, totalsVars
<1> QED
  BY <1>1, <1>2, <1>3, ShiftsFollowInit, ShiftsFollowStep, PTL DEF TotalsSpec

-----------------------------------------------------------------------------
(* Types: totals *)

TotalsInv == ShiftsFollow /\ rounding \in Roundings /\ cut \in PeriodEnds

LEMMA TotalsInvGives == TotalsInv => TotalsTypeOK
<1> SUFFICES ASSUME TotalsInv PROVE TotalsTypeOK
  OBVIOUS
<1>1. Len(shifts) \in Nat /\ DOMAIN shifts = 1..Len(shifts)
  BY LenProperties DEF TotalsInv, ShiftsFollow
<1>2. \A k \in 2..Len(shifts) : k - 1 \in DOMAIN shifts /\ k \in DOMAIN shifts /\ k - 1 < k
  BY <1>1
<1> QED
  BY <1>2 DEF TotalsInv, ShiftsFollow, TotalsTypeOK

LEMMA TotalsInvStep == TotalsInv /\ [TotalsNext]_totalsVars => TotalsInv'
<1>1. [TotalsNext]_totalsVars => UNCHANGED <<rounding, cut>>
  BY DEF TotalsNext, RecordShift, totalsVars
<1> QED
  BY <1>1, ShiftsFollowStep DEF TotalsInv

-----------------------------------------------------------------------------
(* Types: access.  Of finitely many ranks one is the highest. *)

LEMMA HighestExists ==
  ASSUME NEW S \in SUBSET Nat, IsFiniteSet(S), S # {}
  PROVE  Max(S) \in S
<1> DEFINE above(x) == {y \in S : y > x}
           counts == {Cardinality(above(x)) : x \in S}
<1>1. \A x \in S : IsFiniteSet(above(x)) /\ Cardinality(above(x)) \in Nat
  <2> SUFFICES ASSUME NEW x \in S
               PROVE  IsFiniteSet(above(x)) /\ Cardinality(above(x)) \in Nat
    OBVIOUS
  <2>1. above(x) \in SUBSET S
    OBVIOUS
  <2>2. IsFiniteSet(above(x))
    BY <2>1, FS_Subset
  <2> QED
    BY <2>2, FS_CardinalityType
<1>2. counts \in SUBSET Nat /\ counts # {}
  BY <1>1
<1>3. IsWellFoundedOn(OpToRel(<, Nat), Nat)
  BY NatLessThanWellFounded
<1>4. PICK n \in counts : \A k \in counts : ~(<<k, n>> \in OpToRel(<, Nat))
  BY <1>2, <1>3, WFMin
<1>5. \A k \in counts : ~(k < n)
  BY <1>2, <1>4 DEF OpToRel
<1>6. PICK x \in S : n = Cardinality(above(x))
  OBVIOUS
<1>7. ASSUME NEW y \in S, y > x PROVE FALSE
  <2>1. x \in Nat /\ y \in Nat /\ \A z \in S : z \in Nat
    OBVIOUS
  <2>2. above(y) \in SUBSET above(x) /\ y \in above(x) /\ y \notin above(y)
    <3>1. ~(y > y) /\ \A z \in S : z > y => z > x
      BY <1>7, <2>1
    <3> QED
      BY <1>7, <3>1, Zenon
  <2>3. Cardinality(above(y)) <= Cardinality(above(x)) /\ Cardinality(above(y)) # Cardinality(above(x))
    BY <1>1, <2>2, FS_Subset
  <2>4. Cardinality(above(y)) \in counts /\ Cardinality(above(y)) \in Nat /\ n \in Nat
    BY <1>1, <1>2
  <2> QED
    BY <1>5, <1>6, <2>3, <2>4
<1>8. \A y \in S : x >= y
  BY <1>7
<1> QED
  BY <1>8 DEF Max

(* What is desired is a rank, or none. *)
LEMMA DesiredIsGrant == DesiredRoles = Grants
<1>1. IsFiniteSet(Grants) /\ Grants \subseteq Nat
  BY AccessGroupsAssumption, FS_AddElement DEF Grants
<1>2. ASSUME NEW grants \in [AccessGroupIds -> Grants], NEW groups \in SUBSET AccessGroupIds
      PROVE  Desired(grants, groups) \in Grants
  <2>1. PICK S : S = {0} \cup {grants[g] : g \in groups}
    OBVIOUS
  <2>2. S \in SUBSET Grants /\ S # {}
    BY <2>1 DEF Grants
  <2>3. IsFiniteSet(S) /\ S \in SUBSET Nat
    BY <1>1, <2>2, FS_Subset
  <2>4. Max(S) \in S
    BY <2>2, <2>3, HighestExists
  <2> QED
    BY <2>1, <2>2, <2>4 DEF Desired
<1> QED
  BY <1>2 DEF DesiredRoles

(* Ids are given out in order, and what is remembered of a row is one of them. *)
IdsBounded ==
  /\ lastId <= MaxIds /\ membership.id <= lastId
  /\ \A a \in Editing : editing[a].current.id <= lastId

AccessTypeInv == AccessInv /\ IdsBounded

LEMMA AccessTypeInvGives == AccessTypeInv => AccessTypeOK
<1> SUFFICES ASSUME AccessTypeInv PROVE AccessTypeOK
  OBVIOUS
<1>1. AccessTypes /\ IdsBounded /\ MaxIds \in Nat
  BY AccessGroupsAssumption DEF AccessTypeInv, AccessInv
<1>2. membership \in [id : Nat, role : Grants, byGroup : BOOLEAN] /\ lastId \in 0..MaxIds
  BY <1>1, DesiredIsGrant DEF AccessTypes, MembershipRows, IdsBounded
<1>3. membership.id \in 0..MaxIds
  BY <1>1, <1>2 DEF IdsBounded
<1>4. membership \in Memberships
  BY <1>2, <1>3 DEF Memberships
<1>5. ASSUME NEW a \in AccessAdmins, editing[a] # NotEditing PROVE editing[a] \in Edits
  <2>1. a \in Editing /\ editing[a] \in EditRows
    BY <1>1, <1>5 DEF AccessTypes, Editing
  <2>2. editing[a].current \in [id : Nat, byGroup : BOOLEAN]
    BY <2>1 DEF EditRows
  <2>3. editing[a].current.id \in 0..MaxIds
    BY <1>1, <1>2, <2>1, <2>2 DEF IdsBounded
  <2>4. editing[a].current \in [id : 0..MaxIds, byGroup : BOOLEAN]
    BY <2>2, <2>3
  <2> QED
    BY <2>1, <2>4, DesiredIsGrant DEF EditRows, Edits
<1> QED
  BY <1>1, <1>2, <1>4, <1>5 DEF AccessTypes, AccessTypeOK, IdsBounded

LEMMA IdsInit == AccessInit => IdsBounded
BY EmptyRows, AccessGroupsAssumption DEF AccessInit, IdsBounded, Editing

LEMMA IdsStep == AccessInv /\ IdsBounded /\ [AccessNext]_accessVars => IdsBounded'
<1> SUFFICES ASSUME AccessInv, IdsBounded, [AccessNext]_accessVars PROVE IdsBounded'
  OBVIOUS
<1>1. AccessTypes /\ lastId \in Nat /\ membership \in MembershipRows /\ MaxIds \in Nat
      /\ editing \in [AccessAdmins -> EditRows \cup {NotEditing}]
  BY AccessGroupsAssumption DEF AccessInv, AccessTypes
<1>2. membership.id \in Nat
  BY <1>1 DEF MembershipRows
<1>3. ASSUME NEW a \in Editing
      PROVE  /\ a \in AccessAdmins /\ editing[a] \in EditRows /\ editing[a].current.id \in Nat
             /\ Rest(a) \in {NoMembership, membership} /\ Rest(a).id \in Nat /\ Rest(a).id <= lastId
  <2>1. a \in AccessAdmins /\ editing[a] \in EditRows /\ editing[a].current.id \in Nat
    BY <1>1 DEF Editing, EditRows
  <2>2. Rest(a) \in {NoMembership, membership}
    BY DEF Rest
  <2> QED
    BY <1>1, <1>2, <2>1, <2>2, EmptyRows DEF IdsBounded
<1>4. ASSUME NEW a \in Editing, editing' = [editing EXCEPT ![a] = NotEditing],
             lastId' \in Nat, lastId <= lastId', lastId' <= MaxIds, membership'.id <= lastId'
      PROVE  IdsBounded'
  <2>1. \A b \in Editing' : b \in Editing /\ editing'[b] = editing[b]
    BY <1>1, <1>3, <1>4 DEF Editing
  <2>2. \A b \in Editing' : editing'[b].current.id \in Nat /\ editing'[b].current.id <= lastId
    BY <1>3, <2>1 DEF IdsBounded
  <2> QED
    BY <1>1, <1>4, <2>2 DEF IdsBounded
<1>5. ASSUME NEW a \in AccessAdmins, NEW c \in Changes, BeginEdit(a, c) PROVE IdsBounded'
  <2>1. UNCHANGED <<membership, lastId>>
    BY <1>5 DEF BeginEdit
  <2>2. \A b \in Editing' : editing'[b].current.id <= lastId
    <3> SUFFICES ASSUME NEW b \in Editing' PROVE editing'[b].current.id <= lastId
      OBVIOUS
    <3>1. b \in AccessAdmins /\ editing'[b] # NotEditing
      BY DEF Editing
    <3>2. CASE b = a
      BY <1>1, <1>5, <3>1, <3>2 DEF BeginEdit
    <3>3. CASE b # a
      <4>1. b \in Editing /\ editing'[b] = [editing[b] EXCEPT !.alone = FALSE]
        BY <1>5, <3>1, <3>3 DEF BeginEdit
      <4>2. editing'[b].current = editing[b].current
        BY <1>3, <4>1 DEF EditRows
      <4> QED
        BY <4>1, <4>2 DEF IdsBounded
    <3> QED
      BY <3>2, <3>3
  <2> QED
    BY <2>1, <2>2 DEF IdsBounded
<1>6. ASSUME NEW a \in AccessAdmins, ReadDesired(a) PROVE IdsBounded'
  <2>1. a \in Editing /\ lastId' = lastId
    BY <1>6 DEF ReadDesired
  <2>2. CASE Affected(editing[a])
    <3>1. PICK d : editing' = [editing EXCEPT ![a].pc = "current", ![a].desired = d]
      BY <1>6, <2>2 DEF ReadDesired
    <3>2. membership' = membership
      BY <1>6, <2>2 DEF ReadDesired
    <3>3. \A b \in Editing' : b \in Editing /\ editing'[b].current = editing[b].current
      <4> SUFFICES ASSUME NEW b \in Editing'
                   PROVE  b \in Editing /\ editing'[b].current = editing[b].current
        OBVIOUS
      <4>1. CASE b = a
        BY <1>1, <1>3, <2>1, <3>1, <4>1 DEF EditRows
      <4>2. CASE b # a
        BY <1>1, <3>1, <4>2 DEF Editing
      <4> QED
        BY <4>1, <4>2
    <3> QED
      BY <2>1, <3>2, <3>3 DEF IdsBounded
  <2>3. CASE ~Affected(editing[a])
    <3>1. Commit(a, membership)
      BY <1>6, <2>3 DEF ReadDesired
    <3>2. /\ editing' = [editing EXCEPT ![a] = NotEditing] /\ lastId' \in Nat
          /\ lastId <= lastId' /\ lastId' <= MaxIds /\ membership'.id <= lastId'
      BY <1>1, <2>1, <3>1 DEF Commit, IdsBounded
    <3> QED
      BY <1>4, <2>1, <3>2
  <2> QED
    BY <2>2, <2>3
<1>7. ASSUME NEW a \in AccessAdmins, ReadCurrent(a) PROVE IdsBounded'
  <2>1. a \in Editing /\ UNCHANGED <<lastId, membership>>
    BY <1>7 DEF ReadCurrent
  <2>2. PICK row : row = [id |-> Rest(a).id, byGroup |-> Rest(a).byGroup]
    OBVIOUS
  <2>3. editing' = [editing EXCEPT ![a].pc = "write", ![a].current = row]
    BY <1>7, <2>2 DEF ReadCurrent
  <2>4. \A b \in Editing' :
          b \in Editing /\ (b # a => editing'[b] = editing[b]) /\ (b = a => editing'[b].current = row)
    <3> SUFFICES ASSUME NEW b \in Editing'
                 PROVE  /\ b \in Editing /\ (b # a => editing'[b] = editing[b])
                        /\ b = a => editing'[b].current = row
      OBVIOUS
    <3>1. CASE b = a
      BY <1>1, <1>3, <2>1, <2>3, <3>1 DEF EditRows
    <3>2. CASE b # a
      BY <1>1, <2>3, <3>2 DEF Editing
    <3> QED
      BY <3>1, <3>2
  <2>5. row.id <= lastId
    BY <1>3, <2>1, <2>2
  <2> QED
    BY <2>1, <2>4, <2>5 DEF IdsBounded
<1>8. ASSUME NEW a \in AccessAdmins, Reconcile(a) PROVE IdsBounded'
  <2>1. a \in Editing
    BY <1>8 DEF Reconcile
  <2>2. PICK x : x = editing[a]
    OBVIOUS
  <2>3. CASE x.current.id = 0 /\ x.desired # 0
    <3>1. /\ lastId < MaxIds /\ lastId' = lastId + 1
          /\ Commit(a, [id |-> lastId + 1, role |-> x.desired, byGroup |-> TRUE])
      BY <1>8, <2>2, <2>3 DEF Reconcile
    <3>2. /\ editing' = [editing EXCEPT ![a] = NotEditing]
          /\ membership' = [id |-> lastId + 1, role |-> x.desired, byGroup |-> TRUE]
      BY <3>1 DEF Commit
    <3>3. /\ lastId' \in Nat /\ lastId <= lastId' /\ lastId' <= MaxIds
          /\ membership'.id <= lastId'
      BY <1>1, <3>1, <3>2
    <3> QED
      BY <1>4, <2>1, <3>2, <3>3
  <2>4. CASE ~(x.current.id = 0 /\ x.desired # 0)
    <3>1. PICK row : /\ lastId' = lastId /\ Commit(a, row)
                     /\ row = IF ~x.current.byGroup \/ ~(Rest(a).id = x.current.id) THEN Rest(a)
                              ELSE IF x.desired = 0 THEN NoMembership
                              ELSE [membership EXCEPT !.role = x.desired]
      BY <1>8, <2>2, <2>4, Zenon DEF Reconcile
    <3>2. row.id <= lastId
      BY <1>1, <1>2, <1>3, <2>1, <3>1, EmptyRows DEF MembershipRows, IdsBounded
    <3>3. /\ editing' = [editing EXCEPT ![a] = NotEditing] /\ lastId' \in Nat
          /\ lastId <= lastId' /\ lastId' <= MaxIds /\ membership'.id <= lastId'
      BY <1>1, <3>1, <3>2 DEF Commit, IdsBounded
    <3> QED
      BY <1>4, <2>1, <3>3
  <2> QED
    BY <2>3, <2>4
<1>9. ASSUME NEW a \in AccessAdmins, EditFails(a) PROVE IdsBounded'
  <2>1. /\ a \in Editing /\ editing' = [editing EXCEPT ![a] = NotEditing] /\ lastId' \in Nat
        /\ lastId <= lastId' /\ lastId' <= MaxIds /\ membership'.id <= lastId'
    BY <1>1, <1>9 DEF EditFails, IdsBounded
  <2> QED
    BY <1>4, <2>1
<1>10. ASSUME NEW r \in Roles, SetDirect(r) PROVE IdsBounded'
  <2>1. UNCHANGED editing /\ Editing' = Editing
    BY <1>10 DEF SetDirect, Editing
  <2>2. lastId' \in Nat /\ lastId <= lastId' /\ lastId' <= MaxIds /\ membership'.id <= lastId'
    <3>1. CASE /\ membership = NoMembership /\ lastId < MaxIds
               /\ membership' = [id |-> lastId + 1, role |-> r, byGroup |-> FALSE]
               /\ lastId' = lastId + 1
      BY <1>1, <3>1
    <3>2. CASE membership' = [membership EXCEPT !.role = r] /\ UNCHANGED lastId
      <4>1. membership'.id = membership.id
        BY <1>1, <3>2 DEF MembershipRows
      <4> QED
        BY <1>1, <3>2, <4>1 DEF IdsBounded
    <3> QED
      BY <1>10, <3>1, <3>2 DEF SetDirect
  <2>3. \A a \in Editing : editing[a].current.id <= lastId'
    BY <1>1, <1>3, <2>2 DEF IdsBounded
  <2> QED
    BY <2>1, <2>2, <2>3 DEF IdsBounded
<1>11. CASE UNCHANGED accessVars
  BY <1>11 DEF accessVars, IdsBounded, Editing
<1> QED
  BY <1>5, <1>6, <1>7, <1>8, <1>9, <1>10, <1>11 DEF AccessNext

LEMMA AccessTypeInvStep == AccessTypeInv /\ [AccessNext]_accessVars => AccessTypeInv'
BY AccessInvStep, IdsStep DEF AccessTypeInv

-----------------------------------------------------------------------------
(* Types: corrections *)

CorrectionTypeInv ==
  /\ CorrectionInv
  /\ requests \in Seq(RequestRow) /\ Len(requests) <= MaxRequests
  /\ rows \in Seq(TimeRow) /\ Len(rows) <= MaxRows
  /\ adding \subseteq Slots /\ raced \subseteq DOMAIN requests
  /\ \A w \in Reviewers : deciding[w].request \in 0..Len(requests)

LEMMA CorrectionTypeInvGives == CorrectionTypeInv => CorrectionTypeOK
<1> SUFFICES ASSUME CorrectionTypeInv PROVE CorrectionTypeOK
  OBVIOUS
<1>1. deciding \in [Reviewers -> Deciding]
  BY DEF CorrectionTypeInv, CorrectionInv, CorrectionTypes
<1>2. \A w \in Reviewers : deciding[w] \in [pc : {"idle", "check", "apply", "mark", "reject"},
                                           request : 0..Len(requests)]
  BY <1>1 DEF CorrectionTypeInv, Deciding
<1>3. deciding \in [Reviewers -> [pc : {"idle", "check", "apply", "mark", "reject"},
                                  request : 0..Len(requests)]]
  BY <1>1, <1>2
<1> QED
  BY <1>3 DEF CorrectionTypeInv, CorrectionTypeOK

LEMMA CorrectionTypeInit == CorrectionInit => CorrectionTypeInv
<1> SUFFICES ASSUME CorrectionInit PROVE CorrectionTypeInv
  OBVIOUS
<1>1. CorrectionInv
  BY CorrectionInvInit
<1> QED
  BY <1>1, CorrectionsAssumption DEF CorrectionInit, CorrectionTypeInv, NotDeciding

(* A request is added, or rewritten in its place. *)
RequestsGrow ==
  /\ requests' \in Seq(RequestRow) /\ Len(requests) <= Len(requests') /\ Len(requests') <= MaxRequests

RowsGrow == rows' \in Seq(TimeRow) /\ Len(rows') <= MaxRows

LEMMA CorrectionTypeNext ==
  ASSUME CorrectionTypeInv, CorrectionInv', RequestsGrow, RowsGrow, adding' \subseteq Slots,
         raced' \subseteq DOMAIN requests,
         \A w \in Reviewers : deciding'[w].request \in 0..Len(requests)
  PROVE  CorrectionTypeInv'
<1>1. Len(requests) \in Nat /\ Len(requests') \in Nat
      /\ DOMAIN requests = 1..Len(requests) /\ DOMAIN requests' = 1..Len(requests')
  BY LenProperties DEF CorrectionTypeInv, RequestsGrow
<1>2. DOMAIN requests \subseteq DOMAIN requests' /\ 0..Len(requests) \subseteq 0..Len(requests')
  BY <1>1 DEF RequestsGrow
<1> QED
  BY <1>2 DEF CorrectionTypeInv, RequestsGrow, RowsGrow

LEMMA RequestAsked ==
  ASSUME CorrectionTypeInv, NEW type \in {"add", "edit", "delete"}, NEW e \in 0..MaxRows,
         NEW s \in Slots, Ask(type, e, s)
  PROVE  RequestsGrow
<1>1. PICK q : q = [type |-> type, entry |-> e, slot |-> s, status |-> "pending",
                    applied |-> FALSE]
  OBVIOUS
<1>2. q \in RequestRow
  BY <1>1 DEF RequestRow
<1>3. requests' = Append(requests, q) /\ Len(requests) < MaxRequests
  BY <1>1 DEF Ask
<1>4. requests \in Seq(RequestRow) /\ Len(requests) \in Nat
  BY LenProperties DEF CorrectionTypeInv
<1>5. requests' \in Seq(RequestRow) /\ Len(requests') = Len(requests) + 1
  BY <1>2, <1>3, <1>4, AppendProperties
<1> QED
  BY <1>3, <1>4, <1>5, CorrectionsAssumption DEF RequestsGrow

LEMMA RowInserted ==
  ASSUME CorrectionTypeInv, NEW s \in Slots, NEW origin \in 0..MaxRequests, AppendRow(s, origin)
  PROVE  RowsGrow
<1>1. PICK x : x = [slot |-> s, live |-> TRUE, origin |-> origin]
  OBVIOUS
<1>2. x \in TimeRow
  BY <1>1 DEF TimeRow
<1>3. rows' = Append(rows, x) /\ Len(rows) < MaxRows
  BY <1>1 DEF AppendRow
<1>4. rows \in Seq(TimeRow) /\ Len(rows) \in Nat
  BY LenProperties DEF CorrectionTypeInv
<1>5. rows' \in Seq(TimeRow) /\ Len(rows') = Len(rows) + 1
  BY <1>2, <1>3, <1>4, AppendProperties
<1> QED
  BY <1>3, <1>4, <1>5, CorrectionsAssumption DEF RowsGrow

(* A row of a table is rewritten with one of its kind. *)
LEMMA EntryRewritten ==
  ASSUME NEW S, NEW t \in Seq(S), NEW k \in DOMAIN t, NEW x \in S
  PROVE  /\ [t EXCEPT ![k] = x] \in Seq(S) /\ Len([t EXCEPT ![k] = x]) = Len(t)
<1>1. Len(t) \in Nat /\ DOMAIN t = 1..Len(t) /\ \A j \in DOMAIN t : t[j] \in S
  BY LenProperties, ElementOfSeq
<1>2. PICK u : u = [t EXCEPT ![k] = x]
  OBVIOUS
<1>3. u \in [1..Len(t) -> S]
  BY <1>1, <1>2
<1>4. u \in Seq(S) /\ Len(u) = Len(t)
  BY <1>1, <1>3, IsASeq, LenProperties
<1> QED
  BY <1>2, <1>4

LEMMA SameTables ==
  ASSUME CorrectionTypeInv
  PROVE  (requests' = requests => RequestsGrow) /\ (rows' = rows => RowsGrow)
<1>1. Len(requests) \in Nat
  BY LenProperties DEF CorrectionTypeInv
<1> QED
  BY <1>1 DEF CorrectionTypeInv, RequestsGrow, RowsGrow

LEMMA RequestRewritten ==
  ASSUME CorrectionTypeInv, NEW r \in DOMAIN requests, NEW q \in RequestRow,
         requests' = [requests EXCEPT ![r] = q]
  PROVE  RequestsGrow
<1>1. requests \in Seq(RequestRow) /\ Len(requests) \in Nat
  BY LenProperties DEF CorrectionTypeInv
<1>2. requests' \in Seq(RequestRow) /\ Len(requests') = Len(requests)
  BY <1>1, EntryRewritten
<1> QED
  BY <1>1, <1>2 DEF CorrectionTypeInv, RequestsGrow

LEMMA DecidingMoved ==
  ASSUME CorrectionTypeInv, NEW w \in Reviewers, NEW x, x.request \in 0..Len(requests),
         deciding' = [deciding EXCEPT ![w] = x]
  PROVE  \A v \in Reviewers : deciding'[v].request \in 0..Len(requests)
<1>1. deciding \in [Reviewers -> Deciding]
  BY DEF CorrectionTypeInv, CorrectionInv, CorrectionTypes
<1> QED
  BY <1>1 DEF CorrectionTypeInv

LEMMA ApplyTypes ==
  ASSUME CorrectionTypeInv, NEW w \in Reviewers, ApplyChange(w)
  PROVE  /\ RequestsGrow /\ RowsGrow /\ raced' \subseteq DOMAIN requests
         /\ \A v \in Reviewers : deciding'[v].request \in 0..Len(requests)
<1>1. PICK r : r = deciding[w].request
  OBVIOUS
<1>2. /\ deciding \in [Reviewers -> Deciding] /\ r \in DOMAIN requests
      /\ requests \in Seq(RequestRow) /\ rows \in Seq(TimeRow)
  BY <1>1 DEF ApplyChange, CorrectionTypeInv, CorrectionInv, CorrectionTypes
<1>3. /\ Len(requests) \in Nat /\ DOMAIN requests = 1..Len(requests) /\ r \in Nat
      /\ r \in 0..Len(requests) /\ Len(requests) <= MaxRequests /\ MaxRequests \in Nat
      /\ requests[r] \in RequestRow
  BY <1>2, LenProperties, ElementOfSeq, CorrectionsAssumption DEF CorrectionTypeInv
<1>4. PICK q : q = requests[r]
  OBVIOUS
<1>5. q.type \in {"add", "edit", "delete"} /\ q.slot \in Slots /\ r \in 0..MaxRequests
  BY <1>3, <1>4 DEF RequestRow
<1>6. raced' \subseteq DOMAIN requests
  BY <1>1, <1>2 DEF ApplyChange, CorrectionTypeInv
<1>7. ASSUME Carried(r) PROVE RequestsGrow
  <2>1. [q EXCEPT !.applied = TRUE] \in RequestRow
    BY <1>3, <1>4 DEF RequestRow
  <2>2. requests' = [requests EXCEPT ![r] = [q EXCEPT !.applied = TRUE]]
    BY <1>4, <1>7 DEF Carried
  <2> QED
    BY <1>2, <2>1, <2>2, RequestRewritten
<1>8. ASSUME Turns(w, "mark") PROVE \A v \in Reviewers : deciding'[v].request \in 0..Len(requests)
  <2>1. PICK x : x = [deciding[w] EXCEPT !.pc = "mark"]
    OBVIOUS
  <2>2. x.request = r /\ deciding' = [deciding EXCEPT ![w] = x]
    BY <1>1, <1>2, <1>8, <2>1 DEF Turns, Deciding
  <2> QED
    BY <1>3, <2>2, DecidingMoved
<1>9. ASSUME NEW x \in TimeRow, rows' = [rows EXCEPT ![q.entry] = x], q.entry \in DOMAIN rows
      PROVE  RowsGrow
  <2>1. rows' \in Seq(TimeRow) /\ Len(rows') = Len(rows)
    BY <1>2, <1>9, EntryRewritten
  <2> QED
    BY <2>1 DEF CorrectionTypeInv, RowsGrow
<1>10. q.entry \in DOMAIN rows => rows[q.entry] \in TimeRow
  BY <1>2, LenProperties, ElementOfSeq
<1>11. ASSUME NEW x, rows' = [rows EXCEPT ![q.entry] = x], q.entry \notin DOMAIN rows PROVE RowsGrow
  <2>1. rows' = rows
    BY <1>2, <1>11, LenProperties
  <2> QED
    BY <2>1, SameTables
<1>12. CASE q.type = "add" /\ AppendRow(q.slot, r) /\ Carried(r) /\ Turns(w, "mark")
  <2>1. RowsGrow
    BY <1>5, <1>12, RowInserted
  <2> QED
    BY <1>6, <1>7, <1>8, <1>12, <2>1
<1>13. CASE /\ q.type = "delete" /\ rows' = [rows EXCEPT ![q.entry].live = FALSE]
            /\ Carried(r) /\ Turns(w, "mark")
  <2>1. PICK x : x = [rows[q.entry] EXCEPT !.live = FALSE]
    OBVIOUS
  <2>2. rows' = [rows EXCEPT ![q.entry] = x]
    BY <1>13, <2>1
  <2>3. q.entry \in DOMAIN rows => x \in TimeRow
    BY <1>10, <2>1 DEF TimeRow
  <2> QED
    BY <1>6, <1>7, <1>8, <1>9, <1>11, <1>13, <2>2, <2>3
<1>14. CASE /\ q.type = "edit"
            /\ rows' = [rows EXCEPT ![q.entry].slot = q.slot, ![q.entry].origin = 0]
            /\ Carried(r) /\ Turns(w, "mark")
  <2>1. PICK x : x = [rows[q.entry] EXCEPT !.slot = q.slot, !.origin = 0]
    OBVIOUS
  <2>2. rows' = [rows EXCEPT ![q.entry] = x]
    BY <1>2, <1>14, <2>1, LenProperties
  <2>3. q.entry \in DOMAIN rows => x \in TimeRow
    <3>1. 0 \in 0..MaxRequests
      BY <1>3
    <3> QED
      BY <1>5, <1>10, <2>1, <3>1 DEF TimeRow
  <2> QED
    BY <1>6, <1>7, <1>8, <1>9, <1>11, <1>14, <2>2, <2>3
<1>15. CASE TurnsAway(w) /\ UNCHANGED <<requests, rows>>
  <2>1. NotDeciding.request \in 0..Len(requests) /\ deciding' = [deciding EXCEPT ![w] = NotDeciding]
    BY <1>3, <1>15 DEF NotDeciding, TurnsAway
  <2>2. \A v \in Reviewers : deciding'[v].request \in 0..Len(requests)
    BY <2>1, DecidingMoved
  <2> QED
    BY <1>6, <1>15, <2>2, SameTables
<1> QED
  BY <1>1, <1>4, <1>12, <1>13, <1>14, <1>15 DEF ApplyChange

LEMMA CorrectionTypeStep ==
  CorrectionTypeInv /\ [CorrectionNext]_correctionVars => CorrectionTypeInv'
<1> SUFFICES ASSUME CorrectionTypeInv, [CorrectionNext]_correctionVars PROVE CorrectionTypeInv'
  OBVIOUS
<1>1. CorrectionInv'
  BY CorrectionInvStep DEF CorrectionTypeInv
<1>2. /\ deciding \in [Reviewers -> Deciding] /\ requests \in Seq(RequestRow)
      /\ rows \in Seq(TimeRow) /\ Len(requests) \in Nat /\ DOMAIN requests = 1..Len(requests)
      /\ Len(rows) \in Nat /\ DOMAIN rows = 1..Len(rows) /\ Len(rows) <= MaxRows /\ MaxRows \in Nat
  BY LenProperties, CorrectionsAssumption DEF CorrectionTypeInv, CorrectionInv, CorrectionTypes
<1>3. 0 \in 0..MaxRows /\ LiveRows \subseteq 0..MaxRows /\ 0 \in 0..MaxRequests
  BY <1>2, CorrectionsAssumption DEF LiveRows
<1>4. /\ requests' = requests => RequestsGrow
      /\ rows' = rows => RowsGrow
      /\ deciding' = deciding => \A w \in Reviewers : deciding'[w].request \in 0..Len(requests)
      /\ raced' = raced => raced' \subseteq DOMAIN requests
      /\ adding' = adding => adding' \subseteq Slots
  BY SameTables DEF CorrectionTypeInv
<1>5. ASSUME NEW s \in Slots, NEW e \in 0..MaxRows, NEW type \in {"add", "edit", "delete"},
             CreateRequest(type, e, s)
      PROVE  CorrectionTypeInv'
  <2>1. RequestsGrow
    BY <1>5, RequestAsked DEF CreateRequest
  <2> QED
    BY <1>1, <1>4, <1>5, <2>1, CorrectionTypeNext DEF CreateRequest
<1>6. ASSUME NEW s \in Slots, AddOwnTime(s) PROVE CorrectionTypeInv'
  <2>1. RequestsGrow /\ adding' \subseteq Slots
    <3>1. CASE Ask("add", 0, s) /\ UNCHANGED adding
      BY <1>3, <1>4, <3>1, RequestAsked
    <3>2. CASE adding' = adding \cup {s} /\ UNCHANGED requests
      BY <1>4, <3>2 DEF CorrectionTypeInv
    <3> QED
      BY <1>6, <3>1, <3>2 DEF AddOwnTime
  <2> QED
    BY <1>1, <1>4, <1>6, <2>1, CorrectionTypeNext DEF AddOwnTime
<1>7. ASSUME NEW s \in Slots, InsertOwnTime(s) PROVE CorrectionTypeInv'
  <2>1. RowsGrow /\ adding' \subseteq Slots
    BY <1>3, <1>7, RowInserted DEF InsertOwnTime, CorrectionTypeInv
  <2> QED
    BY <1>1, <1>4, <1>7, <2>1, CorrectionTypeNext DEF InsertOwnTime
<1>8. ASSUME NEW w \in Reviewers, NEW x, x.request \in 0..Len(requests),
             deciding' = [deciding EXCEPT ![w] = x], RequestsGrow, UNCHANGED <<rows, adding, raced>>
      PROVE  CorrectionTypeInv'
  <2>1. \A v \in Reviewers : deciding'[v].request \in 0..Len(requests)
    BY <1>8, DecidingMoved
  <2> QED
    BY <1>1, <1>4, <1>8, <2>1, CorrectionTypeNext
<1>9. ASSUME NEW w \in Reviewers, NEW r \in DOMAIN requests, NEW pc \in {"check", "reject"},
             ReadPending(w, r, pc)
      PROVE  CorrectionTypeInv'
  <2>1. PICK x : x = [pc |-> pc, request |-> r]
    OBVIOUS
  <2>2. x.request \in 0..Len(requests) /\ deciding' = [deciding EXCEPT ![w] = x]
        /\ RequestsGrow /\ UNCHANGED <<rows, adding, raced>>
    BY <1>2, <1>4, <1>9, <2>1 DEF ReadPending
  <2> QED
    BY <1>8, <2>2
<1>10. NotDeciding.request \in 0..Len(requests)
  BY <1>2 DEF NotDeciding
<1>11. ASSUME NEW w \in Reviewers, CheckChange(w) PROVE CorrectionTypeInv'
  <2>1. RequestsGrow /\ UNCHANGED <<rows, adding, raced>>
    BY <1>4, <1>11 DEF CheckChange
  <2>2. CASE Turns(w, "apply")
    <3>1. PICK x : x = [deciding[w] EXCEPT !.pc = "apply"]
      OBVIOUS
    <3>2. x.request = deciding[w].request /\ deciding' = [deciding EXCEPT ![w] = x]
      BY <1>2, <2>2, <3>1 DEF Turns, Deciding
    <3>3. x.request \in 0..Len(requests)
      BY <3>2 DEF CorrectionTypeInv
    <3> QED
      BY <1>8, <2>1, <3>2, <3>3
  <2>3. CASE TurnsAway(w)
    <3>1. deciding' = [deciding EXCEPT ![w] = NotDeciding]
      BY <2>3 DEF TurnsAway
    <3> QED
      BY <1>8, <1>10, <2>1, <3>1
  <2> QED
    BY <1>11, <2>2, <2>3 DEF CheckChange
<1>12. ASSUME NEW w \in Reviewers, ApplyChange(w) PROVE CorrectionTypeInv'
  <2>1. adding' \subseteq Slots
    BY <1>4, <1>12 DEF ApplyChange
  <2> QED
    BY <1>1, <1>12, <2>1, ApplyTypes, CorrectionTypeNext
<1>13. ASSUME NEW w \in Reviewers, MarkRequest(w) PROVE CorrectionTypeInv'
  <2>1. PICK r : r = deciding[w].request
    OBVIOUS
  <2>2. r \in DOMAIN requests /\ requests[r] \in RequestRow
    BY <1>2, <1>13, <2>1, ElementOfSeq DEF MarkRequest, CorrectionTypeInv, CorrectionInv, CorrectionTypes
  <2>3. PICK q : q = [requests[r] EXCEPT !.status = IF deciding[w].pc = "reject" THEN "rejected"
                                                    ELSE "approved"]
    OBVIOUS
  <2>4. q \in RequestRow
    BY <2>2, <2>3 DEF RequestRow
  <2>5. requests' = [requests EXCEPT ![r] = q]
    BY <1>13, <2>1, <2>3 DEF MarkRequest
  <2>6. RequestsGrow
    BY <2>2, <2>4, <2>5, RequestRewritten
  <2>7. deciding' = [deciding EXCEPT ![w] = NotDeciding] /\ UNCHANGED <<rows, adding, raced>>
    BY <1>13 DEF MarkRequest, TurnsAway
  <2> QED
    BY <1>8, <1>10, <2>6, <2>7
<1>14. ASSUME NEW w \in Reviewers, ReviewerStops(w) PROVE CorrectionTypeInv'
  <2>1. deciding' = [deciding EXCEPT ![w] = NotDeciding] /\ UNCHANGED <<requests, rows, adding, raced>>
    BY <1>14 DEF ReviewerStops, TurnsAway
  <2> QED
    BY <1>4, <1>8, <1>10, <2>1
<1>15. CASE UNCHANGED correctionVars
  BY <1>1, <1>4, <1>15, CorrectionTypeNext DEF correctionVars
<1> QED
  BY <1>3, <1>5, <1>6, <1>7, <1>9, <1>11, <1>12, <1>13, <1>14, <1>15 DEF CorrectionNext

-----------------------------------------------------------------------------
(* Types: sessions *)

(* A successor is a token of the same sign-in. *)
Succeeds ==
  \A i \in DOMAIN tokens : tokens[i].next # 0 =>
    tokens[i].next \in DOMAIN tokens /\ tokens[tokens[i].next].from = tokens[i].from

LEMMA SessionTypeGiven == SessionInv /\ Succeeds /\ signIn \in {"on", "disabled", "blocked"} => SessionTypeOK
BY DEF SessionInv, Succeeds, TokensOK, CallsOK, SessionTypeOK

(* Tokens that stay where they are keep their successors; a new one has none. *)
LEMMA SuccessorsStay ==
  ASSUME Succeeds, DOMAIN tokens \subseteq DOMAIN tokens',
         \A i \in DOMAIN tokens : tokens'[i].from = tokens[i].from,
         \A i \in DOMAIN tokens' :
           \/ i \in DOMAIN tokens /\ tokens'[i].next = tokens[i].next
           \/ tokens'[i].next = 0
           \/ /\ tokens'[i].next \in DOMAIN tokens'
              /\ tokens'[tokens'[i].next].from = tokens'[i].from
  PROVE  Succeeds'
<1> SUFFICES ASSUME NEW i \in DOMAIN tokens', tokens'[i].next # 0
             PROVE  /\ tokens'[i].next \in DOMAIN tokens'
                    /\ tokens'[tokens'[i].next].from = tokens'[i].from
  BY DEF Succeeds
<1>1. CASE i \in DOMAIN tokens /\ tokens'[i].next = tokens[i].next
  <2>1. tokens[i].next \in DOMAIN tokens /\ tokens[tokens[i].next].from = tokens[i].from
    BY <1>1 DEF Succeeds
  <2> QED
    BY <1>1, <2>1
<1> QED
  BY <1>1

LEMMA SucceedsStep == SessionInv /\ Succeeds /\ [SessionNext]_sessionVars => Succeeds'
<1> SUFFICES ASSUME SessionInv, Succeeds, [SessionNext]_sessionVars PROVE Succeeds'
  OBVIOUS
<1>1. PICK n : n = Len(tokens)
  OBVIOUS
<1>2. /\ n \in Nat /\ DOMAIN tokens = 1..n /\ tokens \in Seq(Token)
      /\ call \in [SessionCallers -> Call] /\ \A d \in SessionCallers : CallOK(call[d])
      /\ \A t \in Tabs : t \in SessionCallers
  BY <1>1, SessionFacts DEF SessionInv, TokensOK
<1>3. \A i \in 1..n : tokens[i] \in Token
  BY <1>1, <1>2, ElementOfSeq
<1>4. ASSUME UNCHANGED tokens PROVE Succeeds'
  BY <1>4 DEF Succeeds
<1>5. ASSUME NEW t \in SessionCallers, IssueTokens(t) PROVE Succeeds'
  <2>1. PICK new : new = [from |-> n + 1, method |-> call[t].method, revoked |-> FALSE, next |-> 0]
    OBVIOUS
  <2>2. tokens' = Append(tokens, new) /\ new.next = 0
    BY <1>1, <1>5, <2>1 DEF IssueTokens
  <2>3. /\ DOMAIN tokens' = 1..(n + 1) /\ tokens'[n + 1] = new
        /\ \A i \in 1..n : tokens'[i] = tokens[i]
    BY <1>1, <1>2, <2>2
  <2> QED
    BY <1>2, <2>2, <2>3, SuccessorsStay
<1>6. ASSUME NEW t \in SessionCallers, RotateCommit(t) PROVE Succeeds'
  <2>1. PICK i : i = call[t].id
    OBVIOUS
  <2>2. i \in 1..n
    BY <1>1, <1>2, <1>6, <2>1 DEF RotateCommit, CallOK
  <2>3. PICK base : base = [tokens EXCEPT ![i].revoked = TRUE, ![i].next = n + 1]
    OBVIOUS
  <2>4. PICK new : new = Rotated(i)
    OBVIOUS
  <2>5. tokens' = Append(base, new) /\ new.next = 0 /\ new.from = tokens[i].from
    BY <1>1, <1>6, <2>1, <2>3, <2>4 DEF RotateCommit, Rotated
  <2>6. PICK k : k = [tokens[i] EXCEPT !.revoked = TRUE, !.next = n + 1]
    OBVIOUS
  <2>7. k \in Token /\ k.from = tokens[i].from /\ k.next = n + 1
    <3>1. n + 1 \in Nat /\ tokens[i] \in Token
      BY <1>2, <1>3, <2>2
    <3> QED
      BY <2>6, <3>1 DEF Token
  <2>8. base = [tokens EXCEPT ![i] = k]
    BY <1>2, <2>2, <2>3, <2>6
  <2>9. base \in Seq(Token) /\ Len(base) = n /\ base[i] = k /\ \A j \in 1..n : j # i => base[j] = tokens[j]
    BY <1>1, <1>2, <2>2, <2>7, <2>8, EntryRewritten
  <2>10. /\ DOMAIN tokens' = 1..(n + 1) /\ tokens'[n + 1] = new
         /\ \A j \in 1..n : tokens'[j] = base[j]
    BY <1>2, <2>5, <2>9
  <2>11. tokens'[i].next = n + 1 /\ tokens'[n + 1].from = tokens'[i].from
    BY <2>2, <2>5, <2>7, <2>9, <2>10
  <2>12. \A j \in DOMAIN tokens : tokens'[j].from = tokens[j].from
    BY <1>2, <2>7, <2>9, <2>10
  <2>13. \A j \in DOMAIN tokens' :
           \/ j \in DOMAIN tokens /\ tokens'[j].next = tokens[j].next
           \/ tokens'[j].next = 0
           \/ /\ tokens'[j].next \in DOMAIN tokens'
              /\ tokens'[tokens'[j].next].from = tokens'[j].from
    <3> SUFFICES ASSUME NEW j \in 1..(n + 1)
                 PROVE  \/ j \in DOMAIN tokens /\ tokens'[j].next = tokens[j].next
                        \/ tokens'[j].next = 0
                        \/ /\ tokens'[j].next \in DOMAIN tokens'
                           /\ tokens'[tokens'[j].next].from = tokens'[j].from
      BY <2>10
    <3>1. CASE j = n + 1
      BY <2>5, <2>10, <3>1
    <3>2. CASE j = i
      BY <1>2, <2>10, <2>11, <3>2
    <3>3. CASE j # n + 1 /\ j # i
      BY <1>2, <2>9, <2>10, <3>3
    <3> QED
      BY <3>1, <3>2, <3>3
  <2> QED
    BY <1>2, <2>10, <2>12, <2>13, SuccessorsStay
<1>7. ASSUME NEW t \in SessionCallers, UpdateTokens(t) PROVE Succeeds'
  <2>1. tokens' = [i \in DOMAIN tokens |->
                    [tokens[i] EXCEPT !.revoked = @ \/ i \in call[t].snap]]
    BY <1>7 DEF UpdateTokens
  <2>2. DOMAIN tokens' = DOMAIN tokens
        /\ \A i \in DOMAIN tokens : tokens'[i].from = tokens[i].from /\ tokens'[i].next = tokens[i].next
    BY <1>2, <1>3, <2>1 DEF Token
  <2> QED
    BY <2>2, SuccessorsStay
<1>8. ASSUME NEW t \in SessionCallers, RevokeOne(t) PROVE Succeeds'
  <2>1. tokens' = [tokens EXCEPT ![call[t].old].revoked = TRUE]
    BY <1>8 DEF RevokeOne
  <2>2. DOMAIN tokens' = DOMAIN tokens
        /\ \A i \in DOMAIN tokens : tokens'[i].from = tokens[i].from /\ tokens'[i].next = tokens[i].next
    BY <1>2, <1>3, <2>1 DEF Token
  <2> QED
    BY <2>2, SuccessorsStay
<1>9. ASSUME NEW c \in SessionCallers, Serving(c) PROVE Succeeds'
  <2>1. CASE RotateLock(c) \/ CheckUser(c) \/ FindTokens(c)
    BY <1>4, <2>1 DEF RotateLock, CheckUser, FindTokens
  <2> QED
    BY <1>5, <1>6, <1>7, <1>8, <1>9, <2>1 DEF Serving
<1>10. ASSUME NEW t \in Tabs,
              \/ \E m \in Methods : SignInWith(t, m)
              \/ Refresh(t) \/ SignOutFrom(t) \/ ChangePassword(t)
              \/ ReceiveTokens(t) \/ ReceiveAnswer(t) \/ OpenTab(t)
       PROVE  Succeeds'
  BY <1>4, <1>10
  DEF SignInWith, Refresh, SignOutFrom, ChangePassword, ReceiveTokens, ReceiveAnswer, OpenTab
<1>11. ASSUME NEW c \in SessionCallers, FailRequest(c) PROVE Succeeds'
  BY <1>4, <1>11 DEF FailRequest
<1>12. CASE \/ \E how \in {"disabled", "blocked"} : SwitchOff(how)
            \/ SwitchOn \/ BackChannelLogout \/ ListAsRevoked \/ UNCHANGED sessionVars
  BY <1>4, <1>12 DEF SwitchOff, SwitchOn, BackChannelLogout, ListAsRevoked, sessionVars
<1> QED
  BY <1>9, <1>10, <1>11, <1>12 DEF SessionNext

LEMMA SignInStays ==
  signIn \in {"on", "disabled", "blocked"} /\ [SessionNext]_sessionVars
    => signIn' \in {"on", "disabled", "blocked"}
BY DEF SessionNext, sessionVars, SignInWith, Refresh, SignOutFrom, ChangePassword, ReceiveTokens,
       ReceiveAnswer, OpenTab, Serving, IssueTokens, RotateLock, RotateCommit, CheckUser,
       FindTokens, UpdateTokens, RevokeOne, FailRequest, SwitchOff, SwitchOn,
       BackChannelLogout, ListAsRevoked

SessionTypeInv == SessionInv /\ Succeeds /\ signIn \in {"on", "disabled", "blocked"}

LEMMA SessionTypeInit == SessionInit => SessionTypeInv
<1>1. SessionInit => Succeeds /\ signIn \in {"on", "disabled", "blocked"}
  BY DEF SessionInit, Succeeds
<1> QED
  BY <1>1, SessionInvInit DEF SessionTypeInv

LEMMA SessionTypeStep == SessionTypeInv /\ [SessionNext]_sessionVars => SessionTypeInv'
BY SessionInvStep, SucceedsStep, SignInStays DEF SessionTypeInv

-----------------------------------------------------------------------------
(* Updates of the appliance *)

(* A healthy api has the schema that its release knows. *)
HealthyFits == api.healthy => schema = SchemaAt[api.release]

(* Nothing to migrate, and no update that could bring something. *)
Covered == waived \/ begun \in dumps \cup rotated
NothingMoves ==
  ~Covered => /\ schema = begun
              /\ SchemaAt[tagged] <= schema /\ SchemaAt[api.release] <= schema
              /\ updater.pc \in {"idle", "backup"}

ReleaseInv == ReleaseTypeOK /\ HealthyFits /\ NothingMoves

LEMMA ReleaseInvInit == ReleaseInit => ReleaseInv
<1> SUFFICES ASSUME ReleaseInit PROVE ReleaseInv
  OBVIOUS
<1>1. SchemaAt[1] \in Nat \ {0} /\ 1 \in 1..MaxRelease
  BY ReleaseAssumption
<1>2. NoUpdate \in Updater /\ NoUpdate.pc = "idle"
  BY ReleaseAssumption DEF NoUpdate, Updater
<1>3. HealthyFits /\ NothingMoves
  BY <1>1, <1>2 DEF ReleaseInit, HealthyFits, NothingMoves
<1> QED
  BY <1>1, <1>2, <1>3 DEF ReleaseInit, ReleaseInv, ReleaseTypeOK

(* Another container of the tagged image boots with nothing to migrate. *)
LEMMA ComposeUpStep ==
  ASSUME ReleaseInv, ComposeUp
  PROVE  /\ api' \in [release : 1..MaxRelease, healthy : BOOLEAN]
         /\ api'.healthy => schema = SchemaAt[api'.release]
         /\ ~Covered => SchemaAt[api'.release] <= schema
<1>1. CASE api' = [release |-> tagged, healthy |-> FALSE]
  BY <1>1 DEF ReleaseInv, ReleaseTypeOK, NothingMoves
<1>2. CASE UNCHANGED api
  BY <1>2 DEF ReleaseInv, ReleaseTypeOK, HealthyFits, NothingMoves
<1> QED
  BY <1>1, <1>2 DEF ComposeUp

(* Whatever a step of the script goes on with, it knows what to go back to. *)
Captured == updater \in Updater /\ (updater.pc # "idle" => updater.sha # 0)

UpdaterSteps == {"fetch", "pull", "up", "waiting", "failed", "rollback", "restart"}

LEMMA UpdaterMoves ==
  ASSUME Captured, updater.pc # "idle",
         Exit \/ \E step \in UpdaterSteps : Goto(step)
  PROVE  Captured'
<1>1. CASE Exit
  BY <1>1, ReleaseAssumption DEF Exit, NoUpdate, Captured, Updater
<1>2. ASSUME NEW step \in UpdaterSteps, Goto(step) PROVE Captured'
  BY <1>2 DEF Goto, Captured, Updater, UpdaterSteps
<1> QED
  BY <1>1, <1>2

(* A dump goes for its age alone, and whoever has skipped one has. *)
BackupsKept ==
  /\ dumps \cup rotated \subseteq dumps' \cup rotated' /\ (waived => waived')
  /\ dumps' \subseteq Nat \ {0} /\ rotated' \subseteq Nat \ {0}
  /\ old' \subseteq dumps' /\ waived' \in BOOLEAN

LEMMA DumpStep ==
  ASSUME ReleaseInv, Dump, UNCHANGED waived
  PROVE  BackupsKept /\ schema \in dumps'
<1>1. /\ schema \in Nat \ {0} /\ dumps \subseteq Nat \ {0} /\ rotated \subseteq Nat \ {0}
      /\ old \subseteq dumps /\ waived \in BOOLEAN
  BY DEF ReleaseInv, ReleaseTypeOK
<1> QED
  BY <1>1 DEF Dump, BackupsKept

(* Steps that leave the container and the database alone. *)
LEMMA Kept ==
  ASSUME ReleaseInv, Captured', UNCHANGED <<published, api, schema, begun>>,
         checkout' \in 1..MaxRelease, tagged' \in 1..MaxRelease,
         BackupsKept,
         \/ Covered'
         \/ tagged' = tagged /\ updater'.pc \in {"idle", "backup"}
  PROVE  ReleaseInv'
<1>1. ReleaseTypeOK'
  BY DEF ReleaseInv, ReleaseTypeOK, Captured, BackupsKept
<1>2. HealthyFits'
  BY DEF ReleaseInv, HealthyFits
<1>3. NothingMoves'
  BY DEF ReleaseInv, NothingMoves, Covered, BackupsKept
<1> QED
  BY <1>1, <1>2, <1>3 DEF ReleaseInv

(* The steps of update.sh. *)
LEMMA UpdaterStep ==
  ASSUME ReleaseInv,
         \/ CaptureRollbackState \/ RunBackup \/ SkipBackup \/ BackupFails \/ FetchSource
         \/ PullImages \/ PullFails \/ BringUp \/ WaitForHealth \/ DecideRollback
         \/ Rollback \/ RestartPrevious \/ UpdateKilled
  PROVE  ReleaseInv'
<1>a. Captured
  BY DEF ReleaseInv, ReleaseTypeOK, Captured
<1>b. /\ published.source \in 1..MaxRelease /\ published.image \in 1..MaxRelease
      /\ checkout \in 1..MaxRelease /\ tagged \in 1..MaxRelease
      /\ schema \in Nat \ {0}
  BY DEF ReleaseInv, ReleaseTypeOK
<1>c. updater.pc # "idle" => updater.sha \in 1..MaxRelease
  BY <1>a, ReleaseAssumption DEF Captured, Updater
<1>d. updater.pc \notin {"idle", "backup"} => Covered
  BY DEF ReleaseInv, NothingMoves
<1>e. UNCHANGED <<backups, waived>> => BackupsKept
  BY DEF ReleaseInv, ReleaseTypeOK, BackupsKept, backups
<1>f. UNCHANGED <<backups, waived, begun>> => Covered' = Covered
  BY DEF Covered, backups
<1>1. CASE CaptureRollbackState
  <2>1. /\ updater'.pc = "backup" /\ updater'.sha = checkout
        /\ UNCHANGED <<published, checkout, tagged, api, schema, backups>>
    BY <1>1 DEF CaptureRollbackState
  <2>2. Captured'
    <3>1. Unread \in Nat /\ NoImage = 0 /\ MaxRelease \in Nat
      BY ReleaseAssumption DEF Unread, NoImage
    <3>2. PICK count \in {schema, Unread}, image \in {tagged, NoImage} :
            updater' = [pc |-> "backup", sha |-> checkout, image |-> image, count |-> count]
      BY <1>1 DEF CaptureRollbackState
    <3> QED
      BY <1>b, <3>1, <3>2 DEF Captured, Updater
  <2>3. CASE api = [release |-> tagged, healthy |-> TRUE]
    <3>1. api.healthy /\ api.release = tagged /\ begun' = schema /\ waived' = FALSE
      BY <1>1, <2>3 DEF CaptureRollbackState
    <3>2. schema = SchemaAt[tagged]
      BY <3>1 DEF ReleaseInv, HealthyFits
    <3>3. ReleaseTypeOK'
      BY <1>b, <2>1, <2>2, <3>1 DEF ReleaseInv, ReleaseTypeOK, Captured, backups
    <3>4. HealthyFits'
      BY <2>1 DEF ReleaseInv, HealthyFits
    <3>5. NothingMoves'
      BY <1>b, <2>1, <3>1, <3>2 DEF NothingMoves
    <3> QED
      BY <3>3, <3>4, <3>5 DEF ReleaseInv
  <2>4. CASE api # [release |-> tagged, healthy |-> TRUE]
    <3>1. UNCHANGED <<begun, waived>>
      BY <1>1, <2>4 DEF CaptureRollbackState
    <3> QED
      BY <1>b, <1>e, <2>1, <2>2, <3>1, Kept
  <2> QED
    BY <2>3, <2>4
<1>2. CASE RunBackup
  <2>1. Captured' /\ updater'.pc = "fetch"
    BY <1>2, <1>a, UpdaterMoves DEF RunBackup, UpdaterSteps, Goto, Captured, Updater
  <2>2. begun = schema \/ Covered
    BY DEF ReleaseInv, NothingMoves
  <2>3. Dump /\ UNCHANGED <<published, checkout, tagged, api, schema, waived, begun>>
    BY <1>2 DEF RunBackup
  <2>4. BackupsKept /\ schema \in dumps'
    BY <2>3, DumpStep
  <2>5. Covered'
    BY <2>2, <2>3, <2>4 DEF Covered, BackupsKept
  <2> QED
    BY <1>b, <2>1, <2>3, <2>4, <2>5, Kept
<1>10. CASE SkipBackup
  <2>1. Captured'
    BY <1>10, <1>a, UpdaterMoves DEF SkipBackup, UpdaterSteps
  <2>2. waived' /\ UNCHANGED <<published, checkout, tagged, api, schema, backups, begun>>
    BY <1>10 DEF SkipBackup
  <2>3. BackupsKept /\ Covered'
    BY <2>2, <1>10 DEF SkipBackup, ReleaseInv, ReleaseTypeOK, BackupsKept, backups, Covered
  <2> QED
    BY <1>b, <2>1, <2>2, <2>3, Kept
<1>3. CASE BackupFails \/ UpdateKilled
  <2>1. Captured' /\ updater'.pc = "idle"
    BY <1>3, <1>a, UpdaterMoves DEF BackupFails, UpdateKilled, Exit, NoUpdate
  <2>2. UNCHANGED <<published, checkout, tagged, api, schema, backups, waived, begun>>
    BY <1>3 DEF BackupFails, UpdateKilled
  <2> QED
    BY <1>b, <1>e, <2>1, <2>2, Kept
<1>4. CASE FetchSource
  <2>1. /\ updater.pc = "fetch" /\ (Goto("pull") \/ Exit)
        /\ checkout' \in {checkout, published.source}
    BY <1>4 DEF FetchSource
  <2>2. UNCHANGED <<published, tagged, api, schema, backups, waived, begun>>
    BY <1>4 DEF FetchSource
  <2> QED
    BY <1>a, <1>b, <1>d, <1>e, <1>f, <2>1, <2>2, UpdaterMoves, Kept DEF UpdaterSteps
<1>5. CASE PullImages
  <2>1. updater.pc = "pull" /\ Goto("up") /\ tagged' = published.image
    BY <1>5 DEF PullImages
  <2>2. UNCHANGED <<published, checkout, api, schema, backups, waived, begun>>
    BY <1>5 DEF PullImages
  <2> QED
    BY <1>a, <1>b, <1>d, <1>e, <1>f, <2>1, <2>2, UpdaterMoves, Kept DEF UpdaterSteps
<1>6. CASE PullFails
  <2>1. /\ updater.pc = "pull" /\ Exit
        /\ tagged' \in {tagged, published.image} /\ checkout' = updater.sha
    BY <1>6 DEF PullFails
  <2>2. UNCHANGED <<published, api, schema, backups, waived, begun>>
    BY <1>6 DEF PullFails
  <2> QED
    BY <1>a, <1>b, <1>c, <1>d, <1>e, <1>f, <2>1, <2>2, UpdaterMoves, Kept DEF UpdaterSteps
<1>7. CASE BringUp \/ RestartPrevious
  <2>1. /\ api' \in [release : 1..MaxRelease, healthy : BOOLEAN]
        /\ api'.healthy => schema = SchemaAt[api'.release]
    BY <1>7, ComposeUpStep DEF BringUp, RestartPrevious
  <2>2. updater.pc \in {"up", "restart"} /\ (Goto("waiting") \/ Exit)
    BY <1>7 DEF BringUp, RestartPrevious
  <2>3. UNCHANGED <<published, checkout, tagged, schema, backups, waived, begun>>
    BY <1>7 DEF BringUp, RestartPrevious
  <2>4. Captured'
    BY <1>a, <2>2, UpdaterMoves DEF UpdaterSteps
  <2>5. ReleaseTypeOK'
    BY <2>1, <2>3, <2>4 DEF ReleaseInv, ReleaseTypeOK, Captured, backups
  <2>6. HealthyFits'
    BY <2>1, <2>3 DEF HealthyFits
  <2>7. NothingMoves'
    BY <1>d, <1>f, <2>2, <2>3 DEF NothingMoves
  <2> QED
    BY <2>5, <2>6, <2>7 DEF ReleaseInv
<1>8. CASE WaitForHealth \/ DecideRollback
  <2>1. updater.pc \in {"waiting", "failed"}
    BY <1>8 DEF WaitForHealth, DecideRollback
  <2>2. Exit \/ Goto("failed") \/ Goto("rollback")
    BY <1>8 DEF WaitForHealth, DecideRollback
  <2>3. UNCHANGED <<published, checkout, tagged, api, schema, backups, waived, begun>>
    BY <1>8 DEF WaitForHealth, DecideRollback
  <2>4. Captured'
    BY <1>a, <2>1, <2>2, UpdaterMoves DEF UpdaterSteps
  <2> QED
    BY <1>b, <1>d, <1>e, <1>f, <2>1, <2>3, <2>4, Kept
<1>9. CASE Rollback
  <2>1. updater.pc = "rollback" /\ Goto("restart")
    BY <1>9 DEF Rollback
  <2>2. /\ checkout' = updater.sha /\ tagged' \in 1..MaxRelease
        /\ UNCHANGED <<published, api, schema, backups, waived, begun>>
    <3>1. updater.image \in 0..MaxRelease
      BY <1>a DEF Captured, Updater
    <3> QED
      BY <1>9, <1>b, <3>1, ReleaseAssumption DEF Rollback, NoImage
  <2> QED
    BY <1>a, <1>b, <1>c, <1>d, <1>e, <1>f, <2>1, <2>2, UpdaterMoves, Kept DEF UpdaterSteps
<1> QED
  BY <1>1, <1>2, <1>3, <1>4, <1>5, <1>6, <1>7, <1>8, <1>9, <1>10

(* The releases, the api's container, and what happens beside the script. *)
LEMMA ContainerStep ==
  ASSUME ReleaseInv,
         \/ PublishSource \/ PublishImage \/ Migrate \/ BecomeHealthy \/ ApiCrashes
         \/ HostRestarts \/ ApplyTunnel \/ NightlyBackup
         \/ \E dump \in dumps : DumpAges(dump) \/ Restore(dump)
  PROVE  ReleaseInv'
<1> USE ReleaseAssumption DEF ReleaseInv, ReleaseTypeOK, HealthyFits, NothingMoves
<1> USE DEF Covered, Updater, NoUpdate, Exit, backups
<1>1. CASE PublishSource
  <2>1. UNCHANGED <<checkout, tagged, api, schema, backups, waived, updater, begun>>
    BY <1>1 DEF PublishSource
  <2>2. published.source + 1 \in 1..MaxRelease
    <3>1. published.source \in 1..MaxRelease /\ published.source < MaxRelease
      BY <1>1 DEF PublishSource
    <3> QED
      BY <3>1
  <2>3. published' = [published EXCEPT !.source = published.source + 1]
    BY <1>1 DEF PublishSource
  <2>4. published' \in [source : 1..MaxRelease, image : 1..MaxRelease]
    <3> HIDE DEF Updater, NoUpdate, HealthyFits, NothingMoves
    <3>1. published \in [source : 1..MaxRelease, image : 1..MaxRelease]
      OBVIOUS
    <3> QED
      BY <2>2, <2>3, <3>1
  <2> QED
    BY <2>1, <2>4
<1>2. CASE PublishImage
  BY <1>2 DEF PublishImage
<1>3. CASE Migrate
  BY <1>3 DEF Migrate
<1>4. CASE BecomeHealthy
  BY <1>4 DEF BecomeHealthy
<1>5. CASE ApiCrashes
  BY <1>5 DEF ApiCrashes
<1>6. CASE HostRestarts
  BY <1>6 DEF HostRestarts
<1>7. CASE ApplyTunnel
  BY <1>7, ComposeUpStep DEF ApplyTunnel
<1>8. ASSUME NEW dump \in dumps, Restore(dump) PROVE ReleaseInv'
  BY <1>8 DEF Restore
<1>9. ASSUME NEW dump \in dumps, DumpAges(dump) PROVE ReleaseInv'
  BY <1>9 DEF DumpAges
<1>10. CASE NightlyBackup
  BY <1>10, DumpStep DEF NightlyBackup, BackupsKept
<1> QED
  BY <1>1, <1>2, <1>3, <1>4, <1>5, <1>6, <1>7, <1>8, <1>9, <1>10

LEMMA ReleaseInvStep == ReleaseInv /\ [ReleaseNext]_releaseVars => ReleaseInv'
<1> SUFFICES ASSUME ReleaseInv, [ReleaseNext]_releaseVars PROVE ReleaseInv'
  OBVIOUS
<1>1. CASE ReleaseNext
  BY <1>1, UpdaterStep, ContainerStep DEF ReleaseNext
<1>2. CASE UNCHANGED releaseVars
  BY <1>2 DEF releaseVars, backups, ReleaseInv, ReleaseTypeOK, HealthyFits, NothingMoves, Covered
<1> QED
  BY <1>1, <1>2

(* Whatever the releases, and however often updates fail at any step or the
   host restarts: what the database was when the last update began from a
   working appliance is still there, or has a dump, unless the operator skipped
   it or it was deleted for its age. *)
THEOREM RestorePointAlways == ReleaseSpec => []RestorePoint
<1>1. ReleaseInv => RestorePoint
  BY DEF ReleaseInv, NothingMoves, Covered, RestorePoint
<1> QED
  BY <1>1, ReleaseInvInit, ReleaseInvStep, PTL DEF ReleaseSpec

-----------------------------------------------------------------------------
(* The components together.  In a behaviour of one of them the others do not
   move, so that each brings its own invariant. *)

PeopleTypes ==
  /\ part = "sessions" => SessionTypeInv
  /\ part = "groups" => AccessTypeInv
  /\ part = "pins" => PinTypeOK
  /\ part = "corrections" => CorrectionTypeInv
  /\ part = "totals" => TotalsInv
  /\ part = "phones" => PhoneInv
  /\ part = "tablet" => TabletInv
  /\ part = "releases" => ReleaseInv

LEMMA PeopleTypesInit == Init => PeopleTypes
<1>1. AccessInit => AccessTypeInv
  BY AccessInvInit, IdsInit DEF AccessTypeInv
<1>2. TotalsInit => TotalsInv
  BY ShiftsFollowInit DEF TotalsInit, TotalsInv
<1> QED
  BY <1>1, <1>2, SessionTypeInit, PinTypeInit, CorrectionTypeInit, PhoneInvInit, TabletInvInit,
     ReleaseInvInit
  DEF Init, PeopleTypes

LEMMA PeopleTypesStep == PeopleTypes /\ [Next]_mcVars => PeopleTypes'
<1> SUFFICES ASSUME PeopleTypes, [Next]_mcVars PROVE PeopleTypes'
  OBVIOUS
<1>1. part' = part
  BY DEF Next, mcVars
<1>2. /\ part = "sessions" => [SessionNext]_sessionVars
      /\ part = "groups" => [AccessNext]_accessVars
      /\ part = "pins" => [PinNext]_pinVars
      /\ part = "corrections" => [CorrectionNext]_correctionVars
      /\ part = "totals" => [TotalsNext]_totalsVars
      /\ part = "phones" => [PhoneNext]_phoneVars
      /\ part = "tablet" => [TabletNext]_tabletVars
      /\ part = "releases" => [ReleaseNext]_releaseVars
  BY DEF Next, mcVars
<1> QED
  BY <1>1, <1>2, SessionTypeStep, AccessTypeInvStep, PinTypeStep, CorrectionTypeStep, TotalsInvStep,
     PhoneInvStep, TabletInvStep, ReleaseInvStep
  DEF PeopleTypes

(* Sessions, access, PINs, corrections, totals, phone numbers, the kiosk's
   screen and updates, in any behaviour: their tables have the types of their columns, ids
   are of rows that there are, the successor of a token is of the same sign-in,
   and shifts follow each other. *)
THEOREM PeopleTypeCorrect == Spec => []TypeOK
<1>1. PeopleTypes => TypeOK
  BY SessionTypeGiven, AccessTypeInvGives, CorrectionTypeInvGives, TotalsInvGives
  DEF PeopleTypes, TypeOK, SessionTypeInv, PhoneInv, TabletInv, ReleaseInv
<1> QED
  BY <1>1, PeopleTypesInit, PeopleTypesStep, PTL DEF Spec
=============================================================================
