----------------------------- MODULE PhoneCodes -----------------------------
(***************************************************************************)
(* Verified phone numbers: the number on an employee's record of a company,*)
(* which an administrator edits too, and the number on a user's own        *)
(* preferences.  Each is verified with a code that is sent to it.          *)
(***************************************************************************)
EXTENDS Integers

CONSTANTS
  Numbers,     \* phone numbers
  NoNumber,
  MaxAttempts  \* MAX_ATTEMPTS

ASSUME PhoneCodesAssumption == NoNumber \notin Numbers /\ MaxAttempts \in Nat

VARIABLES
  phone,      \* employees.phone and users.phone
  verified,   \* whose phone_verified_at is set
  challenge,  \* the code under way: phone_verifications, and users.phone_verify_*
  edit,       \* the edit of the record, or of the preferences, under way
  request,    \* the user's request for a code under way
  proved      \* history: the numbers whose holder has typed a code sent to them

phoneVars == <<phone, verified, challenge, edit, request, proved>>

Holders == {"employee", "user"}
MaybeNumber == Numbers \cup {NoNumber}

(* number: where the code was sent. *)
Challenge == [number : MaybeNumber, attempts : 0..MaxAttempts, live : BOOLEAN]
NoChallenge == [number |-> NoNumber, attempts |-> 0, live |-> FALSE]
NoEdit == [busy |-> FALSE, saw |-> NoNumber, to |-> NoNumber]

(* Variables have their types. *)
PhoneTypeOK ==
  /\ phone \in [Holders -> MaybeNumber]
  /\ verified \subseteq Holders
  /\ challenge \in [Holders -> Challenge]
  /\ edit \in [Holders -> [busy : BOOLEAN, saw : MaybeNumber, to : MaybeNumber]]
  /\ request \in MaybeNumber
  /\ proved \subseteq Numbers

PhoneInit ==
  /\ phone = [h \in Holders |-> NoNumber] /\ verified = {}
  /\ challenge = [h \in Holders |-> NoChallenge]
  /\ edit = [h \in Holders |-> NoEdit] /\ request = NoNumber
  /\ proved = {}

Sent(n) == [number |-> n, attempts |-> 0, live |-> TRUE]

-----------------------------------------------------------------------------
(* The employee's record *)

(* One transaction: the number becomes the employee's own, unverified, the
   code before is forgotten, and everything is undone unless the code goes
   out. *)
StartPhoneVerification(n) ==
  /\ phone' = [phone EXCEPT !["employee"] = n]
  /\ verified' = verified \ {"employee"}
  /\ challenge' = [challenge EXCEPT !["employee"] = Sent(n)]
  /\ UNCHANGED <<edit, request, proved>>

(* updateEmployee and setUserPhone read the number, and write it later: the
   verification goes when the new number is not the one that was read. *)
BeginNumberEdit(h, n) ==
  /\ ~edit[h].busy
  /\ edit' = [edit EXCEPT ![h] = [busy |-> TRUE, saw |-> phone[h], to |-> n]]
  /\ UNCHANGED <<phone, verified, challenge, request, proved>>

WriteEdit(h) ==
  /\ edit[h].busy
  /\ phone' = [phone EXCEPT ![h] = edit[h].to]
  /\ edit' = [edit EXCEPT ![h] = NoEdit]

WriteEmployeeEdit ==
  /\ WriteEdit("employee")
  /\ verified' = IF edit["employee"].to = edit["employee"].saw THEN verified
                 ELSE verified \ {"employee"}
  /\ UNCHANGED <<challenge, request, proved>>

-----------------------------------------------------------------------------
(* The user's preferences: a new number also forgets the code. *)

WriteUserEdit ==
  /\ WriteEdit("user")
  /\ IF edit["user"].to = edit["user"].saw THEN UNCHANGED <<verified, challenge>>
     ELSE /\ verified' = verified \ {"user"}
          /\ challenge' = [challenge EXCEPT !["user"] = NoChallenge]
  /\ UNCHANGED <<request, proved>>

(* The number is read, the code is hashed and its hash written, and the code
   is sent to the number that was read. *)
RequestUserCode ==
  /\ request = NoNumber
  /\ request' = phone["user"]
  /\ UNCHANGED <<phone, verified, challenge, edit, proved>>

WriteUserCode ==
  /\ request # NoNumber
  /\ challenge' = [challenge EXCEPT !["user"] = Sent(request)]
  /\ request' = NoNumber
  /\ UNCHANGED <<phone, verified, edit, proved>>

-----------------------------------------------------------------------------
(* Typing a code *)

CanConfirm(h) == challenge[h].live /\ challenge[h].attempts < MaxAttempts

(* The right code verifies the number that the holder has by now. *)
ConfirmCode(h) ==
  /\ CanConfirm(h)
  /\ verified' = verified \cup {h}
  /\ proved' = proved \cup {challenge[h].number}
  /\ challenge' = [challenge EXCEPT ![h] = NoChallenge]
  /\ UNCHANGED <<phone, edit, request>>

(* A wrong one is counted in the transaction that it then undoes. *)
ConfirmWrongCode(h) == CanConfirm(h) /\ UNCHANGED phoneVars

CodeExpires(h) ==
  /\ challenge[h].live
  /\ challenge' = [challenge EXCEPT ![h] = NoChallenge]
  /\ UNCHANGED <<phone, verified, edit, request, proved>>

-----------------------------------------------------------------------------
PhoneNext ==
  \/ \E n \in Numbers : StartPhoneVerification(n)
  \/ \E h \in Holders, n \in MaybeNumber : BeginNumberEdit(h, n)
  \/ WriteEmployeeEdit
  \/ WriteUserEdit
  \/ RequestUserCode
  \/ WriteUserCode
  \/ \E h \in Holders : ConfirmCode(h) \/ ConfirmWrongCode(h) \/ CodeExpires(h)

PhoneSpec == PhoneInit /\ [][PhoneNext]_phoneVars

-----------------------------------------------------------------------------
(* Properties *)

(* Changing the number on the record invalidates any verification: the number
   counts as verified only if somebody has typed a code that was sent to it. *)
VerifiedNumberWasProved ==
  "employee" \in verified => phone["employee"] \in proved \cup {NoNumber}
=============================================================================
