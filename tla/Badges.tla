------------------------------- MODULE Badges -------------------------------
(***************************************************************************)
(* Badges: cards with a version, issued one by one or a sheet at a time in *)
(* one transaction that locks the employees' rows in the order of its      *)
(* list.  What a transaction has written is seen when it commits.          *)
(***************************************************************************)
EXTENDS Integers, Sequences

CONSTANTS
  Bearers,     \* the employees with badges
  Printers,    \* administrators who issue badges
  Sheets,      \* the lists of employees that are printed: sequences, nobody twice
               \* (the page sees to that; bulkIssueBadges does not look)
  MaxVersion   \* bound of the model: no sheet is begun beyond it

ASSUME BadgesAssumption ==
  /\ MaxVersion \in Nat
  /\ \A sheet \in Sheets :
       /\ sheet \in Seq(Bearers) /\ sheet # <<>>
       /\ \A i, j \in DOMAIN sheet : sheet[i] = sheet[j] => i = j

VARIABLES
  badge,      \* the badge columns of each employee
  employed,   \* the employees whose status is active
  print       \* the job of each printer: what is left of its list, who is left out,
              \* and the cards it has issued

badgeVars == <<badge, employed, print>>

Card == [who : Bearers, version : Nat]
NoPrint == [left |-> <<>>, out |-> {}, cards |-> {}]

(* Variables have their types; a card is of a row that the job holds. *)
BadgeTypeOK ==
  /\ badge \in [Bearers -> [version : Nat, revoked : BOOLEAN]]
  /\ employed \subseteq Bearers
  /\ \A p \in Printers :
       /\ print[p].left \in Seq(Bearers) /\ print[p].out \subseteq Bearers
       /\ \A c \in print[p].cards : c \in Card

BadgeInit ==
  /\ badge = [e \in Bearers |-> [version |-> 0, revoked |-> FALSE]]
  /\ employed = Bearers
  /\ print = [p \in Printers |-> NoPrint]

Holds(p, e) == \E c \in print[p].cards : c.who = e
RowHeld(e) == \E p \in Printers : Holds(p, e)

-----------------------------------------------------------------------------
(* bulkIssueBadges leaves out whoever is not there or not active when it
   reads them. *)
PrintSheet(p, sheet) ==
  /\ print[p] = NoPrint /\ \A e \in Bearers : badge[e].version < MaxVersion
  /\ print' = [print EXCEPT ![p] = [left |-> sheet, out |-> Bearers \ employed, cards |-> {}]]
  /\ UNCHANGED <<badge, employed>>

SkipNext(p) ==
  /\ print[p].left # <<>> /\ Head(print[p].left) \in print[p].out
  /\ print' = [print EXCEPT ![p] = [left |-> Tail(print[p].left), out |-> print[p].out,
                                    cards |-> print[p].cards]]
  /\ UNCHANGED <<badge, employed>>

(* The job after the next employee of its list: an employee who has been
   terminated since undoes the whole sheet. *)
AfterNext(p) ==
  LET e == Head(print[p].left) IN
  IF e \in employed
  THEN [left |-> Tail(print[p].left), out |-> print[p].out,
        cards |-> print[p].cards \cup {[who |-> e, version |-> badge[e].version + 1]}]
  ELSE NoPrint

(* Mutant of IssueNext: SELECT without FOR UPDATE. *)
IssueNextUnlocked(p) ==
  /\ print[p].left # <<>> /\ Head(print[p].left) \notin print[p].out
  /\ print' = [print EXCEPT ![p] = AfterNext(p)]
  /\ UNCHANGED <<badge, employed>>

(* The row is locked, and read again. *)
IssueNext(p) ==
  /\ print[p].left # <<>> /\ Head(print[p].left) \notin print[p].out
  /\ \A q \in Printers \ {p} : ~Holds(q, Head(print[p].left))
  /\ print' = [print EXCEPT ![p] = AfterNext(p)]
  /\ UNCHANGED <<badge, employed>>

CommitSheet(p) ==
  /\ print[p].left = <<>> /\ print[p] # NoPrint
  /\ badge' = [e \in Bearers |->
       IF Holds(p, e)
       THEN [version |-> (CHOOSE c \in print[p].cards : c.who = e).version, revoked |-> FALSE]
       ELSE badge[e]]
  /\ print' = [print EXCEPT ![p] = NoPrint]
  /\ UNCHANGED employed

WaitsFor(p, q) ==
  /\ print[p].left # <<>> /\ Head(print[p].left) \notin print[p].out
  /\ p # q /\ Holds(q, Head(print[p].left))

(* Postgres ends one of two transactions that wait for each other. *)
DeadlockAborts(p, q) ==
  /\ WaitsFor(p, q) /\ WaitsFor(q, p)
  /\ print' = [print EXCEPT ![p] = NoPrint]
  /\ UNCHANGED <<badge, employed>>

PrintFails(p) ==
  /\ print[p] # NoPrint
  /\ print' = [print EXCEPT ![p] = NoPrint]
  /\ UNCHANGED <<badge, employed>>

-----------------------------------------------------------------------------
RevokeBadge(e) ==
  /\ badge[e].version > 0 /\ ~badge[e].revoked /\ ~RowHeld(e)
  /\ badge' = [badge EXCEPT ![e].revoked = TRUE]
  /\ UNCHANGED <<employed, print>>

SetStatus(e) ==
  /\ ~RowHeld(e)
  /\ employed' = IF e \in employed THEN employed \ {e} ELSE employed \cup {e}
  /\ UNCHANGED <<badge, print>>

-----------------------------------------------------------------------------
BadgeNext ==
  \/ \E p \in Printers :
       \/ \E sheet \in Sheets : PrintSheet(p, sheet)
       \/ SkipNext(p)
       \/ IssueNext(p)
       \/ CommitSheet(p)
       \/ \E q \in Printers : DeadlockAborts(p, q)
       \/ PrintFails(p)
  \/ \E e \in Bearers : RevokeBadge(e) \/ SetStatus(e)

BadgeSpec == BadgeInit /\ [][BadgeNext]_badgeVars

-----------------------------------------------------------------------------
(* Properties *)

(* A card that is being printed is the successor of the employee's badge of
   that moment, so when its sheet is done it is the one that is valid: two
   sheets never carry the same version. *)
CardsAreNew ==
  \A p \in Printers : \A c \in print[p].cards : c.version = badge[c.who].version + 1
=============================================================================
