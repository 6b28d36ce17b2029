---------------------------- MODULE AccessGroups ----------------------------
(***************************************************************************)
(* The access of one user to one company: a direct membership, or what the *)
(* user's access groups grant.  Administrators edit the groups and the     *)
(* membership in transactions that do not wait for each other.             *)
(***************************************************************************)
EXTENDS Integers, FiniteSets, FiniteSetsExt

CONSTANTS
  AccessAdmins,
  AccessGroupIds,
  Roles,   \* ROLE_RANK: the ranks of the roles, from 1 up
  MaxIds   \* bound of the model: memberships inserted

ASSUME AccessGroupsAssumption ==
  Roles \subseteq Nat \ {0} /\ IsFiniteSet(Roles) /\ MaxIds \in Nat

VARIABLES
  granting,    \* the role that each group has for the company; 0: none
  belongs,     \* the groups that the user is in
  membership,  \* the row of the user and the company
  lastId,      \* the id of the last membership inserted
  editing,     \* the transaction of each administrator
  overlapped   \* history: transactions have overlapped, and none run alone since

accessVars == <<granting, belongs, membership, lastId, editing, overlapped>>

Grants == Roles \cup {0}
NoMembership == [id |-> 0, role |-> 0, byGroup |-> FALSE]
Memberships == [id : 0..MaxIds, role : Grants, byGroup : BOOLEAN]

(* kind: setAccessGroupMembers, setAccessGroupCompanies (a group that is deleted
   grants nothing any more) or revokeMembership.  role: what the group is to
   grant, or 0 for who is to leave the group.  alone: history. *)
Changes == {c \in [kind : {"members", "companies", "revoke"}, group : AccessGroupIds, role : Grants] :
              /\ c.kind = "members" => c.role \in {0, Max(Roles)}
              /\ c.kind = "revoke" => c.role = 0 /\ c.group = CHOOSE g \in AccessGroupIds : TRUE}

Edits == [pc : {"desired", "current", "write"}, kind : {"members", "companies", "revoke"},
          group : AccessGroupIds, role : Grants, desired : Grants,
          current : [id : 0..MaxIds, byGroup : BOOLEAN], alone : BOOLEAN]

NotEditing == [pc |-> "idle"]

(* Variables have their types; at most one row exists. *)
AccessTypeOK ==
  /\ granting \in [AccessGroupIds -> Grants] /\ belongs \subseteq AccessGroupIds
  /\ membership \in Memberships /\ lastId \in 0..MaxIds /\ membership.id <= lastId
  /\ \A a \in AccessAdmins : editing[a] = NotEditing \/ editing[a] \in Edits
  /\ overlapped \in BOOLEAN

AccessInit ==
  /\ granting = [g \in AccessGroupIds |-> 0] /\ belongs = {}
  /\ membership = NoMembership /\ lastId = 0
  /\ editing = [a \in AccessAdmins |-> NotEditing] /\ overlapped = FALSE

-----------------------------------------------------------------------------
Editing == {a \in AccessAdmins : editing[a] # NotEditing}

(* The tables with the transaction's own changes *)
MembersSeen(x) ==
  IF x.kind = "members"
  THEN IF x.role = 0 THEN belongs \ {x.group} ELSE belongs \cup {x.group}
  ELSE belongs

GrantsSeen(x) ==
  IF x.kind = "companies" THEN [granting EXCEPT ![x.group] = x.role] ELSE granting

(* desiredGroupAccess: the highest role wins. *)
Desired(grants, groups) == Max({0} \cup {grants[g] : g \in groups})

(* A transaction begins with its own change; one that changes the same rows
   waits for the other. *)
BeginEdit(a, c) ==
  /\ a \notin Editing
  /\ c.kind = "revoke" => membership.id # 0 /\ ~membership.byGroup
  /\ \A b \in Editing : editing[b].kind # c.kind \/ editing[b].group # c.group
  /\ editing' = [b \in AccessAdmins |->
       IF b = a THEN [pc |-> "desired", kind |-> c.kind, group |-> c.group, role |-> c.role,
                      desired |-> 0, current |-> [id |-> 0, byGroup |-> FALSE],
                      alone |-> Editing = {}]
       ELSE IF b \in Editing THEN [editing[b] EXCEPT !.alone = FALSE] ELSE NotEditing]
  /\ UNCHANGED <<granting, belongs, membership, lastId, overlapped>>

Commit(a, row) ==
  /\ belongs' = MembersSeen(editing[a]) /\ granting' = GrantsSeen(editing[a])
  /\ membership' = row
  /\ editing' = [editing EXCEPT ![a] = NotEditing]

(* Mutant of Affected: only who is in the group now. *)
AffectedNow(x) == x.kind = "revoke" \/ x.group \in MembersSeen(x)

(* Whom the transaction reconciles: the members of the group, from before and now. *)
Affected(x) ==
  x.kind = "revoke" \/ x.group \in belongs \/ (x.kind = "members" /\ x.role # 0)

ReadDesired(a) ==
  /\ a \in Editing /\ editing[a].pc = "desired"
  /\ IF Affected(editing[a])
     THEN /\ editing' = [editing EXCEPT ![a].pc = "current", ![a].desired =
                           Desired(GrantsSeen(editing[a]), MembersSeen(editing[a]))]
          /\ UNCHANGED <<granting, belongs, membership, overlapped>>
     ELSE Commit(a, membership) /\ overlapped' = (overlapped \/ ~editing[a].alone)
  /\ UNCHANGED lastId

(* Statements of a revocation no longer see the row that it deleted. *)
Rest(a) ==
  IF editing[a].kind = "revoke" /\ ~membership.byGroup THEN NoMembership ELSE membership

ReadCurrent(a) ==
  /\ a \in Editing /\ editing[a].pc = "current"
  /\ editing' = [editing EXCEPT ![a].pc = "write", ![a].current =
                               [id |-> Rest(a).id, byGroup |-> Rest(a).byGroup]]
  /\ UNCHANGED <<granting, belongs, membership, lastId, overlapped>>

(* Rows are changed by id, and a row can be inserted once only. *)
Reconcile(a) ==
  LET x == editing[a]
      same == Rest(a).id = x.current.id
  IN
  /\ a \in Editing /\ x.pc = "write"
  /\ overlapped' = ~x.alone
  /\ IF x.current.id = 0 /\ x.desired # 0
     THEN /\ same /\ lastId < MaxIds
          /\ lastId' = lastId + 1
          /\ Commit(a, [id |-> lastId + 1, role |-> x.desired, byGroup |-> TRUE])
     ELSE /\ UNCHANGED lastId
          /\ Commit(a, IF ~x.current.byGroup \/ ~same THEN Rest(a)
                       ELSE IF x.desired = 0 THEN NoMembership
                       ELSE [membership EXCEPT !.role = x.desired])

(* Any statement may fail; the insertion of a second row does. *)
EditFails(a) ==
  /\ a \in Editing
  /\ editing' = [editing EXCEPT ![a] = NotEditing]
  /\ UNCHANGED <<granting, belongs, membership, lastId, overlapped>>

(* inviteMembership and updateMembershipRole *)
SetDirect(r) ==
  /\ \/ /\ membership = NoMembership /\ lastId < MaxIds
        /\ membership' = [id |-> lastId + 1, role |-> r, byGroup |-> FALSE]
        /\ lastId' = lastId + 1
     \/ /\ membership.id # 0 /\ ~membership.byGroup
        /\ \A a \in Editing : editing[a].kind # "revoke"
        /\ membership' = [membership EXCEPT !.role = r] /\ UNCHANGED lastId
  /\ UNCHANGED <<granting, belongs, editing, overlapped>>

AccessNext ==
  \/ \E a \in AccessAdmins :
       \/ \E c \in Changes : BeginEdit(a, c)
       \/ ReadDesired(a)
       \/ ReadCurrent(a)
       \/ Reconcile(a)
       \/ EditFails(a)
  \/ \E r \in Roles : SetDirect(r)

AccessSpec == AccessInit /\ [][AccessNext]_accessVars

-----------------------------------------------------------------------------
(* Properties *)

(* Whatever was edited, the user has the direct membership or exactly what the
   user's groups add up to, unless transactions overlapped; one that runs alone
   puts it right again. *)
AccessFollowsGroups ==
  ~overlapped =>
    (membership.id # 0 /\ ~membership.byGroup) \/ membership.role = Desired(granting, belongs)
=============================================================================
