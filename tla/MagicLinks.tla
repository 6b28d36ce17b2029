----------------------------- MODULE MagicLinks -----------------------------
(***************************************************************************)
(* Sign-in links: several accounts share one verified phone number, people *)
(* ask for links to that number at the same time, an administrator sends   *)
(* links too, and a link is opened by several visitors at once.            *)
(*                                                                         *)
(* Asking is a sequence of statements with no transaction.  Opening is one *)
(* transaction, on one connection of the pool, that needs a second         *)
(* connection for the statements that the code does not run in it.         *)
(***************************************************************************)
EXTENDS Integers, Sequences, FiniteSets

CONSTANTS
  Accounts,   \* the accounts on the number
  Visitors,   \* browsers that ask for links and open them
  LinkLimit,  \* RATE_LIMIT_PER_HOUR
  PoolSize,   \* connections of the database pool
  MaxLinks    \* bound of the model

ASSUME MagicLinksAssumption ==
  LinkLimit \in Nat \ {0} /\ PoolSize \in Nat \ {0} /\ MaxLinks \in Nat

VARIABLES
  links,     \* magic_links, by id
  allowed,   \* the accounts that may sign in: not disabled, not switched off
  asking,    \* the accounts that each visitor's request has still to send a link to
  opening    \* the link that each visitor is opening

linkVars == <<links, allowed, asking, opening>>

(* counts: the person asked for it, less than an hour ago; the lifetime of a
   link is shorter than that.  sessions: history, the sessions minted from it. *)
Link == [user : Accounts, counts : BOOLEAN, sessions : Nat,
         state : {"open", "consumed", "expired"}]

NotOpening == [pc |-> "idle", link |-> 0]

(* Variables have their types; a visitor opens a link of the table. *)
LinkTypeOK ==
  /\ links \in Seq(Link)
  /\ allowed \subseteq Accounts
  /\ asking \in [Visitors -> SUBSET Accounts]
  /\ opening \in [Visitors -> [pc : {"idle", "lock", "authorize", "find", "answer"},
                               link : 0..Len(links)]]

LinkInit ==
  /\ links = <<>> /\ allowed = Accounts
  /\ asking = [v \in Visitors |-> {}]
  /\ opening = [v \in Visitors |-> NotOpening]

-----------------------------------------------------------------------------
(* Asking for links: one to every account on the number *)

SelfService == {l \in DOMAIN links : links[l].counts}

(* The recipients, and the links of the last hour, are read; the links are
   inserted later. *)
AskForLinks(v) ==
  /\ asking[v] = {} /\ Cardinality(SelfService) < LinkLimit * Cardinality(allowed)
  /\ asking' = [asking EXCEPT ![v] = allowed]
  /\ UNCHANGED <<links, allowed, opening>>

NewLink(a, counts) == [user |-> a, counts |-> counts, sessions |-> 0, state |-> "open"]

IssueLink(v) ==
  /\ Len(links) < MaxLinks
  /\ \E a \in asking[v] :
       /\ links' = Append(links, NewLink(a, TRUE))
       /\ asking' = [asking EXCEPT ![v] = @ \ {a}]
  /\ UNCHANGED <<allowed, opening>>

(* An error ends the request, after a row was inserted or before; the
   visitor is not told. *)
AskingFails(v) ==
  /\ asking[v] # {}
  /\ asking' = [asking EXCEPT ![v] = {}]
  /\ UNCHANGED <<links, allowed, opening>>

SendAccountLink(a) ==
  /\ a \in allowed /\ Len(links) < MaxLinks
  /\ links' = Append(links, NewLink(a, FALSE))
  /\ UNCHANGED <<allowed, asking, opening>>

-----------------------------------------------------------------------------
(* Opening a link *)

FreeConnections == PoolSize - Cardinality({v \in Visitors : opening[v].pc # "idle"})

Reaches(v, pc) == opening' = [opening EXCEPT ![v] = [pc |-> pc, link |-> opening[v].link]]

(* The transaction rolls back, or has committed, and its connection is free. *)
Releases(v) == opening' = [opening EXCEPT ![v] = NotOpening]

OpenLink(v, l) ==
  /\ opening[v].pc = "idle" /\ FreeConnections > 0
  /\ opening' = [opening EXCEPT ![v] = [pc |-> "lock", link |-> l]]
  /\ UNCHANGED <<links, allowed, asking>>

RowFree(l) ==
  \A v \in Visitors : opening[v].link = l => opening[v].pc \in {"idle", "lock"}

(* Mutant of LockLink: SELECT without FOR UPDATE. *)
ReadLink(v) ==
  /\ opening[v].pc = "lock"
  /\ IF links[opening[v].link].state = "open" THEN Reaches(v, "authorize") ELSE Releases(v)
  /\ UNCHANGED <<links, allowed, asking>>

LockLink(v) ==
  /\ opening[v].pc = "lock" /\ RowFree(opening[v].link)
  /\ IF links[opening[v].link].state = "open" THEN Reaches(v, "authorize") ELSE Releases(v)
  /\ UNCHANGED <<links, allowed, asking>>

(* Without the policy of single sign-on only, nothing is read; with it, the
   realm of the user is, on another connection, and may be refused.  The link
   is marked in the transaction only. *)
AuthorizeLink(v) ==
  /\ opening[v].pc = "authorize"
  /\ \/ Reaches(v, "find")
     \/ FreeConnections > 0 /\ Releases(v)
  /\ UNCHANGED <<links, allowed, asking>>

FindLinkUser(v) ==
  /\ opening[v].pc = "find" /\ FreeConnections > 0
  /\ IF links[opening[v].link].user \in allowed THEN Reaches(v, "answer") ELSE Releases(v)
  /\ UNCHANGED <<links, allowed, asking>>

(* The answer is put together on another connection, and the transaction
   commits. *)
AnswerLink(v) ==
  /\ opening[v].pc = "answer" /\ FreeConnections > 0
  /\ links' = [links EXCEPT ![opening[v].link].state = "consumed",
                             ![opening[v].link].sessions = @ + 1]
  /\ Releases(v)
  /\ UNCHANGED <<allowed, asking>>

(* Mutant of AcquireTimesOut: a connection is waited for without limit. *)
NoTimeOut(v) == FALSE /\ UNCHANGED linkVars

(* No connection became free in time: the transaction rolls back. *)
AcquireTimesOut(v) ==
  /\ opening[v].pc \in {"authorize", "find", "answer"} /\ FreeConnections <= 0
  /\ Releases(v)
  /\ UNCHANGED <<links, allowed, asking>>

OpeningFails(v) ==
  /\ opening[v].pc # "idle"
  /\ Releases(v)
  /\ UNCHANGED <<links, allowed, asking>>

-----------------------------------------------------------------------------
(* Accounts and time *)

SwitchAccount(a) ==
  /\ allowed' = IF a \in allowed THEN allowed \ {a} ELSE allowed \cup {a}
  /\ UNCHANGED <<links, asking, opening>>

(* A link whose time is over is not found open any more; who has its row
   already read it before. *)
ExpireLink(l) ==
  /\ links[l].state = "open" /\ RowFree(l)
  /\ links' = [links EXCEPT ![l].state = "expired"]
  /\ UNCHANGED <<allowed, asking, opening>>

LeavesTheHour(l) ==
  /\ links[l].counts /\ links[l].state # "open"
  /\ links' = [links EXCEPT ![l].counts = FALSE]
  /\ UNCHANGED <<allowed, asking, opening>>

-----------------------------------------------------------------------------
OpenStep(v) ==
  \/ AuthorizeLink(v)
  \/ FindLinkUser(v)
  \/ AnswerLink(v)
  \/ AcquireTimesOut(v)

LinkNext ==
  \/ \E v \in Visitors :
       \/ AskForLinks(v)
       \/ IssueLink(v)
       \/ AskingFails(v)
       \/ \E l \in DOMAIN links : OpenLink(v, l)
       \/ LockLink(v)
       \/ OpenStep(v)
       \/ OpeningFails(v)
  \/ \E a \in Accounts : SendAccountLink(a) \/ SwitchAccount(a)
  \/ \E l \in DOMAIN links : ExpireLink(l) \/ LeavesTheHour(l)

(* Postgres serves the waiters for a row in their order; a transaction that
   has the row goes on, or its wait for a connection times out. *)
LinkFairness ==
  \A v \in Visitors : SF_linkVars(LockLink(v)) /\ WF_linkVars(OpenStep(v))

LinkSpec == LinkInit /\ [][LinkNext]_linkVars /\ LinkFairness

-----------------------------------------------------------------------------
(* Properties *)

(* A link opens one session at most, whoever opens it at the same time, and
   it is used up exactly when it has opened one: an attempt that is refused,
   or fails at any step, leaves it as it was. *)
LinkUsedBySession ==
  \A l \in DOMAIN links : links[l].sessions = IF links[l].state = "consumed" THEN 1 ELSE 0

(* Whoever opens a link gets an answer, even when every connection is held
   by somebody who opens a link. *)
OpeningAnswered ==
  \A v \in Visitors : opening[v].pc # "idle" ~> opening[v].pc = "idle"
=============================================================================
