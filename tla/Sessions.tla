------------------------------ MODULE Sessions ------------------------------
(***************************************************************************)
(* One person's sign-ins: refresh tokens and their rotation, sign-out, a   *)
(* change of password, the switch that turns a sign-in off, and the        *)
(* identity provider's back-channel sign-out, for the tabs of one browser, *)
(* which share localStorage but not what each has read from it.            *)
(*                                                                         *)
(* A request is several steps of the server.  Only a rotation is a         *)
(* transaction with a row lock; whatever revokes many tokens is one        *)
(* UPDATE, which takes its snapshot and then waits for locked rows.        *)
(***************************************************************************)
EXTENDS Integers, Sequences, FiniteSets

CONSTANTS
  Tabs,
  Idp,        \* the identity provider's back channel
  Methods,    \* how the person can sign in
  MaxTokens,  \* bounds of the model: tokens issued,
  MaxCalls    \* and requests under way at a time

VARIABLES
  tokens,   \* refresh_tokens, by id
  signIn,   \* "on", "disabled" (users.disabled_at), "blocked" (every company's switch)
  held,     \* the session each tab has in memory: a token id, or 0
  disk,     \* the session in localStorage
  call      \* the request each caller has under way

sessionVars == <<tokens, signIn, held, disk, call>>

ASSUME SessionsAssumption ==
  /\ Idp \notin Tabs
  /\ Methods \subseteq {"password", "magic_link", "sso"}
  /\ MaxTokens \in Nat /\ MaxCalls \in Nat

SessionCallers == Tabs \cup {Idp}

(* from: the token that began the sign-in.  The access token issued beside
   a refresh token is not kept: it may be refused (401) at any request. *)
Token == [from : Nat, method : {"password", "magic_link", "sso"},
          revoked : BOOLEAN, next : Nat]

(* id: the token that the request is about.  old: the token in the body of
   a sign-out.  snap: what an UPDATE of many tokens has found.  barred: the
   sign-in has been off ever since the request was made. *)
Call == [op : {"none", "login", "refresh", "logout", "change", "backChannel"},
         pc : {"idle", "mint", "rotate", "rotating", "rotated", "granted", "refused",
               "logout", "find", "update", "done"},
         id : Nat, old : Nat, method : {"password", "magic_link", "sso"},
         snap : SUBSET Nat, barred : BOOLEAN]

Idle == [op |-> "none", pc |-> "idle", id |-> 0, old |-> 0, method |-> "password",
         snap |-> {}, barred |-> FALSE]

Live == {i \in DOMAIN tokens : ~tokens[i].revoked}

(* Variables have their types; every id is one of the table, and a
   successor belongs to the same sign-in. *)
SessionTypeOK ==
  /\ tokens \in Seq(Token)
  /\ \A i \in DOMAIN tokens :
       /\ tokens[i].from \in 1..i
       /\ tokens[i].next # 0 =>
            /\ tokens[i].next \in DOMAIN tokens
            /\ tokens[tokens[i].next].from = tokens[i].from
  /\ signIn \in {"on", "disabled", "blocked"}
  /\ held \in [Tabs -> 0..Len(tokens)] /\ disk \in 0..Len(tokens)
  /\ call \in [SessionCallers -> Call]

SessionInit ==
  /\ tokens = <<>> /\ signIn = "on"
  /\ held = [t \in Tabs |-> 0] /\ disk = 0
  /\ call = [c \in SessionCallers |-> Idle]

Goes(c, pc) == call' = [call EXCEPT ![c].pc = pc]

MayCall(c) ==
  /\ call[c] = Idle
  /\ Cardinality({d \in SessionCallers : call[d] # Idle}) < MaxCalls

Begins(c, request) == call' = [call EXCEPT ![c] = request]

Request(op, pc, i) == [Idle EXCEPT !.op = op, !.pc = pc, !.id = i]

Refused(c) == call' = [call EXCEPT ![c] = Request(@.op, "refused", 0)]

(* authStore.set *)
Stores(t, i) == held' = [held EXCEPT ![t] = i] /\ disk' = i

-----------------------------------------------------------------------------
(* Signing in: the credential and the switch are checked, then, some awaits
   later, the tokens are issued. *)

SignInWith(t, m) ==
  /\ held[t] = 0 /\ MayCall(t) /\ signIn = "on"
  /\ Begins(t, [Request("login", "mint", 0) EXCEPT !.method = m])
  /\ UNCHANGED <<tokens, signIn, held, disk>>

IssueTokens(t) ==
  /\ call[t].pc = "mint" /\ Len(tokens) < MaxTokens
  /\ tokens' = Append(tokens, [from |-> Len(tokens) + 1, method |-> call[t].method,
                               revoked |-> FALSE, next |-> 0])
  /\ Begins(t, Request("login", "granted", Len(tokens) + 1))
  /\ UNCHANGED <<signIn, held, disk>>

-----------------------------------------------------------------------------
(* Rotation *)

(* A call of the page is answered 401: the access token has expired, or its
   user is on the revocation list.  The page rotates, once at a time. *)
Refresh(t) ==
  /\ held[t] # 0 /\ MayCall(t)
  /\ Begins(t, [Request("refresh", "rotate", held[t]) EXCEPT !.barred = signIn # "on"])
  /\ UNCHANGED <<tokens, signIn, held, disk>>

Locked(i) == \E c \in Tabs : call[c].pc = "rotating" /\ call[c].id = i

(* Mutant of RotateLock: SELECT without FOR UPDATE. *)
RotateUnlocked(t) ==
  /\ call[t].pc = "rotate"
  /\ IF tokens[call[t].id].revoked THEN Refused(t) ELSE Goes(t, "rotating")
  /\ UNCHANGED <<tokens, signIn, held, disk>>

RotateLock(t) ==
  /\ call[t].pc = "rotate" /\ ~Locked(call[t].id)
  /\ IF tokens[call[t].id].revoked THEN Refused(t) ELSE Goes(t, "rotating")
  /\ UNCHANGED <<tokens, signIn, held, disk>>

(* A sign-in by link becomes a password session at its first rotation; one
   by single sign-on stays one. *)
Rotated(i) ==
  [from |-> tokens[i].from, method |-> IF tokens[i].method = "sso" THEN "sso" ELSE "password",
   revoked |-> FALSE, next |-> 0]

(* Mutant of RotateCommit: replaced_by_id is off by one. *)
RotateCommitAhead(t) ==
  LET i == call[t].id
      n == Len(tokens) + 1
  IN  /\ call[t].pc = "rotating" /\ Len(tokens) < MaxTokens
      /\ tokens' = Append([tokens EXCEPT ![i].revoked = TRUE, ![i].next = n + 1], Rotated(i))
      /\ call' = [call EXCEPT ![t].pc = "rotated", ![t].id = n]
      /\ UNCHANGED <<signIn, held, disk>>

RotateCommit(t) ==
  LET i == call[t].id
      n == Len(tokens) + 1
  IN  /\ call[t].pc = "rotating" /\ Len(tokens) < MaxTokens
      /\ tokens' = Append([tokens EXCEPT ![i].revoked = TRUE, ![i].next = n], Rotated(i))
      /\ call' = [call EXCEPT ![t].pc = "rotated", ![t].id = n]
      /\ UNCHANGED <<signIn, held, disk>>

(* Mutant of CheckUser: the refreshed session is not checked. *)
CheckNobody(t) ==
  /\ call[t].pc = "rotated"
  /\ Goes(t, "granted")
  /\ UNCHANGED <<tokens, signIn, held, disk>>

(* After the commit: a disabled user is not found; one whose sign-in every
   company has switched off loses every session.  A sign-out that was waiting
   for this rotation fails with it. *)
CheckUser(t) ==
  /\ call[t].pc = "rotated"
  /\ \/ signIn = "on" /\ Goes(t, "granted")
     \/ signIn = "disabled" /\ Refused(t)
     \/ signIn = "blocked" /\ Begins(t, Request("refresh", "find", 0))
  /\ UNCHANGED <<tokens, signIn, held, disk>>

-----------------------------------------------------------------------------
(* Revoking many tokens: revokeAllForUser, and the chain of a single
   sign-on session. *)

Matching(c) ==
  IF call[c].op = "logout" THEN {i \in Live : tokens[i].from = tokens[call[c].id].from}
  ELSE Live

FindTokens(c) ==
  /\ call[c].pc = "find"
  /\ call' = [call EXCEPT ![c].pc = "update", ![c].snap = Matching(c)]
  /\ UNCHANGED <<tokens, signIn, held, disk>>

UpdateTokens(c) ==
  /\ call[c].pc = "update" /\ \A i \in call[c].snap : ~Locked(i)
  /\ tokens' = [i \in DOMAIN tokens |->
                  [tokens[i] EXCEPT !.revoked = @ \/ i \in call[c].snap]]
  /\ IF call[c].op = "refresh" THEN Refused(c)
     ELSE call' = [call EXCEPT ![c].pc = "done", ![c].snap = {}]
  /\ UNCHANGED <<signIn, held, disk>>

-----------------------------------------------------------------------------
(* Signing out: the token in the body is the one the page held when the
   button was pressed, even when the call is answered 401 first and is sent
   again after a rotation. *)

SignOutFrom(t) ==
  /\ held[t] # 0 /\ MayCall(t)
  /\ \E pc \in {"logout", "rotate"} :
       Begins(t, [Request("logout", pc, held[t]) EXCEPT
                    !.old = held[t], !.barred = pc = "rotate" /\ signIn # "on"])
  /\ UNCHANGED <<tokens, signIn, held, disk>>

(* revokeRefreshToken, and then, of a single sign-on session, the second
   call, which goes by the token in the store. *)
RevokeOne(t) ==
  /\ call[t].pc = "logout" /\ ~Locked(call[t].old)
  /\ tokens' = [tokens EXCEPT ![call[t].old].revoked = TRUE]
  /\ Goes(t, IF tokens[call[t].id].method = "sso" THEN "find" ELSE "done")
  /\ UNCHANGED <<signIn, held, disk>>

-----------------------------------------------------------------------------
(* A change of password, with the current one or, in a session by link,
   without: the hash is written before the tokens are looked for. *)

ChangePassword(t) ==
  /\ held[t] # 0 /\ MayCall(t) /\ signIn # "disabled"
  /\ Begins(t, Request("change", "find", held[t]))
  /\ UNCHANGED <<tokens, signIn, held, disk>>

-----------------------------------------------------------------------------
(* Answers *)

(* Tokens arrive.  A sign-out that was waiting for a rotation goes on. *)
ReceiveTokens(t) ==
  /\ call[t].pc = "granted"
  /\ Stores(t, call[t].id)
  /\ call' = [call EXCEPT ![t] = IF @.op = "logout" THEN [@ EXCEPT !.pc = "logout"] ELSE Idle]
  /\ UNCHANGED <<tokens, signIn>>

(* A request is through.  One that signs the tab out does so whatever the
   answer; the page that sets a password after a link signs out as well. *)
Leaves(t) ==
  \/ call[t].op \in {"refresh", "logout"}
  \/ /\ call[t].op = "change" /\ call[t].pc = "done"
     /\ tokens[call[t].id].method = "magic_link"

ReceiveAnswer(t) ==
  /\ call[t].pc \in {"refused", "done"}
  /\ IF Leaves(t) THEN Stores(t, 0) ELSE UNCHANGED <<held, disk>>
  /\ call' = [call EXCEPT ![t] = Idle]
  /\ UNCHANGED <<tokens, signIn>>

(* The process dies at any step of a request, or the answer is lost. *)
FailRequest(c) ==
  /\ call[c] # Idle
  /\ IF call[c].op \in {"refresh", "logout"} THEN Stores(c, 0) ELSE UNCHANGED <<held, disk>>
  /\ call' = [call EXCEPT ![c] = Idle]
  /\ UNCHANGED <<tokens, signIn>>

-----------------------------------------------------------------------------
(* The administrator, the identity provider, time, and the browser *)

SwitchOff(how) ==
  /\ signIn = "on" /\ how # "on"
  /\ signIn' = how
  /\ UNCHANGED <<tokens, held, disk, call>>

SwitchOn ==
  /\ signIn # "on" /\ signIn' = "on"
  /\ call' = [c \in SessionCallers |-> [call[c] EXCEPT !.barred = FALSE]]
  /\ UNCHANGED <<tokens, held, disk>>

BackChannelLogout ==
  /\ MayCall(Idp) /\ Live # {}
  /\ Begins(Idp, Request("backChannel", "find", 0))
  /\ UNCHANGED <<tokens, signIn, held, disk>>

(* The user goes on the revocation list of access tokens. *)
ListAsRevoked ==
  /\ call[Idp].pc = "done"
  /\ call' = [call EXCEPT ![Idp] = Idle]
  /\ UNCHANGED <<tokens, signIn, held, disk>>

(* A tab is opened or reloaded: it reads the session from localStorage. *)
OpenTab(t) ==
  /\ call[t] = Idle /\ held[t] # disk
  /\ held' = [held EXCEPT ![t] = disk]
  /\ UNCHANGED <<tokens, signIn, disk, call>>

-----------------------------------------------------------------------------
Serving(c) ==
  \/ IssueTokens(c)
  \/ RotateLock(c)
  \/ RotateCommit(c)
  \/ CheckUser(c)
  \/ FindTokens(c)
  \/ UpdateTokens(c)
  \/ RevokeOne(c)

SessionNext ==
  \/ \E t \in Tabs :
       \/ \E m \in Methods : SignInWith(t, m)
       \/ Refresh(t)
       \/ SignOutFrom(t)
       \/ ChangePassword(t)
       \/ ReceiveTokens(t)
       \/ ReceiveAnswer(t)
       \/ OpenTab(t)
  \/ \E c \in SessionCallers : Serving(c) \/ FailRequest(c)
  \/ \E how \in {"disabled", "blocked"} : SwitchOff(how)
  \/ SwitchOn
  \/ BackChannelLogout
  \/ ListAsRevoked

SessionSpec == SessionInit /\ [][SessionNext]_sessionVars

-----------------------------------------------------------------------------
(* Properties *)

(* A sign-in has one live token at most: of two tabs that rotate the same
   token at once, one is refused. *)
OneLiveToken ==
  \A i, j \in Live : tokens[i].from = tokens[j].from => i = j

(* Nobody is handed tokens by a request that was made after the sign-in was
   switched off, unless it was switched on again in between. *)
SwitchedOffStaysOut == \A t \in Tabs : call[t].pc = "granted" => ~call[t].barred
=============================================================================
