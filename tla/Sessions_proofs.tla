-------------------------- MODULE Sessions_proofs ---------------------------
(***************************************************************************)
(* A sign-in has one live token, for any number of tabs, tokens and        *)
(* requests.  The invariant behind it: the token that a rotation has       *)
(* locked is live and locked by nobody else, since everything that revokes *)
(* a token waits for its row.                                              *)
(*                                                                         *)
(* A link opens one session, for any number of accounts, visitors and      *)
(* connections.  The invariant behind it: the row of a link has one holder *)
(* at a time, and a held link is open, because time and other visitors     *)
(* have to wait for the row.                                               *)
(*                                                                         *)
(* A pairing code pairs one device, for any number of screens and codes.   *)
(* The invariant behind it: a code that is being used is open, one screen  *)
(* uses it, and the code of a device is over.                              *)
(*                                                                         *)
(* Bad PINs are bounded, for any limit and any finite number of screens.   *)
(* The invariant behind it: without a lockout the count of failures is     *)
(* that of the tries; with one, the tries there were and the bad PINs that *)
(* are still being compared fit the bound together.                        *)
(*                                                                         *)
(* A tablet that has gone home has nothing of the last person left.        *)
(***************************************************************************)
EXTENDS Sessions, MagicLinks, Kiosk, KioskScreen, SequenceTheorems,
        FiniteSetTheorems, TLAPS

-----------------------------------------------------------------------------
(* Refresh tokens *)

(* Tokens of one sign-in carry the id of its first, and ids grow. *)
TokensOK ==
  /\ tokens \in Seq(Token)
  /\ \A i \in DOMAIN tokens : tokens[i].from \in 1..i

(* A request that will look at a token has the id of one. *)
NamesOld(r) ==
  \/ r.pc = "logout"
  \/ r.op = "logout" /\ r.pc \in {"rotate", "rotating", "rotated", "granted"}

CallOK(r) ==
  /\ r \in Call
  /\ r.id \in 0..Len(tokens)
  /\ r.pc \in {"rotate", "rotating"} => r.id # 0
  /\ NamesOld(r) => r.old \in 1..Len(tokens)

CallsOK ==
  /\ held \in [Tabs -> 0..Len(tokens)] /\ disk \in 0..Len(tokens)
  /\ call \in [SessionCallers -> Call]
  /\ \A c \in SessionCallers : CallOK(call[c])

Rotates(c) == call[c].pc = "rotating"

OnlyTabsRotate == call[Idp].pc \notin {"rotate", "rotating"}

LockedIsLive == \A t \in Tabs : Rotates(t) => ~tokens[call[t].id].revoked

OneRotation == \A t, u \in Tabs : Rotates(t) /\ Rotates(u) /\ call[t].id = call[u].id => t = u

SessionInv ==
  TokensOK /\ CallsOK /\ OnlyTabsRotate /\ LockedIsLive /\ OneRotation /\ OneLiveToken

LEMMA SessionInvInit == SessionInit => SessionInv
<1> SUFFICES ASSUME SessionInit PROVE SessionInv
  OBVIOUS
<1>1. tokens = <<>> /\ Len(tokens) = 0 /\ DOMAIN tokens = {} /\ tokens \in Seq(Token)
  BY DEF SessionInit
<1>2. Idle \in Call /\ Idle.pc = "idle" /\ Idle.op = "none" /\ Idle.id = 0
  BY DEF Idle, Call
<1> HIDE DEF Idle
<1>3. CallsOK /\ OnlyTabsRotate /\ LockedIsLive /\ OneRotation
  BY <1>1, <1>2
  DEF SessionInit, CallsOK, CallOK, NamesOld, OnlyTabsRotate, LockedIsLive, OneRotation, Rotates,
      SessionCallers
<1> QED
  BY <1>1, <1>3 DEF SessionInv, TokensOK, OneLiveToken, Live

(* Steps of one caller that leave the tokens alone: it locks a token only if
   that is live and not locked. *)
LEMMA CallMoved ==
  ASSUME SessionInv, NEW c \in SessionCallers, NEW r, CallOK(r),
         call' = [call EXCEPT ![c] = r],
         held' \in [Tabs -> 0..Len(tokens)], disk' \in 0..Len(tokens), UNCHANGED tokens,
         c = Idp => r.pc \notin {"rotate", "rotating"},
         r.pc = "rotating" => ~tokens[r.id].revoked /\ ~Locked(r.id)
  PROVE  SessionInv'
<1>1. call \in [SessionCallers -> Call] /\ r \in Call /\ Tabs \subseteq SessionCallers
      /\ Idp \in SessionCallers /\ Idp \notin Tabs
  BY SessionsAssumption DEF SessionInv, CallsOK, CallOK, SessionCallers
<1>2. /\ call' \in [SessionCallers -> Call]
      /\ \A d \in SessionCallers : call'[d] = IF d = c THEN r ELSE call[d]
  BY <1>1
<1>3. CallsOK'
  BY <1>2 DEF SessionInv, CallsOK, CallOK, NamesOld
<1>4. OnlyTabsRotate'
  BY <1>1, <1>2 DEF SessionInv, OnlyTabsRotate
<1>5. LockedIsLive' /\ OneRotation'
  BY <1>1, <1>2 DEF SessionInv, LockedIsLive, OneRotation, Rotates, Locked
<1> QED
  BY <1>3, <1>4, <1>5 DEF SessionInv, TokensOK, OneLiveToken, Live

(* A table in which some tokens have been revoked, none of them locked. *)
LEMMA TokensRevoked ==
  ASSUME SessionInv, NEW gone \in SUBSET Nat, \A i \in gone : ~Locked(i),
         tokens' \in Seq(Token), Len(tokens') = Len(tokens),
         \A i \in 1..Len(tokens) :
           /\ tokens'[i].from = tokens[i].from
           /\ i \in gone => tokens'[i].revoked
           /\ i \notin gone => tokens'[i].revoked = tokens[i].revoked,
         NEW c \in SessionCallers, NEW r, CallOK(r), call' = [call EXCEPT ![c] = r],
         r.pc \notin {"rotate", "rotating"}, UNCHANGED <<held, disk>>
  PROVE  SessionInv'
<1>1. /\ call \in [SessionCallers -> Call] /\ Tabs \subseteq SessionCallers
      /\ Idp \in SessionCallers /\ Idp \notin Tabs
      /\ DOMAIN tokens = 1..Len(tokens) /\ DOMAIN tokens' = 1..Len(tokens) /\ Len(tokens) \in Nat
  BY SessionsAssumption DEF SessionInv, CallsOK, TokensOK, SessionCallers
<1>2. /\ call' \in [SessionCallers -> Call]
      /\ \A d \in SessionCallers : call'[d] = IF d = c THEN r ELSE call[d]
  BY <1>1 DEF CallOK
<1>3. CallsOK'
  BY <1>2 DEF SessionInv, CallsOK, CallOK, NamesOld
<1>4. OnlyTabsRotate'
  BY <1>1, <1>2 DEF SessionInv, OnlyTabsRotate
<1>5. \A t \in Tabs : Rotates(t)' => Rotates(t) /\ call'[t] = call[t]
  BY <1>1, <1>2 DEF Rotates
<1>6. \A t \in Tabs : Rotates(t) => call[t].id \in 1..Len(tokens) /\ call[t].id \notin gone
  BY <1>1 DEF SessionInv, CallsOK, CallOK, Rotates, Locked, Call
<1>7. LockedIsLive' /\ OneRotation'
  BY <1>5, <1>6 DEF SessionInv, LockedIsLive, OneRotation
<1>8. TokensOK'
  BY <1>1 DEF SessionInv, TokensOK
<1>9. OneLiveToken'
  BY <1>1 DEF SessionInv, OneLiveToken, Live, TokensOK, Token
<1> QED
  BY <1>3, <1>4, <1>7, <1>8, <1>9 DEF SessionInv

-----------------------------------------------------------------------------
(* Records of requests *)

CallOps == {"none", "login", "refresh", "logout", "change", "backChannel"}
Pcs == {"idle", "mint", "rotate", "rotating", "rotated", "granted", "refused", "logout", "find",
        "update", "done"}

LEMMA RequestIsCall ==
  ASSUME NEW op \in CallOps, NEW pc \in Pcs, NEW i \in Nat
  PROVE  /\ Request(op, pc, i) \in Call
         /\ Request(op, pc, i).op = op /\ Request(op, pc, i).pc = pc
         /\ Request(op, pc, i).id = i
  BY DEF Request, Idle, Call, CallOps, Pcs

LEMMA IdleIsCall == Idle \in Call /\ Idle.op = "none" /\ Idle.pc = "idle" /\ Idle.id = 0
  BY DEF Idle, Call

(* A request for which nothing is asked of its ids, but that they are ids. *)
LEMMA PlainRequest ==
  ASSUME SessionInv, NEW op \in CallOps, NEW pc \in Pcs \ {"rotate", "rotating", "logout"},
         NEW i \in 0..Len(tokens),
         op = "logout" => pc \notin {"rotated", "granted"}
  PROVE  CallOK(Request(op, pc, i)) /\ Request(op, pc, i).pc = pc
<1>1. Len(tokens) \in Nat
  BY DEF SessionInv, TokensOK
<1>2. i \in Nat /\ pc \in Pcs
  BY <1>1
<1>3. /\ Request(op, pc, i) \in Call /\ Request(op, pc, i).op = op
      /\ Request(op, pc, i).pc = pc /\ Request(op, pc, i).id = i
  BY <1>2, RequestIsCall
<1> QED
  BY <1>1, <1>3 DEF CallOK, NamesOld

LEMMA IdleOK == ASSUME SessionInv PROVE CallOK(Idle)
<1>1. Len(tokens) \in Nat
  BY DEF SessionInv, TokensOK
<1> QED
  BY <1>1, IdleIsCall DEF CallOK, NamesOld

(* What every step may use. *)
LEMMA SessionFacts ==
  ASSUME SessionInv
  PROVE  /\ tokens \in Seq(Token) /\ Len(tokens) \in Nat /\ DOMAIN tokens = 1..Len(tokens)
         /\ held \in [Tabs -> 0..Len(tokens)] /\ disk \in 0..Len(tokens)
         /\ call \in [SessionCallers -> Call]
         /\ \A c \in SessionCallers : CallOK(call[c])
         /\ Idp \in SessionCallers /\ Idp \notin Tabs
         /\ \A t \in Tabs : t \in SessionCallers /\ t # Idp
  BY SessionsAssumption DEF SessionInv, TokensOK, CallsOK, SessionCallers

(* A request that moves on, to where it may name the same tokens. *)
LEMMA MovesOn ==
  ASSUME SessionInv, NEW c \in SessionCallers, NEW pc \in Pcs, Goes(c, pc),
         pc # "rotate", pc = "logout" => NamesOld(call[c]),
         call[c].op = "logout" /\ pc \in {"rotating", "rotated", "granted"} => NamesOld(call[c]),
         pc = "rotating" =>
           c # Idp /\ call[c].id # 0 /\ ~tokens[call[c].id].revoked /\ ~Locked(call[c].id),
         UNCHANGED <<tokens, held, disk>>
  PROVE  SessionInv'
<1> DEFINE r == [call[c] EXCEPT !.pc = pc]
<1>1. call[c] \in Call /\ CallOK(call[c])
  BY SessionFacts
<1>2. r \in Call /\ r.pc = pc /\ r.op = call[c].op /\ r.id = call[c].id /\ r.old = call[c].old
  BY <1>1 DEF Call, Pcs
<1>3. call' = [call EXCEPT ![c] = r]
  BY SessionFacts DEF Goes
<1> HIDE DEF r
<1>4. CallOK(r)
  BY <1>1, <1>2 DEF CallOK, NamesOld
<1> QED
  BY <1>2, <1>3, <1>4, SessionFacts, CallMoved
(* A token is added, and with it an answer that carries it.  Tokens may have
   been revoked on the way, but none that another request has locked, and
   none of the same sign-in stays live. *)
LEMMA TokenAdded ==
  ASSUME SessionInv, NEW c \in SessionCallers, NEW base \in Seq(Token), NEW new \in Token,
         Len(base) = Len(tokens), tokens' = Append(base, new),
         \A i \in 1..Len(tokens) :
           /\ base[i].from = tokens[i].from
           /\ ~base[i].revoked => ~tokens[i].revoked /\ tokens[i].from # new.from,
         \A t \in Tabs \ {c} : Rotates(t) => ~base[call[t].id].revoked,
         new.from \in 1..(Len(tokens) + 1),
         NEW r \in Call, call' = [call EXCEPT ![c] = r], r.id \in 0..(Len(tokens) + 1),
         r.pc \in {"granted", "rotated"}, NamesOld(r) => r.old \in 1..Len(tokens),
         UNCHANGED <<held, disk>>
  PROVE  SessionInv'
<1> DEFINE n == Len(tokens)
<1>1. /\ n \in Nat /\ DOMAIN tokens = 1..n /\ call \in [SessionCallers -> Call]
      /\ held \in [Tabs -> 0..n] /\ disk \in 0..n
      /\ \A d \in SessionCallers : CallOK(call[d])
      /\ Idp \in SessionCallers /\ \A t \in Tabs : t \in SessionCallers
  BY SessionFacts
<1>2. /\ tokens' \in Seq(Token) /\ Len(tokens') = n + 1 /\ DOMAIN tokens' = 1..(n + 1)
      /\ \A i \in 1..n : tokens'[i] = base[i]
      /\ tokens'[n + 1] = new
  BY <1>1
<1>3. /\ call' \in [SessionCallers -> Call]
      /\ \A d \in SessionCallers : call'[d] = IF d = c THEN r ELSE call[d]
  BY <1>1
<1>4. CallsOK'
  <2>1. \A d \in SessionCallers : CallOK(call[d])'
    BY <1>1, <1>2, <1>3 DEF CallOK, NamesOld
  <2>2. held' \in [Tabs -> 0..(n + 1)] /\ disk' \in 0..(n + 1)
    BY <1>1
  <2> QED
    BY <1>2, <1>3, <2>1, <2>2 DEF CallsOK
<1>5. OnlyTabsRotate'
  BY <1>1, <1>3 DEF SessionInv, OnlyTabsRotate
<1>6. \A t \in Tabs : Rotates(t)' => t # c /\ Rotates(t) /\ call'[t] = call[t]
  BY <1>1, <1>3 DEF Rotates
<1>7. \A t \in Tabs : Rotates(t) => call[t].id \in 1..n
  BY <1>1 DEF CallOK, Rotates, Call
<1>8. LockedIsLive'
  BY <1>2, <1>6, <1>7 DEF LockedIsLive
<1>9. OneRotation'
  BY <1>6 DEF SessionInv, OneRotation
<1>10. TokensOK'
  BY <1>1, <1>2 DEF SessionInv, TokensOK
<1>11. OneLiveToken'
  <2> SUFFICES ASSUME NEW i \in 1..(n + 1), NEW j \in 1..(n + 1),
                      ~tokens'[i].revoked, ~tokens'[j].revoked,
                      tokens'[i].from = tokens'[j].from
               PROVE  i = j
    BY <1>2 DEF OneLiveToken, Live
  <2>1. \A k, l \in 1..n :
          ~tokens[k].revoked /\ ~tokens[l].revoked /\ tokens[k].from = tokens[l].from => k = l
    BY <1>1 DEF SessionInv, OneLiveToken, Live
  <2> QED
    BY <1>1, <1>2, <2>1
<1> QED
  BY <1>4, <1>5, <1>8, <1>9, <1>10, <1>11 DEF SessionInv

-----------------------------------------------------------------------------
(* Each step *)

LEMMA RevokedToken ==
  ASSUME NEW k \in Token, NEW m \in Nat
  PROVE  LET new == [k EXCEPT !.revoked = TRUE, !.next = m]
         IN  new \in Token /\ new.from = k.from /\ new.revoked = TRUE
  BY DEF Token

LEMMA RotatedCall ==
  ASSUME NEW k \in Call, NEW m \in Nat
  PROVE  LET new == [k EXCEPT !.pc = "rotated", !.id = m]
         IN  new \in Call /\ new.pc = "rotated" /\ new.id = m /\ new.op = k.op /\ new.old = k.old
  BY DEF Call

LEMMA IssueStep ==
  ASSUME SessionInv, NEW c \in SessionCallers, IssueTokens(c) PROVE SessionInv'
<1> DEFINE n == Len(tokens)
           new == [from |-> n + 1, method |-> call[c].method, revoked |-> FALSE, next |-> 0]
           r == Request("login", "granted", n + 1)
<1>1. /\ tokens \in Seq(Token) /\ n \in Nat /\ DOMAIN tokens = 1..n /\ call[c] \in Call
      /\ \A t \in Tabs : t \in SessionCallers
  BY SessionFacts
<1>2. new \in Token /\ new.from = n + 1
  BY <1>1 DEF Token, Call
<1>3. /\ r \in Call /\ r.id \in 0..(n + 1) /\ r.pc \in {"granted", "rotated"}
      /\ NamesOld(r) => r.old \in 1..n
  BY <1>1, RequestIsCall DEF CallOps, Pcs, NamesOld
<1>4. /\ tokens' = Append(tokens, new) /\ call' = [call EXCEPT ![c] = r]
      /\ UNCHANGED <<held, disk>>
  BY DEF IssueTokens, Begins
<1>5. /\ \A i \in 1..n :
           /\ tokens[i].from = tokens[i].from
           /\ ~tokens[i].revoked => ~tokens[i].revoked /\ tokens[i].from # new.from
      /\ new.from \in 1..(n + 1)
  <2>1. \A i \in 1..n : tokens[i].from \in 1..i
    BY <1>1 DEF SessionInv, TokensOK
  <2> QED
    BY <1>1, <2>1
<1>6. \A t \in Tabs \ {c} : Rotates(t) => ~tokens[call[t].id].revoked
  BY DEF SessionInv, LockedIsLive
<1> HIDE DEF new, r
<1> QED
  BY <1>1, <1>2, <1>3, <1>4, <1>5, <1>6, TokenAdded

(* The rotated token is revoked and its successor is the live one of its
   sign-in.  It was live, so no other was. *)
LEMMA RotateCommitStep ==
  ASSUME SessionInv, NEW c \in SessionCallers, RotateCommit(c) PROVE SessionInv'
<1> DEFINE n == Len(tokens)
           i == call[c].id
           old == [tokens[i] EXCEPT !.revoked = TRUE, !.next = n + 1]
           base == [tokens EXCEPT ![i] = old]
           new == Rotated(i)
           r == [call[c] EXCEPT !.pc = "rotated", !.id = n + 1]
<1>1. /\ tokens \in Seq(Token) /\ n \in Nat /\ DOMAIN tokens = 1..n /\ call[c] \in Call
      /\ CallOK(call[c]) /\ call \in [SessionCallers -> Call]
  BY SessionFacts
<1>2. c \in Tabs /\ Rotates(c)
  BY DEF RotateCommit, Rotates, SessionInv, OnlyTabsRotate, SessionCallers
<1>3. i \in 1..n /\ ~tokens[i].revoked /\ tokens[i] \in Token
  <2>1. call[c].id \in 0..n /\ call[c].id # 0
    BY <1>1, <1>2 DEF CallOK, Rotates
  <2>2. i \in 1..n
    BY <1>1, <2>1
  <2> QED
    BY <1>1, <1>2, <2>2 DEF SessionInv, LockedIsLive
<1>4. old \in Token /\ old.from = tokens[i].from /\ old.revoked
  <2>1. n + 1 \in Nat
    BY <1>1
  <2> QED
    BY <1>3, <2>1, RevokedToken
<1>5. /\ base \in Seq(Token) /\ Len(base) = n
      /\ \A j \in 1..n : base[j] = IF j = i THEN old ELSE tokens[j]
  <2> HIDE DEF old
  <2> QED
    BY <1>1, <1>3, <1>4, ExceptSeq
<1>6. new \in Token /\ new.from = tokens[i].from
  BY <1>3 DEF Token, Rotated
<1>7. /\ r \in Call /\ r.id \in 0..(n + 1) /\ r.pc \in {"granted", "rotated"}
      /\ NamesOld(r) => r.old \in 1..n
  <2>1. n + 1 \in Nat
    BY <1>1
  <2>2. r \in Call /\ r.pc = "rotated" /\ r.id = n + 1 /\ r.op = call[c].op /\ r.old = call[c].old
    BY <1>1, <2>1, RotatedCall
  <2> HIDE DEF r
  <2> QED
    BY <1>1, <1>2, <2>2 DEF CallOK, NamesOld, Rotates
<1>8. /\ tokens' = Append(base, new) /\ call' = [call EXCEPT ![c] = r]
      /\ UNCHANGED <<held, disk>>
  BY <1>1, <1>3 DEF RotateCommit
<1>9. \A j \in 1..n :
        /\ base[j].from = tokens[j].from
        /\ ~base[j].revoked => ~tokens[j].revoked /\ tokens[j].from # new.from
  <2> HIDE DEF base, old, new
  <2> QED
    BY <1>1, <1>3, <1>4, <1>5, <1>6 DEF SessionInv, OneLiveToken, Live
<1>10. \A t \in Tabs \ {c} : Rotates(t) => ~base[call[t].id].revoked
  <2>1. \A t \in Tabs \ {c} : Rotates(t) =>
          call[t].id \in 1..n /\ call[t].id # i /\ ~tokens[call[t].id].revoked
    BY <1>1, <1>2, SessionFacts DEF SessionInv, LockedIsLive, OneRotation, CallOK, Rotates, Call
  <2> HIDE DEF base, old, i
  <2> QED
    BY <1>5, <2>1
<1>11. new.from \in 1..(n + 1)
  <2> HIDE DEF new
  <2> QED
    BY <1>1, <1>3, <1>6 DEF SessionInv, TokensOK
<1> HIDE DEF base, old, new, r, i
<1> QED
  BY <1>5, <1>6, <1>7, <1>8, <1>9, <1>10, <1>11, TokenAdded
(* A request is refused, or over. *)
LEMMA RefusedStep ==
  ASSUME SessionInv, NEW c \in SessionCallers, Refused(c), UNCHANGED <<tokens, held, disk>>
  PROVE  SessionInv'
<1>1. call[c].op \in CallOps /\ Len(tokens) \in Nat
  BY SessionFacts DEF Call, CallOps
<1>2. CallOK(Request(call[c].op, "refused", 0)) /\ Request(call[c].op, "refused", 0).pc = "refused"
  BY <1>1, PlainRequest DEF Pcs
<1>3. call' = [call EXCEPT ![c] = Request(call[c].op, "refused", 0)]
  BY DEF Refused
<1> QED
  BY <1>2, <1>3, SessionFacts, CallMoved

LEMMA RequestOver ==
  ASSUME SessionInv, NEW c \in SessionCallers, call' = [call EXCEPT ![c] = Idle],
         held' \in [Tabs -> 0..Len(tokens)], disk' \in 0..Len(tokens), UNCHANGED tokens
  PROVE  SessionInv'
<1>1. CallOK(Idle) /\ Idle.pc = "idle"
  BY IdleOK, IdleIsCall
<1> QED
  BY <1>1, CallMoved

(* A request whose ids ask for nothing begins, or begins again. *)
LEMMA PlainBegins ==
  ASSUME SessionInv, NEW c \in SessionCallers,
         NEW op \in CallOps, NEW pc \in Pcs \ {"rotate", "rotating", "logout"},
         NEW i \in 0..Len(tokens),
         op = "logout" => pc \notin {"rotated", "granted"},
         Begins(c, Request(op, pc, i)), UNCHANGED <<tokens, held, disk>>
  PROVE  SessionInv'
<1>1. CallOK(Request(op, pc, i)) /\ Request(op, pc, i).pc = pc
  BY PlainRequest
<1> QED
  BY <1>1, SessionFacts, CallMoved DEF Begins

LEMMA SignInStep ==
  ASSUME SessionInv, NEW t \in Tabs, NEW m \in Methods, SignInWith(t, m) PROVE SessionInv'
<1> DEFINE q == Request("login", "mint", 0)
           r == [q EXCEPT !.method = m]
<1>1. q \in Call /\ q.op = "login" /\ q.pc = "mint" /\ q.id = 0
  BY RequestIsCall DEF CallOps, Pcs
<1>2. r \in Call /\ r.op = "login" /\ r.pc = "mint" /\ r.id = 0
  <2> HIDE DEF q
  <2> QED
    BY <1>1, SessionsAssumption DEF Call
<1>3. call' = [call EXCEPT ![t] = r] /\ UNCHANGED <<tokens, held, disk>>
  BY DEF SignInWith, Begins
<1> HIDE DEF r
<1>4. CallOK(r)
  BY <1>2, SessionFacts DEF CallOK, NamesOld
<1> QED
  BY <1>2, <1>3, <1>4, SessionFacts, CallMoved

(* A rotation begins with the token that the tab holds, and a sign-out names
   it in its body. *)
LEMMA PageStep ==
  ASSUME SessionInv, NEW t \in Tabs, Refresh(t) \/ SignOutFrom(t) PROVE SessionInv'
<1>1. held[t] \in 1..Len(tokens) /\ held[t] \in Nat
  BY SessionFacts DEF Refresh, SignOutFrom
<1>2. CASE Refresh(t)
  <2> DEFINE q == Request("refresh", "rotate", held[t])
             r == [q EXCEPT !.barred = signIn # "on"]
  <2>1. q \in Call /\ q.op = "refresh" /\ q.pc = "rotate" /\ q.id = held[t]
    BY <1>1, RequestIsCall DEF CallOps, Pcs
  <2>2. r \in Call /\ r.op = "refresh" /\ r.pc = "rotate" /\ r.id = held[t]
    <3> HIDE DEF q
    <3> QED
      BY <2>1 DEF Call
  <2>3. call' = [call EXCEPT ![t] = r] /\ UNCHANGED <<tokens, held, disk>>
    BY <1>2 DEF Refresh, Begins
  <2> HIDE DEF r
  <2>4. CallOK(r)
    BY <1>1, <2>2, SessionFacts DEF CallOK, NamesOld
  <2> QED
    BY <2>2, <2>3, <2>4, SessionFacts, CallMoved
<1>3. CASE SignOutFrom(t)
  <2>1. PICK pc \in {"logout", "rotate"} :
          Begins(t, [Request("logout", pc, held[t]) EXCEPT
                       !.old = held[t], !.barred = pc = "rotate" /\ signIn # "on"])
    BY <1>3 DEF SignOutFrom
  <2> DEFINE q == Request("logout", pc, held[t])
             r == [q EXCEPT !.old = held[t], !.barred = pc = "rotate" /\ signIn # "on"]
  <2>2. q \in Call /\ q.op = "logout" /\ q.pc = pc /\ q.id = held[t]
    BY <1>1, RequestIsCall DEF CallOps, Pcs
  <2>3. r \in Call /\ r.op = "logout" /\ r.pc = pc /\ r.id = held[t] /\ r.old = held[t]
    <3> HIDE DEF q
    <3> QED
      BY <1>1, <2>2 DEF Call
  <2>4. call' = [call EXCEPT ![t] = r] /\ UNCHANGED <<tokens, held, disk>>
    BY <1>3, <2>1 DEF SignOutFrom, Begins
  <2> HIDE DEF r
  <2>5. CallOK(r) /\ r.pc # "rotating"
    BY <1>1, <2>3, SessionFacts DEF CallOK, NamesOld
  <2> QED
    BY <2>3, <2>4, <2>5, SessionFacts, CallMoved
<1> QED
  BY <1>2, <1>3

LEMMA RotateLockStep ==
  ASSUME SessionInv, NEW c \in SessionCallers, RotateLock(c) PROVE SessionInv'
<1>1. CASE tokens[call[c].id].revoked
  BY <1>1, RefusedStep DEF RotateLock
<1>2. CASE ~tokens[call[c].id].revoked
  <2>1. c # Idp /\ call[c].id # 0 /\ ~Locked(call[c].id)
    BY SessionFacts DEF RotateLock, SessionInv, OnlyTabsRotate, CallOK
  <2>2. call[c].op = "logout" => NamesOld(call[c])
    BY DEF RotateLock, NamesOld
  <2> QED
    BY <1>2, <2>1, <2>2, MovesOn DEF RotateLock, Pcs
<1> QED
  BY <1>1, <1>2

LEMMA CheckUserStep ==
  ASSUME SessionInv, NEW c \in SessionCallers, CheckUser(c) PROVE SessionInv'
<1>1. UNCHANGED <<tokens, held, disk>> /\ call[c].pc = "rotated"
  BY DEF CheckUser
<1>2. Goes(c, "granted") \/ Refused(c) \/ Begins(c, Request("refresh", "find", 0))
  BY DEF CheckUser
<1>3. CASE Goes(c, "granted")
  BY <1>1, <1>3, MovesOn DEF NamesOld, Pcs
<1>4. CASE Refused(c)
  BY <1>1, <1>4, RefusedStep
<1>5. CASE Begins(c, Request("refresh", "find", 0))
  BY <1>1, <1>5, SessionFacts, PlainBegins DEF CallOps, Pcs
<1> QED
  BY <1>2, <1>3, <1>4, <1>5
(* What an UPDATE of many tokens has found is only remembered. *)
LEMMA FindStep ==
  ASSUME SessionInv, NEW c \in SessionCallers, FindTokens(c) PROVE SessionInv'
<1> DEFINE r == [call[c] EXCEPT !.pc = "update", !.snap = Matching(c)]
<1>1. call[c] \in Call /\ CallOK(call[c])
  BY SessionFacts
<1>2. Matching(c) \subseteq Nat
  BY SessionFacts DEF Matching, Live
<1>3. r \in Call /\ r.pc = "update" /\ r.op = call[c].op /\ r.id = call[c].id
  <2> HIDE DEF Matching
  <2> QED
    BY <1>1, <1>2 DEF Call
<1>4. call' = [call EXCEPT ![c] = r] /\ UNCHANGED <<tokens, held, disk>>
  BY SessionFacts DEF FindTokens
<1> HIDE DEF r
<1>5. CallOK(r)
  BY <1>1, <1>3 DEF CallOK, NamesOld
<1> QED
  BY <1>3, <1>4, <1>5, SessionFacts, CallMoved

(* It waits for the rows that rotations have locked, and then revokes what
   it found, live or not. *)
LEMMA UpdateStep ==
  ASSUME SessionInv, NEW c \in SessionCallers, UpdateTokens(c) PROVE SessionInv'
<1> DEFINE n == Len(tokens)
           gone == call[c].snap
           r == IF call[c].op = "refresh" THEN Request("refresh", "refused", 0)
                ELSE [call[c] EXCEPT !.pc = "done", !.snap = {}]
<1>1. /\ call[c] \in Call /\ CallOK(call[c]) /\ call \in [SessionCallers -> Call]
      /\ tokens \in Seq(Token) /\ n \in Nat /\ DOMAIN tokens = 1..n
  BY SessionFacts
<1>2. gone \in SUBSET Nat /\ \A i \in gone : ~Locked(i)
  BY <1>1 DEF UpdateTokens, Call
<1>3. tokens' = [i \in 1..n |-> [tokens[i] EXCEPT !.revoked = @ \/ i \in gone]]
  BY <1>1 DEF UpdateTokens
<1>4. \A i \in 1..n : tokens[i] \in Token
  BY <1>1
<1>5. \A i \in 1..n :
        /\ tokens'[i] \in Token /\ tokens'[i].from = tokens[i].from
        /\ tokens'[i].revoked = (tokens[i].revoked \/ i \in gone)
  <2> HIDE DEF gone
  <2> QED
    BY <1>3, <1>4 DEF Token
<1>6. tokens' \in Seq(Token) /\ Len(tokens') = n
  <2>1. tokens' \in [1..n -> Token]
    BY <1>3, <1>5
  <2> QED
    BY <1>1, <2>1, SeqDef
<1>7. \A i \in 1..n :
        /\ tokens'[i].from = tokens[i].from
        /\ i \in gone => tokens'[i].revoked
        /\ i \notin gone => tokens'[i].revoked = tokens[i].revoked
  <2> HIDE DEF gone
  <2> QED
    BY <1>4, <1>5 DEF Token
<1>8. r \in Call /\ r.pc \in {"refused", "done"} /\ r.op = call[c].op /\ r.id \in 0..n
  <2>1. CASE call[c].op = "refresh"
    BY <1>1, <2>1, RequestIsCall DEF CallOps, Pcs
  <2>2. CASE call[c].op # "refresh"
    <3> DEFINE q == [call[c] EXCEPT !.pc = "done", !.snap = {}]
    <3>1. q \in Call /\ q.pc = "done" /\ q.op = call[c].op /\ q.id = call[c].id
      BY <1>1 DEF Call
    <3> QED
      BY <1>1, <2>2, <3>1 DEF CallOK
  <2> QED
    BY <2>1, <2>2
<1>9. call' = [call EXCEPT ![c] = r] /\ UNCHANGED <<held, disk>>
  BY <1>1 DEF UpdateTokens, Refused
<1> HIDE DEF r, gone
<1>10. CallOK(r) /\ r.pc \notin {"rotate", "rotating"}
  BY <1>8 DEF CallOK, NamesOld
<1> QED
  BY <1>2, <1>6, <1>7, <1>9, <1>10, TokensRevoked

(* A sign-out revokes the token it was pressed with, when nobody has it. *)
LEMMA RevokeOneStep ==
  ASSUME SessionInv, NEW c \in SessionCallers, RevokeOne(c) PROVE SessionInv'
<1> DEFINE n == Len(tokens)
           i == call[c].old
           old == [tokens[i] EXCEPT !.revoked = TRUE]
           pc == IF tokens[call[c].id].method = "sso" THEN "find" ELSE "done"
           r == [call[c] EXCEPT !.pc = pc]
<1>1. /\ call[c] \in Call /\ CallOK(call[c]) /\ call \in [SessionCallers -> Call]
      /\ tokens \in Seq(Token) /\ n \in Nat /\ DOMAIN tokens = 1..n
  BY SessionFacts
<1>2. i \in 1..n /\ ~Locked(i) /\ tokens[i] \in Token
  BY <1>1 DEF RevokeOne, CallOK, NamesOld
<1>3. old \in Token /\ old.from = tokens[i].from /\ old.revoked = TRUE
  BY <1>2 DEF Token
<1>4. tokens' = [tokens EXCEPT ![i] = old]
  BY <1>1, <1>2 DEF RevokeOne
<1>5. /\ tokens' \in Seq(Token) /\ Len(tokens') = n
      /\ \A k \in 1..n : tokens'[k] = IF k = i THEN old ELSE tokens[k]
  <2> HIDE DEF old, i
  <2> QED
    BY <1>1, <1>2, <1>3, <1>4, ExceptSeq
<1>6. \A k \in 1..n :
        /\ tokens'[k].from = tokens[k].from
        /\ k \in {i} => tokens'[k].revoked
        /\ k \notin {i} => tokens'[k].revoked = tokens[k].revoked
  <2> HIDE DEF old, i
  <2> QED
    BY <1>3, <1>5
<1>7. r \in Call /\ r.pc \in {"find", "done"} /\ r.op = call[c].op /\ r.id = call[c].id
  <2>1. pc \in {"find", "done"}
    OBVIOUS
  <2> HIDE DEF pc
  <2> QED
    BY <1>1, <2>1 DEF Call
<1>8. call' = [call EXCEPT ![c] = r] /\ UNCHANGED <<held, disk>>
  BY <1>1 DEF RevokeOne, Goes
<1> HIDE DEF r, i
<1>9. CallOK(r) /\ r.pc \notin {"rotate", "rotating"}
  BY <1>1, <1>7 DEF CallOK, NamesOld
<1>10. {i} \in SUBSET Nat /\ \A k \in {i} : ~Locked(k)
  BY <1>2
<1> QED
  BY <1>5, <1>6, <1>8, <1>9, <1>10, TokensRevoked

(* The changes of password and the back channel. *)
LEMMA RevokerBegins ==
  ASSUME SessionInv,
         BackChannelLogout \/ \E t \in Tabs : ChangePassword(t)
  PROVE  SessionInv'
<1>1. CASE BackChannelLogout
  BY <1>1, SessionFacts, PlainBegins DEF BackChannelLogout, CallOps, Pcs
<1>2. ASSUME NEW t \in Tabs, ChangePassword(t) PROVE SessionInv'
  <2>1. held[t] \in 0..Len(tokens) /\ t \in SessionCallers
    BY SessionFacts
  <2> QED
    BY <1>2, <2>1, PlainBegins DEF ChangePassword, CallOps, Pcs
<1> QED
  BY <1>1, <1>2

(* Answers, good and bad. *)
LEMMA ReceiveTokensStep ==
  ASSUME SessionInv, NEW t \in Tabs, ReceiveTokens(t) PROVE SessionInv'
<1>1. /\ call[t] \in Call /\ CallOK(call[t]) /\ call[t].id \in 0..Len(tokens)
      /\ call \in [SessionCallers -> Call] /\ t \in SessionCallers /\ t # Idp
      /\ held \in [Tabs -> 0..Len(tokens)]
  BY SessionFacts DEF CallOK
<1>2. held' \in [Tabs -> 0..Len(tokens)] /\ disk' \in 0..Len(tokens) /\ UNCHANGED tokens
  BY <1>1 DEF ReceiveTokens, Stores
<1>3. CASE call[t].op = "logout"
  <2> DEFINE r == [call[t] EXCEPT !.pc = "logout"]
  <2>1. r \in Call /\ r.pc = "logout" /\ r.id = call[t].id /\ r.old = call[t].old
    BY <1>1 DEF Call
  <2>2. call' = [call EXCEPT ![t] = r]
    BY <1>1, <1>3 DEF ReceiveTokens
  <2> HIDE DEF r
  <2>3. CallOK(r)
    BY <1>1, <1>3, <2>1 DEF CallOK, NamesOld, ReceiveTokens
  <2> QED
    BY <1>1, <1>2, <2>1, <2>2, <2>3, CallMoved
<1>4. CASE call[t].op # "logout"
  <2>1. call' = [call EXCEPT ![t] = Idle]
    BY <1>1, <1>4 DEF ReceiveTokens
  <2> QED
    BY <1>1, <1>2, <2>1, RequestOver
<1> QED
  BY <1>3, <1>4

LEMMA AnswerStep ==
  ASSUME SessionInv,
         \/ \E t \in Tabs : ReceiveAnswer(t)
         \/ \E c \in SessionCallers : FailRequest(c)
         \/ ListAsRevoked
  PROVE  SessionInv'
<1>1. /\ held \in [Tabs -> 0..Len(tokens)] /\ disk \in 0..Len(tokens) /\ Len(tokens) \in Nat
      /\ Idp \in SessionCallers /\ \A t \in Tabs : t \in SessionCallers
  BY SessionFacts
<1>2. PICK c \in SessionCallers : call' = [call EXCEPT ![c] = Idle]
  BY <1>1 DEF ReceiveAnswer, FailRequest, ListAsRevoked
<1>3. held' \in [Tabs -> 0..Len(tokens)] /\ disk' \in 0..Len(tokens) /\ UNCHANGED tokens
  BY <1>1 DEF ReceiveAnswer, FailRequest, ListAsRevoked, Stores
<1> QED
  BY <1>2, <1>3, RequestOver

(* Nothing that the tokens depend on. *)
LEMMA OutsideStep ==
  ASSUME SessionInv,
         \/ \E how \in {"disabled", "blocked"} : SwitchOff(how)
         \/ \E t \in Tabs : OpenTab(t)
         \/ UNCHANGED sessionVars
  PROVE  SessionInv'
<1>1. held' \in [Tabs -> 0..Len(tokens)] /\ UNCHANGED <<tokens, disk, call>>
  BY SessionFacts DEF SwitchOff, OpenTab, sessionVars
<1> QED
  BY <1>1
  DEF SessionInv, TokensOK, CallsOK, CallOK, NamesOld, OnlyTabsRotate, LockedIsLive, OneRotation,
      Rotates, OneLiveToken, Live

(* Switched on again, nobody has been barred all along. *)
LEMMA SwitchOnStep ==
  ASSUME SessionInv, SwitchOn PROVE SessionInv'
<1>1. /\ call \in [SessionCallers -> Call] /\ \A c \in SessionCallers : CallOK(call[c])
      /\ Idp \in SessionCallers /\ \A t \in Tabs : t \in SessionCallers
  BY SessionFacts
<1>2. call' = [c \in SessionCallers |-> [call[c] EXCEPT !.barred = FALSE]]
      /\ UNCHANGED <<tokens, held, disk>>
  BY DEF SwitchOn
<1>3. \A c \in SessionCallers :
        /\ call'[c] \in Call /\ call'[c].op = call[c].op /\ call'[c].pc = call[c].pc
        /\ call'[c].id = call[c].id /\ call'[c].old = call[c].old
  BY <1>1, <1>2 DEF Call
<1>4. CallsOK'
  <2>1. call' \in [SessionCallers -> Call]
    BY <1>2, <1>3
  <2>2. \A c \in SessionCallers : CallOK(call[c])'
    BY <1>1, <1>2, <1>3 DEF CallOK, NamesOld
  <2> QED
    BY <1>2, <2>1, <2>2 DEF SessionInv, CallsOK
<1>5. OnlyTabsRotate' /\ LockedIsLive' /\ OneRotation'
  BY <1>1, <1>2, <1>3 DEF SessionInv, OnlyTabsRotate, LockedIsLive, OneRotation, Rotates
<1> QED
  BY <1>2, <1>4, <1>5 DEF SessionInv, TokensOK, OneLiveToken, Live

-----------------------------------------------------------------------------
LEMMA ServingStep ==
  ASSUME SessionInv, NEW c \in SessionCallers, Serving(c) PROVE SessionInv'
  BY IssueStep, RotateLockStep, RotateCommitStep, CheckUserStep, FindStep, UpdateStep,
     RevokeOneStep
  DEF Serving

LEMMA SessionInvStep == SessionInv /\ [SessionNext]_sessionVars => SessionInv'
<1> SUFFICES ASSUME SessionInv, [SessionNext]_sessionVars PROVE SessionInv'
  OBVIOUS
<1>1. CASE \E t \in Tabs :
             \/ \E m \in Methods : SignInWith(t, m)
             \/ Refresh(t)
             \/ SignOutFrom(t)
             \/ ReceiveTokens(t)
  BY <1>1, SignInStep, PageStep, ReceiveTokensStep
<1>2. CASE BackChannelLogout \/ \E t \in Tabs : ChangePassword(t)
  BY <1>2, RevokerBegins
<1>3. CASE \/ \E t \in Tabs : ReceiveAnswer(t)
           \/ \E c \in SessionCallers : FailRequest(c)
           \/ ListAsRevoked
  BY <1>3, AnswerStep
<1>4. CASE \/ \E how \in {"disabled", "blocked"} : SwitchOff(how)
           \/ \E t \in Tabs : OpenTab(t)
           \/ UNCHANGED sessionVars
  BY <1>4, OutsideStep
<1>5. CASE SwitchOn
  BY <1>5, SwitchOnStep
<1>6. CASE \E c \in SessionCallers : Serving(c)
  BY <1>6, ServingStep
<1> QED
  BY <1>1, <1>2, <1>3, <1>4, <1>5, <1>6 DEF SessionNext

(* However many tabs rotate the token of a sign-in at once, and whatever
   revokes tokens meanwhile, it has one live token at most. *)
THEOREM OneLiveTokenAlways == SessionSpec => []OneLiveToken
<1>1. SessionInv => OneLiveToken
  BY DEF SessionInv
<1> QED
  BY <1>1, SessionInvInit, SessionInvStep, PTL DEF SessionSpec
-----------------------------------------------------------------------------
(* The switch *)

(* Barred requests end when the switch is turned on again, and none of them
   is being answered with tokens. *)
BarredInv == \A c \in SessionCallers : call[c].barred => signIn # "on" /\ call[c].pc # "granted"

LEMMA BarredMoved ==
  ASSUME SessionInv, BarredInv, NEW c \in SessionCallers, NEW r, call' = [call EXCEPT ![c] = r],
         r.barred => signIn # "on" /\ r.pc # "granted", UNCHANGED signIn
  PROVE  BarredInv'
  BY SessionFacts DEF BarredInv

(* A fresh request is not barred, and one that only moves on is as before. *)
LEMMA BarredBegins ==
  ASSUME SessionInv, BarredInv, NEW c \in SessionCallers, UNCHANGED signIn,
         NEW op \in CallOps, NEW pc \in Pcs, NEW i \in Nat, Begins(c, Request(op, pc, i))
  PROVE  BarredInv'
<1>1. ~Request(op, pc, i).barred
  BY DEF Request, Idle
<1> QED
  BY <1>1, BarredMoved DEF Begins

LEMMA BarredMoves ==
  ASSUME SessionInv, BarredInv, NEW c \in SessionCallers, UNCHANGED signIn,
         NEW pc \in Pcs, Goes(c, pc), pc = "granted" => signIn = "on"
  PROVE  BarredInv'
<1>1. call \in [SessionCallers -> Call] /\ call[c] \in Call
  BY SessionFacts
<1>2. call'[c].barred = call[c].barred /\ call'[c].pc = pc
  BY <1>1 DEF Goes, Call
<1>3. \A d \in SessionCallers \ {c} : call'[d] = call[d]
  BY <1>1 DEF Goes
<1> QED
  BY <1>2, <1>3 DEF BarredInv

LEMMA BarredIdle ==
  ASSUME SessionInv, BarredInv, NEW c \in SessionCallers, UNCHANGED signIn,
         call' = [call EXCEPT ![c] = Idle]
  PROVE  BarredInv'
<1>1. ~Idle.barred
  BY DEF Idle
<1> QED
  BY <1>1, BarredMoved

LEMMA BarredRefused ==
  ASSUME SessionInv, BarredInv, NEW c \in SessionCallers, UNCHANGED signIn, Refused(c)
  PROVE  BarredInv'
<1>1. call[c].op \in CallOps
  BY SessionFacts DEF Call, CallOps
<1> QED
  BY <1>1, BarredBegins DEF Refused, Begins, Pcs

LEMMA BarredServing ==
  ASSUME SessionInv, BarredInv, NEW c \in SessionCallers, Serving(c)
  PROVE  BarredInv'
<1>1. /\ call \in [SessionCallers -> Call] /\ call[c] \in Call
      /\ Len(tokens) + 1 \in Nat /\ signIn' = signIn
  BY SessionFacts
  DEF Serving, IssueTokens, RotateLock, RotateCommit, CheckUser, FindTokens, UpdateTokens, RevokeOne
<1>2. CASE IssueTokens(c)
  BY <1>1, <1>2, BarredBegins DEF IssueTokens, CallOps, Pcs
<1>3. CASE RotateLock(c)
  BY <1>1, <1>3, BarredRefused, BarredMoves DEF RotateLock, Pcs
<1>4. CASE RotateCommit(c)
  <2>1. call'[c].barred = call[c].barred /\ call'[c].pc = "rotated"
    BY <1>1, <1>4 DEF RotateCommit, Call
  <2>2. \A d \in SessionCallers \ {c} : call'[d] = call[d]
    BY <1>1, <1>4 DEF RotateCommit
  <2> QED
    BY <1>1, <2>1, <2>2 DEF BarredInv
<1>5. CASE CheckUser(c)
  BY <1>1, <1>5, BarredRefused, BarredMoves, BarredBegins DEF CheckUser, CallOps, Pcs
<1>6. CASE FindTokens(c)
  <2>1. call'[c].barred = call[c].barred /\ call'[c].pc = "update"
    BY <1>1, <1>6 DEF FindTokens, Call
  <2>2. \A d \in SessionCallers \ {c} : call'[d] = call[d]
    BY <1>1, <1>6 DEF FindTokens
  <2> QED
    BY <1>1, <2>1, <2>2 DEF BarredInv
<1>7. CASE UpdateTokens(c)
  <2>1. CASE Refused(c)
    BY <1>1, <2>1, BarredRefused
  <2>2. CASE call' = [call EXCEPT ![c].pc = "done", ![c].snap = {}]
    <3>1. call'[c].barred = call[c].barred /\ call'[c].pc = "done"
      BY <1>1, <2>2 DEF Call
    <3>2. \A d \in SessionCallers \ {c} : call'[d] = call[d]
      BY <1>1, <2>2
    <3> QED
      BY <1>1, <3>1, <3>2 DEF BarredInv
  <2> QED
    BY <1>7, <2>1, <2>2 DEF UpdateTokens
<1>8. CASE RevokeOne(c)
  BY <1>1, <1>8, BarredMoves DEF RevokeOne, Pcs
<1> QED
  BY <1>2, <1>3, <1>4, <1>5, <1>6, <1>7, <1>8 DEF Serving

LEMMA BarredPage ==
  ASSUME SessionInv, BarredInv, NEW t \in Tabs,
         \/ \E m \in Methods : SignInWith(t, m)
         \/ Refresh(t)
         \/ SignOutFrom(t)
         \/ ChangePassword(t)
         \/ ReceiveTokens(t)
         \/ ReceiveAnswer(t)
  PROVE  BarredInv'
<1>1. /\ call \in [SessionCallers -> Call] /\ t \in SessionCallers /\ call[t] \in Call
      /\ held[t] \in Nat /\ Len(tokens) \in Nat /\ signIn' = signIn
  <2>1. held[t] \in 0..Len(tokens) /\ Len(tokens) \in Nat
    BY SessionFacts
  <2>2. signIn' = signIn
    BY DEF SignInWith, Refresh, SignOutFrom, ChangePassword, ReceiveTokens, ReceiveAnswer
  <2> QED
    BY <2>1, <2>2, SessionFacts
<1>2. CASE \E m \in Methods : SignInWith(t, m)
  <2>1. PICK m \in Methods :
          call' = [call EXCEPT ![t] = [Request("login", "mint", 0) EXCEPT !.method = m]]
    BY <1>2 DEF SignInWith, Begins
  <2>2. ~[Request("login", "mint", 0) EXCEPT !.method = m].barred
    BY DEF Request, Idle
  <2> QED
    BY <1>1, <2>1, <2>2, BarredMoved
<1>3. CASE Refresh(t)
  <2> DEFINE q == Request("refresh", "rotate", held[t])
             r == [q EXCEPT !.barred = signIn # "on"]
  <2>1. r.pc = "rotate" /\ (r.barred => signIn # "on")
    <3>1. q \in Call /\ q.pc = "rotate"
      BY <1>1, RequestIsCall DEF CallOps, Pcs
    <3> HIDE DEF q
    <3> QED
      BY <3>1 DEF Call
  <2>2. call' = [call EXCEPT ![t] = r]
    BY <1>3 DEF Refresh, Begins
  <2> HIDE DEF r
  <2> QED
    BY <1>1, <2>1, <2>2, BarredMoved
<1>4. CASE SignOutFrom(t)
  <2>1. PICK pc \in {"logout", "rotate"} :
          Begins(t, [Request("logout", pc, held[t]) EXCEPT
                       !.old = held[t], !.barred = pc = "rotate" /\ signIn # "on"])
    BY <1>4 DEF SignOutFrom
  <2> DEFINE q == Request("logout", pc, held[t])
             r == [q EXCEPT !.old = held[t], !.barred = pc = "rotate" /\ signIn # "on"]
  <2>2. r.pc # "granted" /\ (r.barred => signIn # "on")
    <3>1. q \in Call /\ q.pc = pc
      BY <1>1, RequestIsCall DEF CallOps, Pcs
    <3> HIDE DEF q
    <3> QED
      BY <3>1 DEF Call
  <2>3. call' = [call EXCEPT ![t] = r]
    BY <2>1 DEF Begins
  <2> HIDE DEF r
  <2> QED
    BY <1>1, <2>2, <2>3, BarredMoved
<1>5. CASE ChangePassword(t)
  BY <1>1, <1>5, BarredBegins DEF ChangePassword, CallOps, Pcs
<1>6. CASE ReceiveTokens(t)
  <2>1. CASE call[t].op = "logout"
    <3>1. Goes(t, "logout")
      BY <1>1, <1>6, <2>1 DEF ReceiveTokens, Goes
    <3> QED
      BY <1>1, <3>1, BarredMoves DEF Pcs
  <2>2. CASE call[t].op # "logout"
    <3>1. call' = [call EXCEPT ![t] = Idle]
      BY <1>1, <1>6, <2>2 DEF ReceiveTokens
    <3> QED
      BY <1>1, <3>1, BarredIdle
  <2> QED
    BY <2>1, <2>2
<1>7. CASE ReceiveAnswer(t)
  BY <1>1, <1>7, BarredIdle DEF ReceiveAnswer
<1> QED
  BY <1>2, <1>3, <1>4, <1>5, <1>6, <1>7

LEMMA BarredStep == SessionInv /\ BarredInv /\ [SessionNext]_sessionVars => BarredInv'
<1> SUFFICES ASSUME SessionInv, BarredInv, [SessionNext]_sessionVars PROVE BarredInv'
  OBVIOUS
<1>1. CASE \E c \in SessionCallers : Serving(c)
  BY <1>1, BarredServing
<1>2. CASE \E t \in Tabs :
             \/ \E m \in Methods : SignInWith(t, m)
             \/ Refresh(t) \/ SignOutFrom(t) \/ ChangePassword(t)
             \/ ReceiveTokens(t) \/ ReceiveAnswer(t)
  BY <1>2, BarredPage
<1>3. CASE ListAsRevoked \/ \E c \in SessionCallers : FailRequest(c)
  BY <1>3, SessionFacts, BarredIdle DEF ListAsRevoked, FailRequest
<1>4. CASE BackChannelLogout
  BY <1>4, SessionFacts, BarredBegins DEF BackChannelLogout, CallOps, Pcs
<1>5. CASE SwitchOn
  <2>1. \A c \in SessionCallers : ~call'[c].barred
    BY <1>5, SessionFacts DEF SwitchOn, Call
  <2> QED
    BY <2>1 DEF BarredInv
<1>6. CASE \/ \E how \in {"disabled", "blocked"} : SwitchOff(how)
           \/ \E t \in Tabs : OpenTab(t)
           \/ UNCHANGED sessionVars
  BY <1>6 DEF SwitchOff, OpenTab, sessionVars, BarredInv
<1> QED
  BY <1>1, <1>2, <1>3, <1>4, <1>5, <1>6 DEF SessionNext

(* Nobody is handed tokens by a request made after the sign-in was switched
   off, however its steps and the administrator's interleave. *)
THEOREM SwitchedOffStaysOutAlways == SessionSpec => []SwitchedOffStaysOut
<1>1. SessionInit => BarredInv
  BY DEF SessionInit, BarredInv, Idle
<1>2. BarredInv => SwitchedOffStaysOut
  BY DEF BarredInv, SwitchedOffStaysOut, SessionCallers
<1> QED
  BY <1>1, <1>2, SessionInvInit, SessionInvStep, BarredStep, PTL DEF SessionSpec

-----------------------------------------------------------------------------
(* Magic links *)

(* The visitor's transaction has the row of its link. *)
HasRow(v) == opening[v].pc \in {"authorize", "find", "answer"}

PointsAtLink == \A v \in Visitors : opening[v].pc # "idle" => opening[v].link \in DOMAIN links

HeldIsOpen == \A v \in Visitors : HasRow(v) => links[opening[v].link].state = "open"

OneHolder ==
  \A v, w \in Visitors : HasRow(v) /\ HasRow(w) /\ opening[v].link = opening[w].link => v = w

LinkInv == LinkTypeOK /\ PointsAtLink /\ HeldIsOpen /\ OneHolder /\ LinkUsedBySession

(* A table to which a fresh link has been added. *)
LEMMA NewLinkAdded ==
  ASSUME LinkInv, NEW a \in Accounts, NEW c \in BOOLEAN,
         links' = Append(links, NewLink(a, c)),
         opening' = opening, allowed' = allowed,
         asking' \in [Visitors -> SUBSET Accounts]
  PROVE  LinkInv'
<1> DEFINE n == Len(links)
<1>1. links \in Seq(Link) /\ n \in Nat /\ DOMAIN links = 1..n
  BY DEF LinkInv, LinkTypeOK
<1>2. NewLink(a, c) \in Link
  BY DEF NewLink, Link
<1>3. /\ links' \in Seq(Link) /\ Len(links') = n + 1
      /\ \A l \in 1..n : links'[l] = links[l]
      /\ links'[n + 1] = NewLink(a, c)
  BY <1>1, <1>2
<1>4. DOMAIN links' = 1..(n + 1)
  BY <1>3, <1>1
<1>5. LinkTypeOK'
  BY <1>1, <1>3 DEF LinkInv, LinkTypeOK
<1>6. PointsAtLink' /\ HeldIsOpen' /\ OneHolder'
  BY <1>1, <1>3, <1>4 DEF LinkInv, PointsAtLink, HeldIsOpen, OneHolder, HasRow
<1>7. LinkUsedBySession'
  BY <1>1, <1>3, <1>4 DEF LinkInv, LinkUsedBySession, NewLink
<1> QED
  BY <1>5, <1>6, <1>7 DEF LinkInv

(* Steps that leave the links alone, and after which nobody holds a row that
   they did not hold, but for one visitor who found it free and open. *)
LEMMA OpeningMoved ==
  ASSUME LinkInv, NEW v \in Visitors, NEW o,
         o = NotOpening
           \/ /\ o.pc \in {"lock", "authorize", "find", "answer"}
              /\ o = [pc |-> o.pc, link |-> o.link]
              /\ o.link \in DOMAIN links
              /\ o.pc # "lock" =>
                   /\ links[o.link].state = "open"
                   /\ \A w \in Visitors \ {v} : ~(HasRow(w) /\ opening[w].link = o.link),
         opening' = [opening EXCEPT ![v] = o],
         UNCHANGED <<links, allowed, asking>>
  PROVE  LinkInv'
<1>1. links \in Seq(Link) /\ Len(links) \in Nat /\ DOMAIN links = 1..Len(links)
  BY DEF LinkInv, LinkTypeOK
<1>2. o \in [pc : {"idle", "lock", "authorize", "find", "answer"}, link : 0..Len(links)]
  BY <1>1 DEF NotOpening
<1>3. \A w \in Visitors : opening'[w] = IF w = v THEN o ELSE opening[w]
  BY DEF LinkInv, LinkTypeOK
<1>4. LinkTypeOK'
  BY <1>1, <1>2 DEF LinkInv, LinkTypeOK
<1>5. PointsAtLink' /\ HeldIsOpen'
  BY <1>3 DEF LinkInv, PointsAtLink, HeldIsOpen, HasRow, NotOpening
<1>6. OneHolder'
  BY <1>3 DEF LinkInv, OneHolder, HasRow, NotOpening
<1>7. LinkUsedBySession'
  BY DEF LinkInv, LinkUsedBySession
<1> QED
  BY <1>4, <1>5, <1>6, <1>7 DEF LinkInv

(* One link is rewritten, and whoever holds a row afterwards holds another. *)
LEMMA LinkRewritten ==
  ASSUME LinkInv, NEW l \in DOMAIN links, NEW new \in Link,
         new.sessions = IF new.state = "consumed" THEN 1 ELSE 0,
         links' = [links EXCEPT ![l] = new],
         opening' \in [Visitors -> [pc : {"idle", "lock", "authorize", "find", "answer"},
                                    link : 0..Len(links)]],
         \A w \in Visitors :
           /\ opening'[w] = opening[w] \/ opening'[w] = NotOpening
           /\ HasRow(w)' => opening'[w].link # l,
         UNCHANGED <<allowed, asking>>
  PROVE  LinkInv'
<1>1. links \in Seq(Link) /\ Len(links) \in Nat /\ DOMAIN links = 1..Len(links)
  BY DEF LinkInv, LinkTypeOK
<1>2. /\ links' \in Seq(Link) /\ Len(links') = Len(links)
      /\ \A k \in DOMAIN links : links'[k] = IF k = l THEN new ELSE links[k]
  BY <1>1, ExceptSeq
<1>3. DOMAIN links' = DOMAIN links
  BY <1>1, <1>2
<1>4. LinkTypeOK'
  BY <1>2 DEF LinkInv, LinkTypeOK
<1>5. PointsAtLink' /\ HeldIsOpen'
  BY <1>2, <1>3 DEF LinkInv, PointsAtLink, HeldIsOpen, HasRow, NotOpening
<1>6. OneHolder'
  BY DEF LinkInv, OneHolder, HasRow, NotOpening
<1>7. LinkUsedBySession'
  BY <1>2, <1>3 DEF LinkInv, LinkUsedBySession
<1> QED
  BY <1>4, <1>5, <1>6, <1>7 DEF LinkInv

LEMMA LinkInvInit == LinkInit => LinkInv
<1> SUFFICES ASSUME LinkInit PROVE LinkInv
  OBVIOUS
<1>1. links = <<>> /\ links \in Seq(Link) /\ Len(links) = 0 /\ DOMAIN links = {}
  BY DEF LinkInit
<1> QED
  BY <1>1 DEF LinkInit, LinkInv, LinkTypeOK, PointsAtLink, HeldIsOpen, OneHolder, HasRow,
              LinkUsedBySession, NotOpening

-----------------------------------------------------------------------------
(* Asking *)

(* Requests for links, and the administrator's, only add fresh ones. *)
LEMMA AskingStep ==
  ASSUME LinkInv, NEW v \in Visitors, AskForLinks(v) \/ IssueLink(v) \/ AskingFails(v)
  PROVE  LinkInv'
<1>1. allowed \subseteq Accounts /\ asking \in [Visitors -> SUBSET Accounts]
  BY DEF LinkInv, LinkTypeOK
<1>2. CASE AskForLinks(v) \/ AskingFails(v)
  <2>1. asking' \in [Visitors -> SUBSET Accounts] /\ UNCHANGED <<links, allowed, opening>>
    BY <1>1, <1>2 DEF AskForLinks, AskingFails
  <2> QED
    BY <2>1 DEF LinkInv, LinkTypeOK, PointsAtLink, HeldIsOpen, OneHolder, HasRow,
                LinkUsedBySession
<1>3. CASE IssueLink(v)
  <2>1. PICK a \in asking[v] :
          /\ links' = Append(links, NewLink(a, TRUE))
          /\ asking' = [asking EXCEPT ![v] = @ \ {a}]
    BY <1>3 DEF IssueLink
  <2>2. a \in Accounts /\ asking' \in [Visitors -> SUBSET Accounts]
    BY <1>1, <2>1
  <2> QED
    BY <1>3, <2>1, <2>2, NewLinkAdded DEF IssueLink
<1> QED
  BY <1>2, <1>3

LEMMA AccountStep ==
  ASSUME LinkInv, NEW a \in Accounts, SendAccountLink(a) \/ SwitchAccount(a)
  PROVE  LinkInv'
<1>1. CASE SendAccountLink(a)
  BY <1>1, NewLinkAdded DEF SendAccountLink, LinkInv, LinkTypeOK
<1>2. CASE SwitchAccount(a)
  <2>1. allowed' \subseteq Accounts /\ UNCHANGED <<links, asking, opening>>
    BY <1>2 DEF SwitchAccount, LinkInv, LinkTypeOK
  <2> QED
    BY <2>1 DEF LinkInv, LinkTypeOK, PointsAtLink, HeldIsOpen, OneHolder, HasRow,
                LinkUsedBySession
<1> QED
  BY <1>1, <1>2

-----------------------------------------------------------------------------
(* Opening *)

LEMMA Released ==
  ASSUME LinkInv, NEW v \in Visitors, Releases(v), UNCHANGED <<links, allowed, asking>>
  PROVE  LinkInv'
  BY OpeningMoved DEF Releases

(* A holder goes on to its next statement. *)
LEMMA HolderReaches ==
  ASSUME LinkInv, NEW v \in Visitors, HasRow(v), NEW pc \in {"find", "answer"},
         Reaches(v, pc), UNCHANGED <<links, allowed, asking>>
  PROVE  LinkInv'
<1> DEFINE o == [pc |-> pc, link |-> opening[v].link]
<1>2. opening' = [opening EXCEPT ![v] = o]
  BY DEF Reaches
<1>3. o.link \in DOMAIN links /\ links[o.link].state = "open"
  BY DEF LinkInv, PointsAtLink, HeldIsOpen, HasRow
<1>4. \A w \in Visitors \ {v} : ~(HasRow(w) /\ opening[w].link = o.link)
  BY DEF LinkInv, OneHolder
<1> QED
  BY <1>2, <1>3, <1>4, OpeningMoved

LEMMA OpenLinkStep ==
  ASSUME LinkInv, NEW v \in Visitors, NEW l \in DOMAIN links, OpenLink(v, l)
  PROVE  LinkInv'
  BY OpeningMoved DEF OpenLink

(* Whoever gets the row found it free, and goes on only with an open link. *)
LEMMA LockLinkStep ==
  ASSUME LinkInv, NEW v \in Visitors, LockLink(v)
  PROVE  LinkInv'
<1> DEFINE l == opening[v].link
           o == [pc |-> "authorize", link |-> l]
<1>1. CASE links[l].state = "open"
  <2>1. opening' = [opening EXCEPT ![v] = o]
    BY <1>1 DEF LockLink, Reaches
  <2>2. l \in DOMAIN links
    BY DEF LockLink, LinkInv, PointsAtLink
  <2>3. \A w \in Visitors \ {v} : ~(HasRow(w) /\ opening[w].link = l)
    BY DEF LockLink, RowFree, HasRow
  <2>4. o = [pc |-> o.pc, link |-> o.link] /\ o.pc = "authorize" /\ o.link = l
    OBVIOUS
  <2>5. UNCHANGED <<links, allowed, asking>>
    BY DEF LockLink
  <2> HIDE DEF o, l
  <2> QED
    BY <1>1, <2>1, <2>2, <2>3, <2>4, <2>5, OpeningMoved
<1>2. CASE links[l].state # "open"
  BY <1>2, Released DEF LockLink
<1> QED
  BY <1>1, <1>2

LEMMA ConsumedLink ==
  ASSUME NEW k \in Link, NEW n \in Nat
  PROVE  LET new == [k EXCEPT !.state = "consumed", !.sessions = n]
         IN  new \in Link /\ new.state = "consumed" /\ new.sessions = n
  BY DEF Link

(* The session is minted from an open link, and the row is given up. *)
LEMMA AnswerLinkStep ==
  ASSUME LinkInv, NEW v \in Visitors, AnswerLink(v)
  PROVE  LinkInv'
<1> DEFINE l == opening[v].link
           new == [links[l] EXCEPT !.state = "consumed", !.sessions = @ + 1]
<1>1. HasRow(v) /\ l \in DOMAIN links /\ links[l].state = "open"
  BY DEF AnswerLink, HasRow, LinkInv, PointsAtLink, HeldIsOpen
<1>2. links \in Seq(Link) /\ Len(links) \in Nat /\ DOMAIN links = 1..Len(links)
  BY DEF LinkInv, LinkTypeOK
<1>3. links[l] \in Link /\ links[l].sessions = 0
  BY <1>1, <1>2 DEF LinkInv, LinkUsedBySession
<1>4. new \in Link /\ new.state = "consumed" /\ new.sessions = 1
  <2>1. links[l].sessions + 1 = 1 /\ links[l].sessions + 1 \in Nat
    BY <1>3
  <2> QED
    BY <1>3, <2>1, ConsumedLink
<1>5. links' = [links EXCEPT ![l] = new]
  BY <1>1, <1>2 DEF AnswerLink
<1>6. opening' = [opening EXCEPT ![v] = NotOpening]
  BY DEF AnswerLink, Releases
<1>7. opening' \in [Visitors -> [pc : {"idle", "lock", "authorize", "find", "answer"},
                                link : 0..Len(links)]]
  BY <1>2, <1>6 DEF LinkInv, LinkTypeOK, NotOpening
<1>8. \A w \in Visitors :
        /\ opening'[w] = opening[w] \/ opening'[w] = NotOpening
        /\ HasRow(w)' => opening'[w].link # l
  BY <1>1, <1>2, <1>6 DEF LinkInv, LinkTypeOK, OneHolder, HasRow, NotOpening
<1>9. UNCHANGED <<allowed, asking>>
  BY DEF AnswerLink
<1> HIDE DEF new, l
<1> QED
  BY <1>1, <1>4, <1>5, <1>7, <1>8, <1>9, LinkRewritten

LEMMA HolderStep ==
  ASSUME LinkInv, NEW v \in Visitors, OpenStep(v) \/ OpeningFails(v)
  PROVE  LinkInv'
<1>1. CASE AuthorizeLink(v)
  BY <1>1, HolderReaches, Released DEF AuthorizeLink, HasRow
<1>2. CASE FindLinkUser(v)
  BY <1>2, HolderReaches, Released DEF FindLinkUser, HasRow
<1>3. CASE AnswerLink(v)
  BY <1>3, AnswerLinkStep
<1>4. CASE AcquireTimesOut(v) \/ OpeningFails(v)
  BY <1>4, Released DEF AcquireTimesOut, OpeningFails
<1> QED
  BY <1>1, <1>2, <1>3, <1>4 DEF OpenStep

-----------------------------------------------------------------------------
(* Time *)

(* Only a link whose row is free expires, and only one that is over leaves
   the hour, so no holder's link changes. *)
LEMMA TimeStep ==
  ASSUME LinkInv, NEW l \in DOMAIN links, ExpireLink(l) \/ LeavesTheHour(l)
  PROVE  LinkInv'
<1>1. links \in Seq(Link) /\ Len(links) \in Nat /\ DOMAIN links = 1..Len(links)
  BY DEF LinkInv, LinkTypeOK
<1>2. links[l] \in Link /\ links[l].sessions = IF links[l].state = "consumed" THEN 1 ELSE 0
  BY <1>1 DEF LinkInv, LinkUsedBySession
<1>3. PICK new \in Link :
        /\ links' = [links EXCEPT ![l] = new]
        /\ new.sessions = IF new.state = "consumed" THEN 1 ELSE 0
  <2>1. CASE ExpireLink(l)
    <3> DEFINE new == [links[l] EXCEPT !.state = "expired"]
    <3>1. new \in Link /\ new.sessions = 0 /\ new.state # "consumed"
      BY <1>2, <2>1 DEF Link, ExpireLink
    <3>2. links' = [links EXCEPT ![l] = new]
      BY <1>1, <2>1 DEF ExpireLink
    <3> USE <3>1
    <3> WITNESS new \in Link
    <3> QED
      BY <3>1, <3>2
  <2>2. CASE LeavesTheHour(l)
    <3> DEFINE new == [links[l] EXCEPT !.counts = FALSE]
    <3>1. new \in Link /\ new.sessions = links[l].sessions /\ new.state = links[l].state
      BY <1>2 DEF Link
    <3>2. links' = [links EXCEPT ![l] = new]
      BY <1>1, <2>2 DEF LeavesTheHour
    <3> USE <3>1
    <3> WITNESS new \in Link
    <3> QED
      BY <1>2, <3>1, <3>2
  <2> QED
    BY <2>1, <2>2
<1>4. \A w \in Visitors : HasRow(w) => opening[w].link # l
  BY DEF ExpireLink, LeavesTheHour, RowFree, HasRow, LinkInv, HeldIsOpen
<1>5. UNCHANGED <<allowed, asking>> /\ opening' = opening
  BY DEF ExpireLink, LeavesTheHour
<1>6. opening \in [Visitors -> [pc : {"idle", "lock", "authorize", "find", "answer"},
                                link : 0..Len(links)]]
  BY DEF LinkInv, LinkTypeOK
<1> QED
  BY <1>3, <1>4, <1>5, <1>6, LinkRewritten DEF HasRow

-----------------------------------------------------------------------------
LEMMA LinkInvStep == LinkInv /\ [LinkNext]_linkVars => LinkInv'
<1> SUFFICES ASSUME LinkInv, [LinkNext]_linkVars PROVE LinkInv'
  OBVIOUS
<1>1. CASE UNCHANGED linkVars
  BY <1>1 DEF linkVars, LinkInv, LinkTypeOK, PointsAtLink, HeldIsOpen, OneHolder, HasRow,
              LinkUsedBySession
<1>2. CASE LinkNext
  BY <1>2, AskingStep, AccountStep, OpenLinkStep, LockLinkStep, HolderStep, TimeStep
  DEF LinkNext
<1> QED
  BY <1>1, <1>2

(* However many visitors open a link at once, it opens one session, and it
   is used up exactly when it has opened one. *)
THEOREM LinkUsedBySessionAlways == LinkSpec => []LinkUsedBySession
<1>1. LinkInv => LinkUsedBySession
  BY DEF LinkInv
<1> QED
  BY <1>1, LinkInvInit, LinkInvStep, PTL DEF LinkSpec

-----------------------------------------------------------------------------
(* Kiosks *)

Pairing(s) == screen[s].pc = "pairing"

(* The types of what pairing reads and writes. *)
PairingTypeOK ==
  /\ codes \in Seq({"open", "over"}) /\ devices \in Seq(Device)
  /\ screen \in [Screens -> Screen] /\ storedId \in Nat

UsedIsOpen ==
  \A s \in Screens :
    Pairing(s) => screen[s].code \in DOMAIN codes /\ codes[screen[s].code] = "open"

OneUser == \A s, t \in Screens : Pairing(s) /\ Pairing(t) /\ screen[s].code = screen[t].code => s = t

PairedIsOver ==
  \A d \in DOMAIN devices : devices[d].code \in DOMAIN codes /\ codes[devices[d].code] = "over"

PairingInv == PairingTypeOK /\ UsedIsOpen /\ OneUser /\ PairedIsOver /\ OneDevicePerCode

LEMMA PairingInvInit == KioskInit => PairingInv
<1> SUFFICES ASSUME KioskInit PROVE PairingInv
  OBVIOUS
<1>1. codes = <<>> /\ devices = <<>> /\ DOMAIN codes = {} /\ DOMAIN devices = {}
  BY DEF KioskInit
<1>2. PairingTypeOK
  BY <1>1 DEF KioskInit, PairingTypeOK, HomeScreen, Screen, Someone
<1> QED
  BY <1>1, <1>2
  DEF KioskInit, PairingInv, UsedIsOpen, OneUser, PairedIsOver, OneDevicePerCode, Pairing, HomeScreen

(* Steps after which no screen pairs that did not, or pairs with another code. *)
LEMMA ScreensMoved ==
  ASSUME PairingInv, UNCHANGED <<codes, devices, storedId>>, screen' \in [Screens -> Screen],
         \A s \in Screens : screen'[s] = screen[s] \/ screen'[s].pc # "pairing"
  PROVE  PairingInv'
  BY DEF PairingInv, PairingTypeOK, UsedIsOpen, OneUser, PairedIsOver, OneDevicePerCode, Pairing

LEMMA HomeIsAScreen ==
  ASSUME NEW d \in Nat PROVE HomeScreen(d) \in Screen /\ HomeScreen(d).pc = "home"
  BY DEF HomeScreen, Screen, Someone

(* What is done with PINs leaves the codes and the devices alone. *)
LEMMA PinStep ==
  ASSUME PairingInv, NEW s \in Screens,
         \/ OpenScreen(s)
         \/ \E e \in Someone : EnterPin(s, e)
         \/ AcceptPin(s)
         \/ RefusePin(s)
         \/ PunchAtKiosk(s)
         \/ PairingFails(s)
  PROVE  PairingInv'
<1>1. screen \in [Screens -> Screen] /\ screen[s] \in Screen /\ screen[s].device \in Nat
  BY DEF PairingInv, PairingTypeOK, Screen
<1>2. storedId \in Nat
  BY DEF PairingInv, PairingTypeOK
<1>3. PICK r \in Screen : r.pc # "pairing" /\ screen' = [screen EXCEPT ![s] = r]
  <2>1. CASE OpenScreen(s)
    BY <1>2, <2>1, HomeIsAScreen DEF OpenScreen
  <2>2. CASE \E e \in Someone : EnterPin(s, e)
    <3>1. PICK e \in Someone : screen' = [screen EXCEPT ![s].pc = "comparing", ![s].who = e]
      BY <2>2 DEF EnterPin
    <3> DEFINE r == [screen[s] EXCEPT !.pc = "comparing", !.who = e]
    <3>2. r \in Screen /\ r.pc = "comparing"
      BY <1>1 DEF Screen
    <3>3. screen' = [screen EXCEPT ![s] = r]
      BY <1>1, <3>1
    <3> HIDE DEF r
    <3> QED
      BY <3>2, <3>3
  <2>3. CASE AcceptPin(s)
    <3> DEFINE r == [screen[s] EXCEPT !.pc = "session"]
    <3>1. r \in Screen /\ r.pc = "session"
      BY <1>1 DEF Screen
    <3>2. screen' = [screen EXCEPT ![s] = r]
      BY <1>1, <2>3 DEF AcceptPin
    <3> HIDE DEF r
    <3> QED
      BY <3>1, <3>2
  <2>4. CASE RefusePin(s) \/ PunchAtKiosk(s) \/ PairingFails(s)
    <3>1. screen' = [screen EXCEPT ![s] = HomeScreen(screen[s].device)]
      BY <2>4 DEF RefusePin, RefusePinTo, PunchAtKiosk, PairingFails
    <3> QED
      BY <1>1, <3>1, HomeIsAScreen
  <2> QED
    BY <2>1, <2>2, <2>3, <2>4
<1>4. UNCHANGED <<codes, devices, storedId>>
  BY DEF OpenScreen, EnterPin, AcceptPin, RefusePin, RefusePinTo, PunchAtKiosk, PairingFails
<1>5. /\ screen' \in [Screens -> Screen]
      /\ \A t \in Screens : screen'[t] = screen[t] \/ screen'[t].pc # "pairing"
  BY <1>1, <1>3
<1> QED
  BY <1>4, <1>5, ScreensMoved

(* A restart of the process leaves sessions, and sends everybody else home. *)
LEMMA RestartStep ==
  ASSUME PairingInv, KioskRestarts PROVE PairingInv'
<1>1. screen \in [Screens -> Screen]
  BY DEF PairingInv, PairingTypeOK
<1>2. \A s \in Screens : screen[s].device \in Nat
  BY <1>1 DEF Screen
<1>3. screen' = [s \in Screens |-> IF screen[s].pc = "session" THEN screen[s]
                                  ELSE HomeScreen(screen[s].device)]
  BY DEF KioskRestarts
<1>4. UNCHANGED <<codes, devices, storedId>>
  BY DEF KioskRestarts
<1> QED
  BY <1>1, <1>2, <1>3, <1>4, HomeIsAScreen, ScreensMoved

-----------------------------------------------------------------------------
(* Codes *)

LEMMA IssueCodeStep ==
  ASSUME PairingInv, IssuePairingCode PROVE PairingInv'
<1> DEFINE n == Len(codes)
<1>1. codes \in Seq({"open", "over"}) /\ n \in Nat /\ DOMAIN codes = 1..n
  BY DEF PairingInv, PairingTypeOK
<1>2. codes' = Append(codes, "open") /\ UNCHANGED <<devices, screen, storedId>>
  BY DEF IssuePairingCode
<1>3. /\ codes' \in Seq({"open", "over"}) /\ DOMAIN codes' = 1..(n + 1)
      /\ \A c \in DOMAIN codes : codes'[c] = codes[c]
  BY <1>1, <1>2
<1>4. \A c \in DOMAIN codes : c \in DOMAIN codes'
  BY <1>1, <1>3
<1> QED
  BY <1>2, <1>3, <1>4
  DEF PairingInv, PairingTypeOK, UsedIsOpen, OneUser, PairedIsOver, OneDevicePerCode, Pairing

(* A code is ended while no screen uses it. *)
LEMMA ExpireStep ==
  ASSUME PairingInv, NEW c \in DOMAIN codes, PairingCodeExpires(c) PROVE PairingInv'
<1>1. codes \in Seq({"open", "over"}) /\ c \in 1..Len(codes) /\ DOMAIN codes = 1..Len(codes)
  BY DEF PairingInv, PairingTypeOK
<1>2. codes' = [codes EXCEPT ![c] = "over"] /\ UNCHANGED <<devices, screen, storedId>>
  BY DEF PairingCodeExpires
<1>3. /\ codes' \in Seq({"open", "over"}) /\ DOMAIN codes' = DOMAIN codes
      /\ \A k \in DOMAIN codes : codes'[k] = IF k = c THEN "over" ELSE codes[k]
  BY <1>1, <1>2, ExceptSeq
<1>4. \A s \in Screens : screen[s].code # c
  BY DEF PairingCodeExpires
<1> QED
  BY <1>2, <1>3, <1>4
  DEF PairingInv, PairingTypeOK, UsedIsOpen, OneUser, PairedIsOver, OneDevicePerCode, Pairing

-----------------------------------------------------------------------------
(* Pairing and devices *)

(* Whoever begins has found the row of the code free, and the code open. *)
LEMMA BeginPairingStep ==
  ASSUME PairingInv, NEW s \in Screens, NEW c \in DOMAIN codes, BeginPairing(s, c)
  PROVE  PairingInv'
<1> DEFINE r == [screen[s] EXCEPT !.pc = "pairing", !.code = c]
<1>1. screen \in [Screens -> Screen] /\ screen[s] \in Screen /\ c \in Nat
  BY DEF PairingInv, PairingTypeOK
<1>2. r \in Screen /\ r.pc = "pairing" /\ r.code = c
  BY <1>1 DEF Screen
<1>3. screen' = [screen EXCEPT ![s] = r] /\ UNCHANGED <<codes, devices, storedId>>
  BY <1>1 DEF BeginPairing
<1>4. codes[c] = "open" /\ \A t \in Screens : screen[t].code # c
  BY DEF BeginPairing
<1> HIDE DEF r
<1>5. screen' \in [Screens -> Screen] /\ \A t \in Screens : screen'[t] = IF t = s THEN r ELSE screen[t]
  BY <1>1, <1>2, <1>3
<1> QED
  BY <1>2, <1>3, <1>4, <1>5
  DEF PairingInv, PairingTypeOK, UsedIsOpen, OneUser, PairedIsOver, OneDevicePerCode, Pairing

(* The device is added and its code is over; no other screen used the code,
   and no other device has it. *)
LEMMA CommitPairingStep ==
  ASSUME PairingInv, NEW s \in Screens, CommitPairing(s) PROVE PairingInv'
<1> DEFINE c == screen[s].code
           n == Len(devices)
           new == [code |-> c, revoked |-> FALSE]
<1>1. /\ codes \in Seq({"open", "over"}) /\ DOMAIN codes = 1..Len(codes) /\ Len(codes) \in Nat
      /\ devices \in Seq(Device) /\ DOMAIN devices = 1..n /\ n \in Nat
      /\ screen \in [Screens -> Screen]
  BY DEF PairingInv, PairingTypeOK
<1>2. Pairing(s) /\ c \in DOMAIN codes /\ codes[c] = "open" /\ c \in Nat
  BY <1>1 DEF CommitPairing, PairingInv, UsedIsOpen, Pairing, Screen
<1>3. /\ codes' = [codes EXCEPT ![c] = "over"] /\ devices' = Append(devices, new)
      /\ screen' = [screen EXCEPT ![s] = HomeScreen(n + 1)] /\ storedId' = n + 1
  BY DEF CommitPairing
<1>4. new \in Device /\ new.code = c
  BY <1>2 DEF Device
<1> HIDE DEF new
<1>5. /\ codes' \in Seq({"open", "over"}) /\ DOMAIN codes' = DOMAIN codes
      /\ \A k \in DOMAIN codes : codes'[k] = IF k = c THEN "over" ELSE codes[k]
  BY <1>1, <1>2, <1>3, ExceptSeq
<1>6. /\ devices' \in Seq(Device) /\ DOMAIN devices' = 1..(n + 1)
      /\ \A d \in 1..n : devices'[d] = devices[d]
      /\ devices'[n + 1] = new
  BY <1>1, <1>3, <1>4
<1>7. /\ screen' \in [Screens -> Screen]
      /\ \A t \in Screens : IF t = s THEN screen'[t].pc = "home" ELSE screen'[t] = screen[t]
  BY <1>1, <1>3, HomeIsAScreen
<1>8. \A d \in 1..n : devices[d].code # c
  BY <1>1, <1>2 DEF PairingInv, PairedIsOver
<1>9. PairingTypeOK'
  BY <1>1, <1>3, <1>5, <1>6, <1>7 DEF PairingTypeOK
<1>10. UsedIsOpen' /\ OneUser'
  BY <1>2, <1>5, <1>7 DEF PairingInv, UsedIsOpen, OneUser, Pairing
<1>11. PairedIsOver'
  BY <1>1, <1>2, <1>4, <1>5, <1>6 DEF PairingInv, PairedIsOver
<1>12. OneDevicePerCode'
  BY <1>1, <1>4, <1>6, <1>8 DEF PairingInv, OneDevicePerCode
<1> QED
  BY <1>9, <1>10, <1>11, <1>12 DEF PairingInv

LEMMA RevokeStep ==
  ASSUME PairingInv, NEW d \in DOMAIN devices, RevokeKioskDevice(d) PROVE PairingInv'
<1> DEFINE r == [devices[d] EXCEPT !.revoked = TRUE]
<1>1. devices \in Seq(Device) /\ d \in 1..Len(devices) /\ DOMAIN devices = 1..Len(devices)
  BY DEF PairingInv, PairingTypeOK
<1>2. devices[d] \in Device
  BY <1>1
<1>3. r \in Device /\ r.code = devices[d].code
  BY <1>2 DEF Device
<1>4. devices' = [devices EXCEPT ![d] = r] /\ UNCHANGED <<codes, screen, storedId>>
  BY <1>1 DEF RevokeKioskDevice
<1> HIDE DEF r
<1>5. /\ devices' \in Seq(Device) /\ DOMAIN devices' = DOMAIN devices
      /\ \A e \in DOMAIN devices : devices'[e].code = devices[e].code
  BY <1>1, <1>3, <1>4, ExceptSeq
<1> QED
  BY <1>4, <1>5
  DEF PairingInv, PairingTypeOK, UsedIsOpen, OneUser, PairedIsOver, OneDevicePerCode, Pairing

-----------------------------------------------------------------------------
LEMMA PairingInvStep == PairingInv /\ [KioskNext]_kioskVars => PairingInv'
<1> SUFFICES ASSUME PairingInv, [KioskNext]_kioskVars PROVE PairingInv'
  OBVIOUS
<1>1. CASE \/ UNCHANGED kioskVars
           \/ \E d \in DOMAIN devices : LockoutEnds(d) \/ LockoutDropped(d)
  <2>1. UNCHANGED <<codes, devices, screen, storedId>>
    BY <1>1 DEF kioskVars, LockoutEnds, LockoutDropped
  <2> QED
    BY <2>1
    DEF PairingInv, PairingTypeOK, UsedIsOpen, OneUser, PairedIsOver, OneDevicePerCode, Pairing
<1>2. CASE \E s \in Screens : CommitPairing(s) \/ \E c \in DOMAIN codes : BeginPairing(s, c)
  BY <1>2, CommitPairingStep, BeginPairingStep
<1>3. CASE \E s \in Screens :
             \/ OpenScreen(s) \/ AcceptPin(s) \/ RefusePin(s) \/ PunchAtKiosk(s) \/ PairingFails(s)
             \/ \E e \in Someone : EnterPin(s, e)
  BY <1>3, PinStep
<1>4. CASE IssuePairingCode \/ KioskRestarts
  BY <1>4, IssueCodeStep, RestartStep
<1>5. CASE \E c \in DOMAIN codes : PairingCodeExpires(c)
  BY <1>5, ExpireStep
<1>6. CASE \E d \in DOMAIN devices : RevokeKioskDevice(d)
  BY <1>6, RevokeStep
<1> QED
  BY <1>1, <1>2, <1>3, <1>4, <1>5, <1>6 DEF KioskNext

(* However many screens send a pairing code at once, it pairs one device. *)
THEOREM OneDevicePerCodeAlways == KioskSpec => []OneDevicePerCode
<1>1. PairingInv => OneDevicePerCode
  BY DEF PairingInv
<1> QED
  BY <1>1, PairingInvInit, PairingInvStep, PTL DEF KioskSpec

-----------------------------------------------------------------------------
(* Lockouts *)

(* A bad PIN of the device is being compared. *)
ComparesBadPin(s, d) ==
  screen[s].pc = "comparing" /\ screen[s].who = Nobody /\ screen[s].device = d

BadPins(d) == {s \in Screens : ComparesBadPin(s, d)}

(* l is a lockout while bad PINs are being compared at the screens b. *)
Fits(l, b) ==
  IF l.lock = "none" THEN l.tries = l.failures /\ l.failures < BadPinLimit
  ELSE l.tries + Cardinality(b) <= BadPinLimit + Cardinality(Screens) - 1

LockoutsFit == \A d \in DOMAIN devices : Fits(lockouts[d], BadPins(d))

LockoutInv == lockouts \in [DOMAIN devices -> Lockout] /\ LockoutsFit

(* The screens that compare bad PINs can be counted. *)
LEMMA BadPinsCounted ==
  \A b \in SUBSET Screens :
    /\ IsFiniteSet(b) /\ Cardinality(b) \in Nat /\ Cardinality(Screens) \in Nat
    /\ Cardinality(b) <= Cardinality(Screens)
BY KioskAssumption, FS_Subset, FS_CardinalityType

(* Fewer bad PINs fit where more did. *)
LEMMA FewerFit ==
  ASSUME NEW l \in Lockout, NEW b \in SUBSET Screens, NEW c \in SUBSET b, Fits(l, b)
  PROVE  Fits(l, c)
<1>1. IsFiniteSet(b) /\ c \in SUBSET Screens
  BY BadPinsCounted
<1>2. Cardinality(c) <= Cardinality(b) /\ Cardinality(c) \in Nat /\ Cardinality(b) \in Nat
  BY <1>1, FS_Subset, BadPinsCounted
<1> QED
  BY <1>2, BadPinsCounted, KioskAssumption DEF Fits, Lockout

(* No bad PIN was ever counted, or the count was cleared. *)
LEMMA NoLockoutFits == NoLockout \in Lockout /\ \A b : Fits(NoLockout, b)
BY KioskAssumption DEF NoLockout, Lockout, Fits

(* The bad PIN that is counted was one of those that were being compared. *)
LEMMA CountedFits ==
  ASSUME NEW l \in Lockout, NEW b \in SUBSET Screens, NEW s \in b, Fits(l, b)
  PROVE  /\ CountBadPin(l, BadPinLimit) \in Lockout
         /\ Fits(CountBadPin(l, BadPinLimit), b \ {s})
<1>1. b \ {s} \in SUBSET Screens /\ IsFiniteSet(b)
  BY BadPinsCounted
<1>2. Cardinality(b \ {s}) = Cardinality(b) - 1
  BY <1>1, FS_RemoveElement
<1>3. /\ Cardinality(b) \in Nat /\ Cardinality(b \ {s}) \in Nat /\ Cardinality(Screens) \in Nat
      /\ Cardinality(b) <= Cardinality(Screens)
  BY <1>1, BadPinsCounted
<1>4. l.failures \in Nat /\ l.tries \in Nat /\ l.lock \in {"none", "on", "over"}
  BY DEF Lockout
<1>5. CASE l.failures + 1 >= BadPinLimit
  <2>1. CountBadPin(l, BadPinLimit) = [failures |-> 0, lock |-> "on", tries |-> l.tries + 1]
    BY <1>5 DEF CountBadPin
  <2>2. l.tries + 1 + Cardinality(b \ {s}) <= BadPinLimit + Cardinality(Screens) - 1
    BY <1>2, <1>3, <1>4, <1>5, KioskAssumption DEF Fits
  <2> QED
    BY <1>4, <2>1, <2>2 DEF Fits, Lockout
<1>6. CASE ~(l.failures + 1 >= BadPinLimit)
  <2> DEFINE m == [failures |-> l.failures + 1, lock |-> l.lock, tries |-> l.tries + 1]
  <2>1. CountBadPin(l, BadPinLimit) = m
    BY <1>6 DEF CountBadPin, Lockout
  <2>2. m \in Lockout
    BY <1>4 DEF Lockout
  <2>3. Fits(m, b \ {s})
    BY <1>2, <1>3, <1>4, <1>6, KioskAssumption DEF Fits
  <2> QED
    BY <2>1, <2>2, <2>3
<1> QED
  BY <1>5, <1>6

(* A screen that begins no comparison adds no bad PIN. *)
NoComparisonBegins ==
  \A s \in Screens : screen'[s] = screen[s] \/ screen'[s].pc # "comparing"

LEMMA BadPinsThinned ==
  ASSUME NoComparisonBegins
  PROVE  \A d : BadPins(d)' \in SUBSET BadPins(d) /\ BadPins(d) \in SUBSET Screens
BY DEF NoComparisonBegins, BadPins, ComparesBadPin

(* Steps that leave the lockouts. *)
LEMMA LockoutsKept ==
  ASSUME LockoutInv, NoComparisonBegins, UNCHANGED lockouts, DOMAIN devices' = DOMAIN devices
  PROVE  LockoutInv'
<1>1. \A d \in DOMAIN devices : Fits(lockouts[d], BadPins(d)')
  BY BadPinsThinned, FewerFit DEF LockoutInv, LockoutsFit
<1> QED
  BY <1>1 DEF LockoutInv, LockoutsFit, Fits

(* One lockout becomes l, and no bad PIN begins at another device. *)
LEMMA LockoutMoved ==
  ASSUME LockoutInv, UNCHANGED devices, NEW d, NEW l \in Lockout,
         lockouts' = [lockouts EXCEPT ![d] = l],
         d \in DOMAIN devices => Fits(l, BadPins(d)'),
         \A e : e # d => BadPins(e)' \in SUBSET BadPins(e)
  PROVE  LockoutInv'
<1>1. lockouts \in [DOMAIN devices -> Lockout]
  BY DEF LockoutInv
<1>2. /\ lockouts' \in [DOMAIN devices -> Lockout]
      /\ \A e \in DOMAIN devices : lockouts'[e] = IF e = d THEN l ELSE lockouts[e]
  BY <1>1
<1>3. \A e \in DOMAIN devices : Fits(lockouts'[e], BadPins(e)')
  <2> SUFFICES ASSUME NEW e \in DOMAIN devices PROVE Fits(lockouts'[e], BadPins(e)')
    OBVIOUS
  <2>1. CASE e = d
    BY <1>2, <2>1
  <2>2. CASE e # d
    <3>1. BadPins(e) \in SUBSET Screens /\ BadPins(e)' \in SUBSET BadPins(e)
      BY <2>2 DEF BadPins
    <3>2. Fits(lockouts[e], BadPins(e)) /\ lockouts[e] \in Lockout
      BY <1>1 DEF LockoutInv, LockoutsFit
    <3> QED
      BY <1>2, <2>2, <3>1, <3>2, FewerFit
  <2> QED
    BY <2>1, <2>2
<1> QED
  BY <1>2, <1>3 DEF LockoutInv, LockoutsFit, Fits

(* Whoever starts a comparison has found the device without a lockout, or has
   cleared one whose time was over. *)
LEMMA EnterPinStep ==
  ASSUME PairingInv, LockoutInv, NEW s \in Screens, NEW e \in Someone, EnterPin(s, e)
  PROVE  LockoutInv'
<1>d. PICK d : d = screen[s].device
  OBVIOUS
<1> DEFINE l == IF lockouts[d].lock = "over" THEN NoLockout ELSE lockouts[d]
           r == [screen[s] EXCEPT !.pc = "comparing", !.who = e]
<1>1. screen \in [Screens -> Screen] /\ screen[s] \in Screen
  BY DEF PairingInv, PairingTypeOK
<1>2. /\ screen' = [screen EXCEPT ![s] = r] /\ lockouts' = [lockouts EXCEPT ![d] = l]
      /\ UNCHANGED devices /\ lockouts[d].lock # "on"
  BY <1>1, <1>d DEF EnterPin
<1>3. r.device = d
  BY <1>1, <1>d DEF Screen
<1> HIDE DEF r
<1>4. \A k : k # d => BadPins(k)' \in SUBSET BadPins(k)
  BY <1>1, <1>2, <1>3 DEF BadPins, ComparesBadPin
<1>5. CASE d \in DOMAIN devices
  <2>1. lockouts[d] \in Lockout /\ Fits(lockouts[d], BadPins(d))
    BY <1>5 DEF LockoutInv, LockoutsFit
  <2>2. lockouts[d].lock = "none" => Fits(lockouts[d], BadPins(d)')
    BY <2>1 DEF Fits
  <2>3. l \in Lockout /\ Fits(l, BadPins(d)')
    BY <1>2, <2>1, <2>2, NoLockoutFits DEF Lockout
  <2> HIDE DEF l
  <2> QED
    BY <1>2, <1>4, <2>3, LockoutMoved
<1>6. CASE d \notin DOMAIN devices
  <2>1. lockouts' = [lockouts EXCEPT ![d] = NoLockout]
    BY <1>2, <1>6 DEF LockoutInv
  <2> HIDE DEF l
  <2> QED
    BY <1>2, <1>4, <1>6, <2>1, NoLockoutFits, LockoutMoved
<1> QED
  BY <1>5, <1>6

LEMMA RefusePinStep ==
  ASSUME PairingInv, LockoutInv, NEW s \in Screens, RefusePin(s)
  PROVE  LockoutInv'
<1> DEFINE d == screen[s].device
           l == CountBadPin(lockouts[d], BadPinLimit)
<1>1. screen \in [Screens -> Screen] /\ screen[s] \in Screen
  BY DEF PairingInv, PairingTypeOK
<1>2. /\ screen' = [screen EXCEPT ![s] = HomeScreen(d)] /\ lockouts' = [lockouts EXCEPT ![d] = l]
      /\ UNCHANGED devices /\ s \in BadPins(d)
  BY DEF RefusePin, RefusePinTo, BadPins, ComparesBadPin
<1>3. \A k : BadPins(k)' = BadPins(k) \ {s}
  BY <1>1, <1>2 DEF BadPins, ComparesBadPin, HomeScreen
<1>4. \A k : k # d => BadPins(k)' \in SUBSET BadPins(k)
  BY <1>3
<1>5. CASE d \in DOMAIN devices
  <2>1. lockouts[d] \in Lockout /\ Fits(lockouts[d], BadPins(d)) /\ BadPins(d) \in SUBSET Screens
    BY <1>5 DEF LockoutInv, LockoutsFit, BadPins
  <2>2. l \in Lockout /\ Fits(l, BadPins(d) \ {s})
    BY <1>2, <2>1, CountedFits
  <2> HIDE DEF l, d
  <2> QED
    BY <1>2, <1>3, <1>4, <2>2, LockoutMoved
<1>6. CASE d \notin DOMAIN devices
  <2>1. lockouts' = [lockouts EXCEPT ![d] = NoLockout]
    BY <1>2, <1>6 DEF LockoutInv
  <2> HIDE DEF l, d
  <2> QED
    BY <1>2, <1>4, <1>6, <2>1, NoLockoutFits, LockoutMoved
<1> QED
  BY <1>5, <1>6

(* The right PIN clears the lockout, and so does time. *)
LEMMA ClearStep ==
  ASSUME PairingInv, LockoutInv,
         (\E s \in Screens : AcceptPin(s)) \/ \E d \in DOMAIN devices : LockoutDropped(d)
  PROVE  LockoutInv'
<1>1. PICK d : lockouts' = [lockouts EXCEPT ![d] = NoLockout]
  BY DEF AcceptPin, LockoutDropped
<1>2. screen \in [Screens -> Screen] /\ UNCHANGED devices
  BY DEF AcceptPin, LockoutDropped, PairingInv, PairingTypeOK
<1>3. NoComparisonBegins
  BY <1>2 DEF NoComparisonBegins, AcceptPin, LockoutDropped, Screen
<1> QED
  BY <1>1, <1>2, <1>3, BadPinsThinned, NoLockoutFits, LockoutMoved

(* A lockout whose time is over bounds the tries until it is cleared. *)
LEMMA LockoutEndsStep ==
  ASSUME LockoutInv, NEW d \in DOMAIN devices, LockoutEnds(d)
  PROVE  LockoutInv'
<1> DEFINE l == [lockouts[d] EXCEPT !.lock = "over"]
<1>1. lockouts[d] \in Lockout /\ Fits(lockouts[d], BadPins(d)) /\ lockouts[d].lock = "on"
  BY DEF LockoutInv, LockoutsFit, LockoutEnds
<1>2. l \in Lockout /\ Fits(l, BadPins(d))
  BY <1>1 DEF Lockout, Fits
<1>3. lockouts' = [lockouts EXCEPT ![d] = l] /\ UNCHANGED <<devices, screen>>
  BY DEF LockoutEnds
<1>4. \A e : BadPins(e)' = BadPins(e)
  BY <1>3 DEF BadPins, ComparesBadPin
<1> HIDE DEF l
<1> QED
  BY <1>2, <1>3, <1>4, LockoutMoved

(* A new device has no lockout, and its screen is at home. *)
LEMMA NewDeviceStep ==
  ASSUME PairingInv, LockoutInv, NEW s \in Screens, CommitPairing(s)
  PROVE  LockoutInv'
<1> DEFINE n == Len(devices)
<1>1. /\ devices \in Seq(Device) /\ DOMAIN devices = 1..n /\ n \in Nat
      /\ screen \in [Screens -> Screen] /\ lockouts \in [1..n -> Lockout]
  BY DEF PairingInv, PairingTypeOK, LockoutInv
<1>2. lockouts \in Seq(Lockout) /\ Len(lockouts) = n
  BY <1>1
<1>3. /\ lockouts' = Append(lockouts, NoLockout)
      /\ devices' = Append(devices, [code |-> screen[s].code, revoked |-> FALSE])
      /\ screen' = [screen EXCEPT ![s] = HomeScreen(n + 1)]
  BY DEF CommitPairing
<1>4. DOMAIN devices' = 1..(n + 1)
  BY <1>1, <1>3
<1>5. /\ lockouts' \in [1..(n + 1) -> Lockout] /\ lockouts'[n + 1] = NoLockout
      /\ \A d \in 1..n : lockouts'[d] = lockouts[d]
  <2>1. lockouts' \in Seq(Lockout) /\ Len(lockouts') = n + 1
    BY <1>2, <1>3, NoLockoutFits
  <2>2. lockouts'[n + 1] = NoLockout /\ \A d \in 1..n : lockouts'[d] = lockouts[d]
    BY <1>1, <1>2, <1>3
  <2> QED
    BY <2>1, <2>2
<1>6. NoComparisonBegins
  BY <1>1, <1>3 DEF NoComparisonBegins, HomeScreen
<1>7. \A d \in 1..n : Fits(lockouts[d], BadPins(d)')
  BY <1>1, <1>6, BadPinsThinned, FewerFit DEF LockoutInv, LockoutsFit
<1>8. \A d \in 1..(n + 1) : Fits(lockouts'[d], BadPins(d)')
  BY <1>1, <1>5, <1>7, NoLockoutFits
<1> QED
  BY <1>4, <1>5, <1>8 DEF LockoutInv, LockoutsFit, Fits

(* Every step of the screens, of time and of the process keeps the lockouts. *)
LEMMA LockoutInvStep == PairingInv /\ LockoutInv /\ [KioskNext]_kioskVars => LockoutInv'
<1> SUFFICES ASSUME PairingInv, LockoutInv, [KioskNext]_kioskVars PROVE LockoutInv'
  OBVIOUS
<1>1. screen \in [Screens -> Screen]
  BY DEF PairingInv, PairingTypeOK
<1>2. CASE \/ UNCHANGED kioskVars \/ IssuePairingCode
           \/ \E c \in DOMAIN codes : PairingCodeExpires(c)
  BY <1>2, LockoutsKept DEF kioskVars, IssuePairingCode, PairingCodeExpires, NoComparisonBegins
<1>3. CASE \E d \in DOMAIN devices : RevokeKioskDevice(d)
  <2>1. DOMAIN devices' = DOMAIN devices /\ NoComparisonBegins /\ UNCHANGED lockouts
    BY <1>3 DEF RevokeKioskDevice, NoComparisonBegins
  <2> QED
    BY <2>1, LockoutsKept
<1>4. CASE \E s \in Screens : \/ PairingFails(s) \/ OpenScreen(s) \/ PunchAtKiosk(s)
                              \/ \E c \in DOMAIN codes : BeginPairing(s, c)
  <2>1. UNCHANGED <<devices, lockouts>>
    BY <1>4 DEF PairingFails, OpenScreen, PunchAtKiosk, BeginPairing
  <2>2. NoComparisonBegins
    BY <1>1, <1>4
    DEF NoComparisonBegins, PairingFails, OpenScreen, PunchAtKiosk, BeginPairing, HomeScreen, Screen
  <2> QED
    BY <2>1, <2>2, LockoutsKept
<1>5. CASE \E s \in Screens : CommitPairing(s)
  BY <1>5, NewDeviceStep
<1>6. CASE \E s \in Screens : RefusePin(s) \/ \E e \in Someone : EnterPin(s, e)
  BY <1>6, RefusePinStep, EnterPinStep
<1>7. CASE \/ \E s \in Screens : AcceptPin(s)
           \/ \E d \in DOMAIN devices : LockoutDropped(d) \/ LockoutEnds(d)
  BY <1>7, ClearStep, LockoutEndsStep
<1>8. CASE KioskRestarts
  <2>1. lockouts' = [d \in DOMAIN devices |-> NoLockout] /\ UNCHANGED devices
    BY <1>8 DEF KioskRestarts
  <2>2. \A d \in DOMAIN devices : lockouts'[d] = NoLockout
    BY <2>1
  <2>3. \A d \in DOMAIN devices : Fits(lockouts'[d], BadPins(d)')
    BY <2>2, NoLockoutFits
  <2> QED
    BY <2>1, <2>3, NoLockoutFits DEF LockoutInv, LockoutsFit, Fits
<1> QED
  BY <1>2, <1>3, <1>4, <1>5, <1>6, <1>7, <1>8 DEF KioskNext

(* The bound follows, whether a lockout is on or not. *)
LEMMA LockoutInvGives == LockoutInv => BadPinsBounded
<1> SUFFICES ASSUME LockoutInv, NEW d \in DOMAIN devices
             PROVE  lockouts[d].tries <= BadPinLimit + Cardinality(Screens) - 1
  BY DEF BadPinsBounded
<1>1. lockouts[d] \in Lockout /\ Fits(lockouts[d], BadPins(d)) /\ BadPins(d) \in SUBSET Screens
  BY DEF LockoutInv, LockoutsFit, BadPins
<1>2. Cardinality(BadPins(d)) \in Nat /\ Cardinality(Screens) \in Nat
  BY <1>1, BadPinsCounted
<1> QED
  BY <1>1, <1>2, KioskAssumption DEF Fits, Lockout

LEMMA LockoutInvInit == KioskInit => LockoutInv
BY DEF KioskInit, LockoutInv, LockoutsFit

(* However many screens share a device, and however their comparisons and the
   restarts of the process fall: until a lockout is cleared, no more bad PINs
   are accepted than the limit and those that were being compared at once. *)
THEOREM BadPinsBoundedAlways == KioskSpec => []BadPinsBounded
<1>1. LockoutInv => BadPinsBounded
  BY LockoutInvGives
<1>2. KioskInit => PairingInv /\ LockoutInv
  BY PairingInvInit, LockoutInvInit
<1>3. PairingInv /\ LockoutInv /\ [KioskNext]_kioskVars => PairingInv' /\ LockoutInv'
  BY PairingInvStep, LockoutInvStep
<1> QED
  BY <1>1, <1>2, <1>3, PTL DEF KioskSpec

-----------------------------------------------------------------------------
(* The tablet's screen *)

TabletInv == TabletTypeOK /\ HomeIsClean

LEMMA TabletInvInit == TabletInit => TabletInv
<1> SUFFICES ASSUME TabletInit PROVE TabletInv
  OBVIOUS
<1>1. scanInFlight \in BOOLEAN /\ idleTimer \in BOOLEAN /\ connected \in BOOLEAN
  BY Zenon DEF TabletInit
<1>2. authMode \in AuthModes /\ shown \in {"pin", "scan"} /\ identified = NoPatron
  BY DEF TabletInit, DefaultScreen
<1>3. asked \in [{"verify", "scan", "punch"} -> Asking] /\ \A kind \in DOMAIN asked : asked[kind] = NotAsking
  BY DEF TabletInit, Asking, NotAsking
<1>4. scanInFlight = FALSE
  BY DEF TabletInit
<1> QED
  BY <1>1, <1>2, <1>3, <1>4 DEF TabletInv, TabletTypeOK, HomeIsClean, NotAsking

(* What somebody does at the tablet. *)
LEMMA PatronStep ==
  ASSUME TabletInv,
         \/ Touch \/ UseTheOther \/ PressPunch \/ AskAboutLunch \/ Dismiss
         \/ \E who \in Patrons \cup {NoPatron} : SubmitPin(who) \/ HandleDecode(who)
  PROVE  TabletInv'
<1> USE DEF TabletInv, TabletTypeOK, HomeIsClean, AtHome, Asking, Mutate
<1>1. CASE Touch
  BY <1>1 DEF Touch
<1>2. CASE UseTheOther
  BY <1>2 DEF UseTheOther
<1>3. CASE PressPunch
  BY <1>3 DEF PressPunch
<1>4. CASE AskAboutLunch
  BY <1>4 DEF AskAboutLunch
<1>5. CASE Dismiss
  BY <1>5 DEF Dismiss, ResetToPin, DefaultScreen, AuthModes
<1>6. ASSUME NEW who \in Patrons \cup {NoPatron}, SubmitPin(who) PROVE TabletInv'
  BY <1>6 DEF SubmitPin
<1>7. ASSUME NEW who \in Patrons \cup {NoPatron}, HandleDecode(who) PROVE TabletInv'
  BY <1>7 DEF HandleDecode
<1> QED
  BY <1>1, <1>2, <1>3, <1>4, <1>5, <1>6, <1>7

(* Timers, answers and the network. *)
LEMMA TabletStep ==
  ASSUME TabletInv,
         \/ IdleFires \/ CountdownEnds \/ VerifyFails \/ ScanFails \/ PunchDone \/ PunchFails
         \/ GoesOffline \/ GoesOnline \/ PageLoads
         \/ \E kind \in {"verify", "scan"} : Identify(kind)
         \/ \E mode \in AuthModes : ModeChanges(mode)
  PROVE  TabletInv'
<1> USE DEF TabletInv, TabletTypeOK, HomeIsClean, AtHome, Asking, NotAsking, Answered
<1> USE DEF ResetToPin, DefaultScreen, AuthModes
<1>1. CASE IdleFires
  BY <1>1 DEF IdleFires
<1>2. CASE CountdownEnds
  BY <1>2 DEF CountdownEnds
<1>3. CASE VerifyFails
  BY <1>3 DEF VerifyFails
<1>4. CASE ScanFails
  BY <1>4 DEF ScanFails
<1>5. CASE PunchDone
  BY <1>5 DEF PunchDone
<1>6. CASE PunchFails
  BY <1>6 DEF PunchFails
<1>7. CASE GoesOffline
  BY <1>7 DEF GoesOffline
<1>8. CASE GoesOnline
  BY <1>8 DEF GoesOnline
<1>9. CASE PageLoads
  BY <1>9 DEF PageLoads
<1>10. ASSUME NEW kind \in {"verify", "scan"}, Identify(kind) PROVE TabletInv'
  BY <1>10 DEF Identify
<1>11. ASSUME NEW mode \in AuthModes, ModeChanges(mode) PROVE TabletInv'
  BY <1>11 DEF ModeChanges
<1> QED
  BY <1>1, <1>2, <1>3, <1>4, <1>5, <1>6, <1>7, <1>8, <1>9, <1>10, <1>11

LEMMA TabletInvStep == TabletInv /\ [TabletNext]_tabletVars => TabletInv'
<1> SUFFICES ASSUME TabletInv, [TabletNext]_tabletVars PROVE TabletInv'
  OBVIOUS
<1>1. CASE TabletNext
  BY <1>1, PatronStep, TabletStep DEF TabletNext
<1>2. CASE UNCHANGED tabletVars
  BY <1>2 DEF tabletVars, TabletInv, TabletTypeOK, HomeIsClean, AtHome
<1> QED
  BY <1>1, <1>2

(* Whenever answers arrive and timers fire: a tablet at home has no session,
   and its scanner waits for an answer or for a badge. *)
THEOREM HomeIsCleanAlways == TabletSpec => []HomeIsClean
<1>1. TabletInv => HomeIsClean
  BY DEF TabletInv
<1> QED
  BY <1>1, TabletInvInit, TabletInvStep, PTL DEF TabletSpec
=============================================================================
