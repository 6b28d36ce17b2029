------------------------- MODULE OfflineQueue_proofs -------------------------
(***************************************************************************)
(* A saved punch is replayed in its turn, for any users and drains, any    *)
(* number of taps, and any loss, expiry, reload and change of hands.       *)
(*                                                                         *)
(* That a punch is carried out twice only after a lost answer or a removal *)
(* that failed (AppliedOnce) and that none overtakes an older one          *)
(* (OldestFirst) hold only because of what a drain still has to send:      *)
(* QueueInv says which part of the queue that is, who may ask for which    *)
(* punch, and what the server has made of each punch that somebody asks    *)
(* for or that waits for its turn.                                         *)
(***************************************************************************)
EXTENDS OfflineQueue, WellFoundedInduction, SequenceTheorems, TLAPS

-----------------------------------------------------------------------------
(* The inductive invariant *)

(* A caller of apiFetch is between its request and what it does with the
   answer. *)
Asked(c) == req[c].pc # "idle"

(* Types: TypeOK less its last conjunct, which follows from PageFirst. *)
Types ==
  /\ session \in Users \cup {Null} /\ refresh \in Users \cup {Null}
  /\ expired \in BOOLEAN /\ online \in BOOLEAN
  /\ taps \in Seq(Tapped)
  /\ queue \subseteq 1..Len(taps)
  /\ drain \in [Drains -> Drain]
  /\ req \in [Callers -> ApiCall]
  /\ clock \in [Users -> {"off", "work", "break"}]

(* What waits for a turn: saved, or listed by a drain. *)
Pending == queue \cup UNION {drain[d].todo : d \in Drains}

IdleIsNone == \A c \in Callers : ~Asked(c) => req[c] = NoRequest

OneDrain ==
  \A c, d \in Drains : drain[c].pc # "idle" /\ drain[d].pc # "idle" => c = d

(* A drain has listed the older part of the queue, and asks for the oldest
   of it. *)
Turn(d) ==
  /\ drain[d].pc # "sending" => drain[d].todo = {}
  /\ drain[d].todo \subseteq 1..Len(taps)
  /\ Asked(d) =>
       /\ drain[d].pc = "sending"
       /\ req[d].tap \in drain[d].todo
       /\ \A k \in drain[d].todo : req[d].tap <= k
  /\ drain[d].pc = "sending" =>
       \A i \in queue \ drain[d].todo, k \in drain[d].todo : k < i

(* The page asks for the last punch, which is not saved yet. *)
PageFirst ==
  Asked(Page) =>
    req[Page].tap = Len(taps) /\ Len(taps) > 0 /\ req[Page].tap \notin Pending

(* The server has carried out a punch that somebody asks for once if it has
   answered so, and otherwise not at all, unless it is one that was sent
   again after a lost answer or a removal that failed. *)
HasAnswer(c) ==
  Asked(c) =>
    \/ taps[req[c].tap].lost \/ taps[req[c].tap].kept
    \/ taps[req[c].tap].applied = IF req[c].pc = "ok" THEN 1 ELSE 0

Untried(i) ==
  (\A c \in Callers : Asked(c) => req[c].tap # i) => taps[i].lost \/ taps[i].kept \/ taps[i].applied = 0

QueueInv ==
  /\ Types
  /\ IdleIsNone /\ OneDrain /\ PageFirst
  /\ \A d \in Drains : Turn(d)
  /\ \A c \in Callers : HasAnswer(c)
  /\ \A i \in Pending : Untried(i)
  /\ AppliedOnce

-----------------------------------------------------------------------------
(* What the invariant gives *)

(* The oldest of a set of taps is one of them, and none is older. *)
LEMMA LeastExists ==
  ASSUME NEW ids \in SUBSET Nat, ids # {}
  PROVE  /\ Oldest(ids) \in ids
         /\ \A k \in ids : Oldest(ids) <= k
<1>1. IsWellFoundedOn(OpToRel(<, Nat), Nat) BY NatLessThanWellFounded
<1>2. PICK i \in ids : \A k \in ids : ~(<<k, i>> \in OpToRel(<, Nat)) BY <1>1, WFMin
<1>3. \A k \in ids : ~(k < i) BY <1>2 DEF OpToRel
<1>4. \A k \in ids : i <= k BY <1>3
<1> QED BY <1>4 DEF Oldest

LEMMA TapsLength ==
  ASSUME Types
  PROVE  Len(taps) \in Nat /\ DOMAIN taps = 1..Len(taps)
         /\ \A i \in 1..Len(taps) : taps[i] \in Tapped
BY LenProperties, ElementOfSeq DEF Types

(* The invariant implies the two properties of the run. *)
LEMMA QueueInvGives ==
  ASSUME QueueInv
  PROVE  TypeOK /\ ReplayedInTurn
<1>1. Len(taps) \in Nat BY TapsLength DEF QueueInv
<1>2. req[Page].tap \notin queue
  <2>1. CASE Asked(Page) BY <2>1 DEF QueueInv, PageFirst, Pending
  <2>2. CASE ~Asked(Page)
    <3>1. req[Page].tap = 0 BY <2>2 DEF QueueInv, IdleIsNone, NoRequest, Callers
    <3> QED BY <1>1, <3>1 DEF QueueInv, Types
  <2> QED BY <2>1, <2>2
<1>3. ASSUME NEW d \in Drains, Asked(d), NEW i \in queue
      PROVE  req[d].tap <= i
  <2>1. Turn(d) /\ queue \subseteq 1..Len(taps) BY DEF QueueInv, Types
  <2>2. req[d].tap \in Nat /\ i \in Nat BY <1>1, <1>3, <2>1 DEF Turn
  <2>3. CASE i \in drain[d].todo BY <1>3, <2>1, <2>3 DEF Turn
  <2>4. CASE i \notin drain[d].todo
    <3>1. req[d].tap < i BY <1>3, <2>1, <2>4 DEF Turn
    <3> QED BY <2>2, <3>1
  <2> QED BY <2>3, <2>4
<1> QED BY <1>2, <1>3 DEF QueueInv, Types, TypeOK, ReplayedInTurn, OldestFirst, Asked

(* Whoever asks, asks for a punch that was tapped. *)
LEMMA AskedTapped ==
  ASSUME QueueInv, NEW c \in Callers, Asked(c)
  PROVE  req[c].tap \in 1..Len(taps)
<1>1. Len(taps) \in Nat BY TapsLength DEF QueueInv
<1>2. CASE c = Page BY <1>1, <1>2 DEF QueueInv, PageFirst
<1>3. CASE c \in Drains BY <1>3 DEF QueueInv, Turn
<1> QED BY <1>2, <1>3 DEF Callers

(* No two callers ask for the same punch. *)
LEMMA AskedOnce ==
  ASSUME QueueInv, NEW c \in Callers, NEW e \in Callers,
         Asked(c), Asked(e), req[c].tap = req[e].tap
  PROVE  c = e
<1>1. ASSUME NEW d \in Drains, Asked(d)
      PROVE  drain[d].pc = "sending" /\ req[d].tap \in Pending
  BY <1>1 DEF QueueInv, Turn, Pending
<1>2. CASE c \in Drains /\ e \in Drains BY <1>1, <1>2 DEF QueueInv, OneDrain
<1>3. Asked(Page) => req[Page].tap \notin Pending BY DEF QueueInv, PageFirst
<1> QED BY <1>1, <1>2, <1>3 DEF Callers

-----------------------------------------------------------------------------
(* Initially, and the steps that move no punch *)

LEMMA QueueInvInit == Init => QueueInv
<1> SUFFICES ASSUME Init PROVE QueueInv
  OBVIOUS
<1>1. Len(taps) = 0 /\ DOMAIN taps = {} /\ taps \in Seq(Tapped)
  BY LenProperties DEF Init
<1>2. NoRequest \in ApiCall /\ NoDrain \in Drain
  BY DEF NoRequest, ApiCall, NoDrain, Drain
<1>3. Types BY <1>1, <1>2 DEF Init, Types
<1>4. \A c \in Callers : ~Asked(c) BY DEF Init, Asked, NoRequest
<1>5. \A d \in Drains : drain[d].pc = "idle" /\ drain[d].todo = {} BY DEF Init, NoDrain
<1>6. Pending = {} BY <1>5 DEF Init, Pending
<1>7. \A d \in Drains : Turn(d)
  BY <1>4, <1>5 DEF Turn, Callers
<1>8. IdleIsNone BY DEF Init, IdleIsNone
<1> QED
  BY <1>1, <1>3, <1>4, <1>5, <1>6, <1>7, <1>8
  DEF QueueInv, OneDrain, PageFirst, HasAnswer, AppliedOnce, Callers

(* A new drain begins only when there is none: it has listed nothing. *)
LEMMA BegunDrain ==
  ASSUME QueueInv, CanDrain, drain' = Begun(drain)
  PROVE  /\ drain' \in [Drains -> Drain]
         /\ \A d \in Drains : drain'[d].todo = {} /\ drain'[d].pc # "sending"
         /\ \A d \in Drains : ~Asked(d)
         /\ OneDrain'
<1>1. \A d \in Drains : drain[d].pc = "idle" /\ drain[d].todo = {} /\ ~Asked(d)
  BY DEF QueueInv, Turn, CanDrain
<1> DEFINE new == CHOOSE d \in Drains : drain[d].pc = "idle"
           listing == [pc |-> "listing", todo |-> {}]
<1>2. PICK n : n = new OBVIOUS
<1>3. drain' = [drain EXCEPT ![n] = listing] BY <1>2 DEF Begun
<1>4. listing \in Drain BY DEF Drain
<1>5. drain \in [Drains -> Drain] BY DEF QueueInv, Types
<1> HIDE DEF listing
<1>6. \A d \in Drains : drain'[d] = IF d = n THEN listing ELSE drain[d] BY <1>3, <1>5
<1>7. drain' \in [Drains -> Drain] BY <1>3, <1>4, <1>5
<1> QED BY <1>1, <1>6, <1>7 DEF listing, OneDrain

(* What is asked for stays asked for. *)
SameAsked ==
  \A c \in Callers : /\ Asked(c)' <=> Asked(c)
                     /\ req'[c].tap = req[c].tap
                     /\ ~Asked(c) => req'[c] = req[c]

(* The server touches only what is asked for. *)
OthersUntouched ==
  \A i \in 1..Len(taps) :
    (\A c \in Callers : Asked(c) => req[c].tap # i) => taps'[i] = taps[i]

AllAnswered == \A c \in Callers : HasAnswer(c)

(* The steps that neither save, list, send, settle nor drop a punch: what
   is asked for stays, the queue loses at most some of it, and the server
   touches only a punch that somebody asks for. *)
LEMMA QuietStep ==
  ASSUME QueueInv, Types',
         Len(taps') = Len(taps),
         queue' \subseteq queue,
         drain' = drain \/ (CanDrain /\ drain' = Begun(drain)),
         SameAsked, OthersUntouched, AllAnswered'
  PROVE  QueueInv'
<1> USE DEF SameAsked, OthersUntouched, AllAnswered
<1>1. Len(taps) \in Nat /\ DOMAIN taps = 1..Len(taps) BY TapsLength DEF QueueInv
<1>2. DOMAIN taps' = 1..Len(taps) BY LenProperties DEF Types
<1>3. /\ \A d \in Drains : drain'[d].todo \subseteq drain[d].todo
      /\ OneDrain'
  BY BegunDrain DEF QueueInv, OneDrain
<1>4. Pending' \subseteq Pending BY <1>3 DEF Pending
<1>5. IdleIsNone' BY DEF QueueInv, IdleIsNone
<1>6. PageFirst' BY <1>4 DEF QueueInv, PageFirst, Callers
<1>7. ASSUME NEW d \in Drains PROVE Turn(d)'
  <2>1. Turn(d) /\ queue' \subseteq queue BY DEF QueueInv
  <2>2. d \in Callers BY DEF Callers
  <2>3. CASE drain' = drain BY <2>1, <2>2, <2>3 DEF Turn
  <2>4. CASE CanDrain /\ drain' = Begun(drain) BY <2>2, <2>4, BegunDrain DEF Turn
  <2> QED BY <2>3, <2>4
<1>8. Pending \subseteq 1..Len(taps) BY DEF QueueInv, Types, Turn, Pending
<1>9. ASSUME NEW i \in Pending' PROVE Untried(i)'
  <2>1. i \in Pending /\ i \in 1..Len(taps) /\ Untried(i) BY <1>4, <1>8 DEF QueueInv
  <2> QED BY <2>1 DEF Untried
<1>10. AppliedOnce'
  <2> SUFFICES ASSUME NEW i \in 1..Len(taps), taps'[i].applied > 1 PROVE taps'[i].lost \/ taps'[i].kept
    BY <1>2 DEF AppliedOnce
  <2>1. CASE \E c \in Callers : Asked(c) /\ req[c].tap = i
    BY <2>1 DEF HasAnswer
  <2>2. CASE \A c \in Callers : Asked(c) => req[c].tap # i
    BY <1>1, <2>2 DEF QueueInv, AppliedOnce
  <2> QED BY <2>1, <2>2
<1> QED BY <1>3, <1>5, <1>6, <1>7, <1>9, <1>10 DEF QueueInv
(* A punch is changed in place. *)
LEMMA TapChanged ==
  ASSUME Types, NEW i \in 1..Len(taps), NEW t \in Tapped,
         taps' = [taps EXCEPT ![i] = t]
  PROVE  /\ taps' \in Seq(Tapped)
         /\ Len(taps') = Len(taps)
         /\ taps'[i] = t
         /\ \A k \in 1..Len(taps) : k # i => taps'[k] = taps[k]
<1>1. taps \in Seq(Tapped) BY DEF Types
<1>2. taps' \in Seq(Tapped) /\ Len(taps') = Len(taps) BY <1>1, ExceptSeq
<1>3. DOMAIN taps = 1..Len(taps) BY <1>1, LenProperties
<1> QED BY <1>2, <1>3

(* A request goes on to pc. *)
LEMMA RequestMoved ==
  ASSUME Types, NEW c \in Callers,
         NEW pc \in {"sent", "ok", "refused", "refreshing", "denied", "lost"},
         Asked(c), req' = [req EXCEPT ![c].pc = pc]
  PROVE  /\ req' \in [Callers -> ApiCall]
         /\ req'[c].pc = pc
         /\ SameAsked
         /\ \A e \in Callers : e # c => req'[e] = req[e]
<1>1. req \in [Callers -> ApiCall] BY DEF Types
<1>2. [req[c] EXCEPT !.pc = pc] \in ApiCall BY <1>1 DEF ApiCall
<1>3. req' = [req EXCEPT ![c] = [req[c] EXCEPT !.pc = pc]] OBVIOUS
<1>4. req' \in [Callers -> ApiCall] BY <1>1, <1>2, <1>3
<1>5. req'[c] = [req[c] EXCEPT !.pc = pc] BY <1>1, <1>3
<1>6. req'[c].pc = pc /\ req'[c].tap = req[c].tap BY <1>1, <1>5 DEF ApiCall
<1>7. \A e \in Callers : e # c => req'[e] = req[e] BY <1>1, <1>3
<1> QED BY <1>4, <1>6, <1>7 DEF Asked, SameAsked

LEMMA DecideStep ==
  ASSUME QueueInv, NEW c \in Callers, Decide(c)
  PROVE  QueueInv'
<1> DEFINE i == req[c].tap
<1>1. Types /\ Asked(c) /\ req[c].pc = "sent" BY DEF QueueInv, Decide, Asked
<1>2. i \in 1..Len(taps) BY <1>1, AskedTapped
<1>3. taps[i] \in Tapped /\ Len(taps) \in Nat BY <1>1, <1>2, TapsLength
<1>4. taps[i].lost \/ taps[i].kept \/ taps[i].applied = 0 BY <1>1 DEF QueueInv, HasAnswer
<1>5. \A e \in Callers : e # c /\ Asked(e) => req[e].tap # i BY <1>1, AskedOnce
<1>6. UNCHANGED <<session, expired, refresh, online, queue, drain>> BY DEF Decide
<1>7. req[c].as \in Users \/ req[c].as = Null BY <1>1 DEF Types, ApiCall
<1>8. CASE /\ CanPunch(taps[i].op, clock[req[c].as])
           /\ clock' = [clock EXCEPT ![req[c].as] = Punched(taps[i].op)]
           /\ taps' = [taps EXCEPT ![i].applied = Twice(@)]
           /\ req' = [req EXCEPT ![c].pc = "ok"]
  <2> DEFINE t == [taps[i] EXCEPT !.applied = Twice(@)]
  <2>1. Twice(taps[i].applied) \in 0..2 BY <1>3 DEF Twice, Tapped
  <2>2. t \in Tapped BY <1>3, <2>1 DEF Tapped
  <2>3. taps' = [taps EXCEPT ![i] = t] BY <1>8
  <2>4. t.lost = taps[i].lost /\ t.kept = taps[i].kept /\ t.applied = Twice(taps[i].applied) BY <1>3 DEF Tapped
  <2> HIDE DEF t
  <2>5. /\ taps' \in Seq(Tapped) /\ Len(taps') = Len(taps) /\ taps'[i] = t
        /\ \A k \in 1..Len(taps) : k # i => taps'[k] = taps[k]
    BY <1>1, <1>2, <2>2, <2>3, TapChanged
  <2>6. /\ req' \in [Callers -> ApiCall] /\ req'[c].pc = "ok"
        /\ SameAsked /\ \A e \in Callers : e # c => req'[e] = req[e]
    BY <1>1, <1>8, RequestMoved
  <2>7. clock' \in [Users -> {"off", "work", "break"}] BY <1>1, <1>8 DEF Types, Punched
  <2>8. Types' BY <1>1, <1>6, <2>5, <2>6, <2>7 DEF Types
  <2>9. ASSUME NEW e \in Callers PROVE HasAnswer(e)'
    <3>1. CASE e = c
      <4>1. taps'[i].lost \/ taps'[i].kept \/ taps'[i].applied = 1
        BY <1>4, <2>4, <2>5 DEF Twice
      <4> QED BY <3>1, <4>1, <2>6 DEF HasAnswer, SameAsked
    <3>2. CASE e # c /\ Asked(e)
      <4>1. req[e].tap \in 1..Len(taps) /\ req[e].tap # i BY <3>2, <1>5, AskedTapped
      <4>2. taps'[req[e].tap] = taps[req[e].tap] BY <4>1, <2>5
      <4> QED BY <3>2, <4>2, <2>6 DEF QueueInv, HasAnswer, SameAsked
    <3>3. CASE ~Asked(e) BY <3>3, <2>6 DEF HasAnswer, SameAsked
    <3> QED BY <3>1, <3>2, <3>3
  <2>10. OthersUntouched BY <1>1, <2>5 DEF OthersUntouched
  <2>11. AllAnswered' BY <2>9 DEF AllAnswered
  <2> QED BY <1>6, <2>5, <2>6, <2>8, <2>10, <2>11, QuietStep
<1>9. CASE req' = [req EXCEPT ![c].pc = "refused"] /\ UNCHANGED <<taps, clock>>
  <2>1. /\ req' \in [Callers -> ApiCall] /\ req'[c].pc = "refused"
        /\ SameAsked /\ \A e \in Callers : e # c => req'[e] = req[e]
    BY <1>1, <1>9, RequestMoved
  <2>2. Types' BY <1>1, <1>6, <1>9, <2>1 DEF Types
  <2>3. ASSUME NEW e \in Callers PROVE HasAnswer(e)'
    BY <1>1, <1>4, <1>9, <2>1 DEF QueueInv, HasAnswer, SameAsked
  <2>4. OthersUntouched /\ AllAnswered' BY <1>9, <2>3 DEF OthersUntouched, AllAnswered
  <2> QED BY <1>6, <1>9, <2>1, <2>2, <2>4, QuietStep
<1> QED BY <1>8, <1>9 DEF Decide

LEMMA UnauthorizedStep ==
  ASSUME QueueInv, NEW c \in Callers, Unauthorized(c)
  PROVE  QueueInv'
<1>1. Types /\ Asked(c) /\ req[c].pc = "sent" BY DEF QueueInv, Unauthorized, Asked
<1>2. UNCHANGED <<session, expired, online, taps, queue, drain, clock>>
      /\ refresh' \in Users \cup {Null}
  BY <1>1 DEF Unauthorized, Types
<1>3. PICK pc \in {"denied", "refreshing"} : req' = [req EXCEPT ![c].pc = pc]
  BY DEF Unauthorized
<1>4. /\ req' \in [Callers -> ApiCall] /\ req'[c].pc = pc
      /\ SameAsked /\ \A e \in Callers : e # c => req'[e] = req[e]
  BY <1>1, <1>3, RequestMoved
<1>5. Types' BY <1>1, <1>2, <1>4 DEF Types
<1>6. ASSUME NEW e \in Callers PROVE HasAnswer(e)'
  BY <1>1, <1>2, <1>4 DEF QueueInv, HasAnswer, SameAsked
<1>7. OthersUntouched /\ AllAnswered' BY <1>2, <1>6 DEF OthersUntouched, AllAnswered
<1> QED BY <1>2, <1>4, <1>5, <1>7, QuietStep

LEMMA LoseStep ==
  ASSUME QueueInv, NEW c \in Callers, Lose(c)
  PROVE  QueueInv'
<1> DEFINE i == req[c].tap
<1>1. Types /\ Asked(c) /\ req[c].pc \in {"sent", "ok", "refused"}
  BY DEF QueueInv, Lose, Asked
<1>2. i \in 1..Len(taps) BY <1>1, AskedTapped
<1>3. taps[i] \in Tapped /\ Len(taps) \in Nat BY <1>1, <1>2, TapsLength
<1>4. taps[i].lost \/ taps[i].kept \/ taps[i].applied = IF req[c].pc = "ok" THEN 1 ELSE 0
  BY <1>1 DEF QueueInv, HasAnswer
<1>5. \A e \in Callers : e # c /\ Asked(e) => req[e].tap # i BY <1>1, AskedOnce
<1>6. UNCHANGED <<session, expired, refresh, online, queue, drain, clock>> BY DEF Lose
<1> DEFINE gone == taps[i].lost \/ req[c].pc = "ok"
           t == [taps[i] EXCEPT !.lost = gone]
<1>7. t \in Tapped BY <1>3 DEF Tapped
<1>8. taps' = [taps EXCEPT ![i] = t] BY DEF Lose
<1>9. t.lost = gone /\ t.kept = taps[i].kept /\ t.applied = taps[i].applied
  BY <1>3 DEF Tapped
<1> HIDE DEF t
<1>10. /\ taps' \in Seq(Tapped) /\ Len(taps') = Len(taps) /\ taps'[i] = t
       /\ \A k \in 1..Len(taps) : k # i => taps'[k] = taps[k]
  BY <1>1, <1>2, <1>7, <1>8, TapChanged
<1>11. /\ req' \in [Callers -> ApiCall] /\ req'[c].pc = "lost"
       /\ SameAsked /\ \A e \in Callers : e # c => req'[e] = req[e]
  BY <1>1, RequestMoved DEF Lose
<1>12. Types' BY <1>1, <1>6, <1>10, <1>11 DEF Types
<1>13. ASSUME NEW e \in Callers PROVE HasAnswer(e)'
  <2>1. CASE e = c
    <3>1. taps'[i].lost \/ taps'[i].kept \/ taps'[i].applied = 0 BY <1>4, <1>9, <1>10
    <3> QED BY <2>1, <3>1, <1>11 DEF HasAnswer, SameAsked
  <2>2. CASE e # c /\ Asked(e)
    <3>1. req[e].tap \in 1..Len(taps) /\ req[e].tap # i BY <2>2, <1>5, AskedTapped
    <3>2. taps'[req[e].tap] = taps[req[e].tap] BY <3>1, <1>10
    <3> QED BY <2>2, <3>2, <1>11 DEF QueueInv, HasAnswer, SameAsked
  <2>3. CASE ~Asked(e) BY <2>3, <1>11 DEF HasAnswer, SameAsked
  <2> QED BY <2>1, <2>2, <2>3
<1>14. OthersUntouched /\ AllAnswered'
  BY <1>1, <1>10, <1>13 DEF OthersUntouched, AllAnswered
<1> QED BY <1>6, <1>10, <1>11, <1>12, <1>14, QuietStep
(* A tick, or whatever else starts a drain. *)
LEMMA MayBegin ==
  ASSUME QueueInv, drain' = drain \/ (CanDrain /\ drain' = Begun(drain))
  PROVE  drain' \in [Drains -> Drain]
BY BegunDrain DEF QueueInv, Types

LEMMA TickMoves ==
  ASSUME QueueInv, NEW user, Tick(user)
  PROVE  /\ queue' \subseteq queue
         /\ drain' = drain \/ (CanDrain /\ drain' = Begun(drain))
         /\ drain' \in [Drains -> Drain]
<1>1. queue' \subseteq queue /\ (drain' = drain \/ (CanDrain /\ drain' = Begun(drain)))
  BY DEF Tick
<1> QED BY <1>1, MayBegin

(* No request moves and the server does nothing. *)
LEMMA NothingAsked ==
  ASSUME QueueInv, UNCHANGED <<taps, req>>
  PROVE  Len(taps') = Len(taps) /\ SameAsked /\ OthersUntouched /\ AllAnswered'
<1>1. SameAsked BY DEF SameAsked, Asked
<1>2. OthersUntouched BY DEF OthersUntouched
<1>3. AllAnswered' BY DEF AllAnswered, HasAnswer, Asked, QueueInv
<1> QED BY <1>1, <1>2, <1>3

(* People, the clock, the network and the button. *)
LEMMA AroundStep ==
  ASSUME QueueInv,
         \/ Sync \/ (\E u \in Users : SignIn(u)) \/ SignOut \/ Expire \/ GoOffline
         \/ GoOnline \/ (\E u \in Users, op \in AllOps : Elsewhere(u, op))
  PROVE  QueueInv'
<1>1. Types /\ UNCHANGED <<taps, req>>
  BY DEF QueueInv, Sync, SignIn, SignOut, Expire, GoOffline, GoOnline, Elsewhere
<1>2. /\ queue' \subseteq queue
      /\ drain' = drain \/ (CanDrain /\ drain' = Begun(drain))
  BY TickMoves DEF Sync, SignIn, SignOut, Expire, GoOffline, GoOnline, Elsewhere
<1>3. drain' \in [Drains -> Drain] BY <1>2, MayBegin
<1>4. clock' \in [Users -> {"off", "work", "break"}]
  BY <1>1 DEF Types, Sync, SignIn, SignOut, Expire, GoOffline, GoOnline, Elsewhere, Punched
<1>5. /\ session' \in Users \cup {Null} /\ refresh' \in Users \cup {Null}
      /\ expired' \in BOOLEAN /\ online' \in BOOLEAN
  BY <1>1 DEF Types, Sync, SignIn, SignOut, Expire, GoOffline, GoOnline, Elsewhere
<1>6. Types' BY <1>1, <1>2, <1>3, <1>4, <1>5 DEF Types
<1> QED BY <1>1, <1>2, <1>6, NothingAsked, QuietStep

(* A rotation ends, well or not: whoever waited for it sends again, or gives
   up; nobody has an answer on the way by that. *)
LEMMA RefreshStep ==
  ASSUME QueueInv, RefreshOk \/ RefreshFail
  PROVE  QueueInv'
<1>1. Types /\ UNCHANGED <<online, taps, clock>> BY DEF QueueInv, RefreshOk, RefreshFail
<1>2. /\ session' \in Users \cup {Null} /\ refresh' \in Users \cup {Null}
      /\ expired' \in BOOLEAN /\ refresh \in Users
  BY <1>1 DEF Types, RefreshOk, RefreshFail
<1>3. /\ queue' \subseteq queue
      /\ drain' = drain \/ (CanDrain /\ drain' = Begun(drain))
      /\ drain' \in [Drains -> Drain]
  BY TickMoves DEF RefreshOk, RefreshFail
<1>4. ASSUME NEW c \in Callers
      PROVE  /\ req'[c] \in ApiCall
             /\ Asked(c)' <=> Asked(c)
             /\ req'[c].tap = req[c].tap
             /\ req'[c].pc = "ok" <=> req[c].pc = "ok"
             /\ ~Asked(c) => req'[c] = req[c]
  <2>1. req[c] \in ApiCall BY <1>1 DEF Types
  <2>2. CASE req[c].pc # "refreshing"
    <3>1. req'[c] = req[c] BY <2>2 DEF RefreshOk, RefreshFail
    <3> QED BY <2>1, <3>1 DEF Asked
  <2>3. CASE req[c].pc = "refreshing"
    <3>1. \/ req'[c] = [req[c] EXCEPT !.pc = "sent", !.as = refresh,
                                      !.stale = FALSE, !.again = TRUE]
          \/ req'[c] = [req[c] EXCEPT !.pc = "denied"]
      BY <2>3 DEF RefreshOk, RefreshFail
    <3> QED BY <1>2, <2>1, <2>3, <3>1 DEF ApiCall, Asked
  <2> QED BY <2>2, <2>3
<1>5. DOMAIN req' = Callers /\ req' = [c \in Callers |-> req'[c]]
  BY DEF RefreshOk, RefreshFail
<1>6. Types' BY <1>1, <1>2, <1>3, <1>4, <1>5 DEF Types
<1>7. SameAsked BY <1>4 DEF SameAsked
<1>8. OthersUntouched BY <1>1 DEF OthersUntouched
<1>9. AllAnswered' BY <1>1, <1>4 DEF AllAnswered, HasAnswer, QueueInv
<1> QED BY <1>1, <1>3, <1>6, <1>7, <1>8, <1>9, QuietStep
-----------------------------------------------------------------------------
(* The page *)

(* A caller begins or ends a request. *)
LEMMA RequestSet ==
  ASSUME Types, NEW c \in Callers, NEW r \in ApiCall, req' = [req EXCEPT ![c] = r]
  PROVE  /\ req' \in [Callers -> ApiCall]
         /\ req'[c] = r
         /\ \A e \in Callers : e # c => req'[e] = req[e] /\ (Asked(e)' <=> Asked(e))
BY DEF Types, Asked

LEMMA NoRequestIdle == NoRequest \in ApiCall /\ NoRequest.pc = "idle"
BY DEF NoRequest, ApiCall

LEMMA SentIsRequest ==
  ASSUME Types, NEW i \in Nat
  PROVE  Sent(i) \in ApiCall /\ Sent(i).pc = "sent" /\ Sent(i).tap = i
BY DEF Types, Sent, ApiCall

LEMMA PendingTapped == QueueInv => Pending \subseteq 1..Len(taps)
BY DEF QueueInv, Types, Turn, Pending

LEMMA TapStep ==
  ASSUME QueueInv, NEW op \in AllOps, Tap(op)
  PROVE  QueueInv'
<1> DEFINE new == [op |-> op, user |-> session, applied |-> 0, lost |-> FALSE,
                  kept |-> FALSE]
<1>1. Types /\ Page \in Callers BY DEF QueueInv, Callers
<1>2. UNCHANGED <<session, expired, refresh, online, queue, drain, clock>> BY DEF Tap
<1>3. new \in Tapped BY <1>1 DEF Tap, Types, Tapped
<1>4. taps' = Append(taps, new) /\ taps \in Seq(Tapped) BY <1>1 DEF Tap, Types
<1>5. new.applied = 0 OBVIOUS
<1> HIDE DEF new
<1>6. Len(taps) \in Nat /\ DOMAIN taps = 1..Len(taps) BY <1>1, TapsLength
<1>7. /\ taps' \in Seq(Tapped) /\ Len(taps') = Len(taps) + 1 /\ taps'[Len(taps) + 1] = new
      /\ \A i \in 1..Len(taps) : taps'[i] = taps[i]
  BY <1>3, <1>4, AppendProperties
<1>8. DOMAIN taps' = 1..(Len(taps) + 1) BY <1>7, LenProperties
<1> DEFINE n == Len(taps) + 1
<1>9. Sent(n) \in ApiCall /\ Sent(n).pc = "sent" /\ Sent(n).tap = n
  BY <1>1, <1>6, SentIsRequest
<1>10. /\ req' \in [Callers -> ApiCall] /\ req'[Page] = Sent(n)
       /\ \A e \in Callers : e # Page => req'[e] = req[e] /\ (Asked(e)' <=> Asked(e))
  BY <1>1, <1>9, RequestSet DEF Tap
<1>11. ~Asked(Page) /\ Asked(Page)' BY <1>9, <1>10, NoRequestIdle DEF Tap, Asked
<1>12. Pending' = Pending /\ Pending \subseteq 1..Len(taps) BY <1>2, PendingTapped DEF Pending
<1>13. queue \subseteq 1..Len(taps)' BY <1>1, <1>6, <1>7 DEF Types
<1>14. Types' BY <1>1, <1>2, <1>7, <1>10, <1>13 DEF Types
<1>15. IdleIsNone' BY <1>10, <1>11 DEF QueueInv, IdleIsNone
<1>16. OneDrain' BY <1>2 DEF QueueInv, OneDrain
<1>17. PageFirst'
  <2>1. req'[Page].tap = Len(taps') /\ Len(taps') > 0 BY <1>6, <1>7, <1>9, <1>10
  <2>2. n \notin Pending' BY <1>6, <1>12
  <2> QED BY <1>9, <1>10, <2>1, <2>2 DEF PageFirst
<1>18. ASSUME NEW d \in Drains PROVE Turn(d)'
  <2>1. Turn(d) /\ d \in Callers /\ d # Page
    BY OfflineAssumption DEF QueueInv, Callers
  <2>2. drain[d].todo \subseteq 1..Len(taps') BY <1>6, <1>7, <2>1 DEF Turn
  <2> QED BY <1>2, <1>10, <2>1, <2>2 DEF Turn
<1>19. ASSUME NEW c \in Callers PROVE HasAnswer(c)'
  <2>1. CASE c = Page BY <1>5, <1>7, <1>9, <1>10, <2>1 DEF HasAnswer
  <2>2. CASE c # Page /\ Asked(c)
    <3>1. taps'[req[c].tap] = taps[req[c].tap] BY <1>7, <2>2, AskedTapped
    <3> QED BY <1>10, <2>2, <3>1 DEF QueueInv, HasAnswer
  <2>3. CASE c # Page /\ ~Asked(c) BY <1>10, <2>3 DEF HasAnswer
  <2> QED BY <2>1, <2>2, <2>3
<1>20. ASSUME NEW i \in Pending' PROVE Untried(i)'
  <2>1. i \in Pending /\ taps'[i] = taps[i] BY <1>7, <1>12
  <2> QED BY <1>10, <1>11, <2>1 DEF QueueInv, Untried
<1>21. AppliedOnce'
  <2> SUFFICES ASSUME NEW i \in 1..n, taps'[i].applied > 1 PROVE taps'[i].lost \/ taps'[i].kept
    BY <1>8 DEF AppliedOnce
  <2>1. CASE i = n BY <1>5, <1>7, <2>1
  <2>2. CASE i # n
    <3>1. i \in 1..Len(taps) BY <1>6, <2>2
    <3> QED BY <1>6, <1>7, <3>1 DEF QueueInv, AppliedOnce
  <2> QED BY <2>1, <2>2
<1> QED BY <1>14, <1>15, <1>16, <1>17, <1>18, <1>19, <1>20, <1>21 DEF QueueInv

LEMMA PageAnsweredStep ==
  ASSUME QueueInv, PageAnswered
  PROVE  QueueInv'
<1>1. Types /\ Page \in Callers BY DEF QueueInv, Callers
<1>2. UNCHANGED <<session, expired, refresh, online, taps, queue, drain, clock>>
  BY DEF PageAnswered
<1>3. /\ req' \in [Callers -> ApiCall] /\ req'[Page] = NoRequest
      /\ \A e \in Callers : e # Page => req'[e] = req[e] /\ (Asked(e)' <=> Asked(e))
  BY <1>1, NoRequestIdle, RequestSet DEF PageAnswered
<1>4. Asked(Page) /\ ~Asked(Page)' BY <1>3, NoRequestIdle DEF PageAnswered, Asked
<1>5. Types' BY <1>1, <1>2, <1>3 DEF Types
<1>6. IdleIsNone' BY <1>3 DEF QueueInv, IdleIsNone
<1>7. OneDrain' /\ AppliedOnce' BY <1>2 DEF QueueInv, OneDrain, AppliedOnce
<1>8. PageFirst' BY <1>4 DEF PageFirst
<1>9. ASSUME NEW d \in Drains PROVE Turn(d)'
  <2>1. Turn(d) /\ d \in Callers /\ d # Page
    BY OfflineAssumption DEF QueueInv, Callers
  <2> QED BY <1>2, <1>3, <2>1 DEF Turn
<1>10. ASSUME NEW c \in Callers PROVE HasAnswer(c)'
  BY <1>2, <1>3, <1>4 DEF QueueInv, HasAnswer
<1>11. ASSUME NEW i \in Pending' PROVE Untried(i)'
  <2>1. i \in Pending /\ req[Page].tap # i
    BY <1>2, <1>4 DEF Pending, QueueInv, PageFirst
  <2> QED BY <1>2, <1>3, <2>1 DEF QueueInv, Untried
<1> QED BY <1>5, <1>6, <1>7, <1>8, <1>9, <1>10, <1>11 DEF QueueInv

(* The punch that is saved is younger than every one that waits, and the
   server has not answered it. *)
LEMMA EnqueueStep ==
  ASSUME QueueInv, Enqueue
  PROVE  QueueInv'
<1> DEFINE n == req[Page].tap
<1>1. Types /\ Page \in Callers /\ Len(taps) \in Nat BY TapsLength DEF QueueInv, Callers
<1>2. UNCHANGED <<session, expired, refresh, online, taps, drain, clock>>
      /\ queue' = queue \cup {n}
  BY DEF Enqueue
<1>3. /\ req' \in [Callers -> ApiCall] /\ req'[Page] = NoRequest
      /\ \A e \in Callers : e # Page => req'[e] = req[e] /\ (Asked(e)' <=> Asked(e))
  BY <1>1, NoRequestIdle, RequestSet DEF Enqueue
<1>4. Asked(Page) /\ ~Asked(Page)' BY <1>3, NoRequestIdle DEF Enqueue, Asked
<1>5. n = Len(taps) /\ n \in 1..Len(taps) /\ n \notin Pending
  BY <1>1, <1>4 DEF QueueInv, PageFirst
<1>6. Types' BY <1>1, <1>2, <1>3, <1>5 DEF Types
<1>7. IdleIsNone' BY <1>3 DEF QueueInv, IdleIsNone
<1>8. OneDrain' /\ AppliedOnce' BY <1>2 DEF QueueInv, OneDrain, AppliedOnce
<1>9. PageFirst' BY <1>4 DEF PageFirst
<1>10. ASSUME NEW d \in Drains PROVE Turn(d)'
  <2>1. Turn(d) /\ d \in Callers /\ d # Page
    BY OfflineAssumption DEF QueueInv, Callers
  <2>2. \A k \in drain[d].todo : k < n
    <3>1. \A k \in drain[d].todo : k \in 1..Len(taps) /\ k # n
      BY <1>5, <2>1 DEF Turn, Pending
    <3> QED BY <1>1, <1>5, <3>1
  <2> QED BY <1>2, <1>3, <2>1, <2>2 DEF Turn
<1>11. ASSUME NEW c \in Callers PROVE HasAnswer(c)'
  BY <1>2, <1>3, <1>4 DEF QueueInv, HasAnswer
<1>12. ASSUME NEW i \in Pending' PROVE Untried(i)'
  <2>1. i \in Pending \/ i = n BY <1>2 DEF Pending
  <2>2. CASE i = n
    <3>1. taps[n].lost \/ taps[n].kept \/ taps[n].applied = 0
      BY <1>1, <1>4 DEF QueueInv, HasAnswer, Enqueue
    <3> QED BY <1>2, <2>2, <3>1 DEF Untried
  <2>3. CASE i \in Pending
    <3>1. req[Page].tap # i BY <1>5, <2>3
    <3> QED BY <1>2, <1>3, <2>3, <3>1 DEF QueueInv, Untried
  <2> QED BY <2>1, <2>2, <2>3
<1> QED BY <1>6, <1>7, <1>8, <1>9, <1>10, <1>11, <1>12 DEF QueueInv
-----------------------------------------------------------------------------
(* The drain *)

LEMMA DrainSet ==
  ASSUME Types, NEW d \in Drains, NEW v \in Drain, drain' = [drain EXCEPT ![d] = v]
  PROVE  /\ drain' \in [Drains -> Drain]
         /\ drain'[d] = v
         /\ \A e \in Drains : e # d => drain'[e] = drain[e]
BY DEF Types

(* While one drain is at work, nothing else has anything to send. *)
LEMMA OnlyDrain ==
  ASSUME QueueInv, NEW d \in Drains, drain[d].pc # "idle"
  PROVE  /\ Pending = queue \cup drain[d].todo
         /\ \A e \in Drains : e # d =>
              drain[e].pc = "idle" /\ drain[e].todo = {} /\ ~Asked(e)
<1>1. \A e \in Drains : e # d =>
        drain[e].pc = "idle" /\ drain[e].todo = {} /\ ~Asked(e)
  BY DEF QueueInv, OneDrain, Turn
<1> QED BY <1>1 DEF Pending

(* Steps of a drain that has not sent anything. *)
LEMMA ListQueueStep ==
  ASSUME QueueInv, NEW d \in Drains, ListQueue(d)
  PROVE  QueueInv'
<1> DEFINE v == [pc |-> "sending", todo |-> queue]
<1>1. Types /\ Turn(d) /\ Len(taps) \in Nat /\ drain[d].pc = "listing"
  BY TapsLength DEF QueueInv, ListQueue
<1>2. UNCHANGED <<session, expired, refresh, online, taps, queue, req, clock>> BY DEF ListQueue
<1>3. v \in Drain /\ v.pc = "sending" /\ v.todo = queue BY <1>1 DEF Drain, Types
<1>4. drain' = [drain EXCEPT ![d] = v] BY DEF ListQueue
<1> HIDE DEF v
<1>5. /\ drain' \in [Drains -> Drain] /\ drain'[d] = v
      /\ \A e \in Drains : e # d => drain'[e] = drain[e]
  BY <1>1, <1>3, <1>4, DrainSet
<1>6. /\ Pending = queue \cup drain[d].todo
      /\ \A e \in Drains : e # d =>
           drain[e].pc = "idle" /\ drain[e].todo = {} /\ ~Asked(e)
  BY <1>1, OnlyDrain
<1>7. Pending' = queue /\ Pending = queue BY <1>1, <1>2, <1>3, <1>5, <1>6 DEF Pending, Turn
<1>8. ~Asked(d) BY <1>1 DEF Turn
<1>9. Types' BY <1>1, <1>2, <1>5 DEF Types
<1>10. OneDrain' BY <1>5, <1>6 DEF OneDrain
<1>11. ASSUME NEW e \in Drains PROVE Turn(e)'
  <2>1. CASE e = d BY <1>1, <1>2, <1>3, <1>5, <1>8, <2>1 DEF Turn, Types, Asked
  <2>2. CASE e # d BY <1>2, <1>5, <1>6, <2>2 DEF Turn, Asked
  <2> QED BY <2>1, <2>2
<1>12. IdleIsNone' /\ AppliedOnce' BY <1>2 DEF QueueInv, IdleIsNone, AppliedOnce, Asked
<1>13. PageFirst' BY <1>2, <1>7 DEF QueueInv, PageFirst, Asked
<1>14. \A c \in Callers : HasAnswer(c)' BY <1>2 DEF QueueInv, HasAnswer, Asked
<1>15. \A i \in Pending' : Untried(i)' BY <1>2, <1>7 DEF QueueInv, Untried, Asked
<1> QED BY <1>9, <1>10, <1>11, <1>12, <1>13, <1>14, <1>15 DEF QueueInv

LEMMA FinishStep ==
  ASSUME QueueInv, NEW d \in Drains, Finish(d)
  PROVE  QueueInv'
<1>1. Types /\ Turn(d) /\ drain[d].pc = "sending" /\ drain[d].todo = {}
  BY DEF QueueInv, Finish
<1>2. UNCHANGED <<session, expired, refresh, online, taps, queue, req, clock>> BY DEF Finish
<1>3. NoDrain \in Drain /\ NoDrain.pc = "idle" /\ NoDrain.todo = {} BY DEF Drain, NoDrain
<1>5. /\ drain' \in [Drains -> Drain] /\ drain'[d] = NoDrain
      /\ \A e \in Drains : e # d => drain'[e] = drain[e]
  BY <1>1, <1>3, DrainSet DEF Finish
<1>6. /\ Pending = queue \cup drain[d].todo
      /\ \A e \in Drains : e # d =>
           drain[e].pc = "idle" /\ drain[e].todo = {} /\ ~Asked(e)
  BY <1>1, OnlyDrain
<1>7. Pending' = queue /\ Pending = queue BY <1>1, <1>2, <1>3, <1>5, <1>6 DEF Pending
<1>8. ~Asked(d) BY <1>1 DEF Turn
<1>9. Types' BY <1>1, <1>2, <1>5 DEF Types
<1>10. OneDrain' BY <1>3, <1>5, <1>6 DEF OneDrain
<1>11. ASSUME NEW e \in Drains PROVE Turn(e)'
  BY <1>2, <1>3, <1>5, <1>6, <1>8 DEF Turn, Asked
<1>12. IdleIsNone' /\ AppliedOnce' BY <1>2 DEF QueueInv, IdleIsNone, AppliedOnce, Asked
<1>13. PageFirst' BY <1>2, <1>7 DEF QueueInv, PageFirst, Asked
<1>14. \A c \in Callers : HasAnswer(c)' BY <1>2 DEF QueueInv, HasAnswer, Asked
<1>15. \A i \in Pending' : Untried(i)' BY <1>2, <1>7 DEF QueueInv, Untried, Asked
<1> QED BY <1>9, <1>10, <1>11, <1>12, <1>13, <1>14, <1>15 DEF QueueInv

(* The oldest that is listed is sent: nobody else is asking for it. *)
LEMMA SendNextStep ==
  ASSUME QueueInv, NEW d \in Drains, SendNext(d)
  PROVE  QueueInv'
<1> DEFINE i == Oldest(drain[d].todo)
<1>1. Types /\ Turn(d) /\ d \in Callers /\ d # Page /\ Len(taps) \in Nat
  BY TapsLength, OfflineAssumption DEF QueueInv, Callers
<1>2. drain[d].pc = "sending" /\ drain[d].todo # {} /\ req[d] = NoRequest
      /\ UNCHANGED <<session, expired, refresh, online, taps, queue, drain, clock>>
  BY DEF SendNext
<1>3. drain[d].todo \in SUBSET Nat BY <1>1 DEF Turn
<1>4. i \in drain[d].todo /\ i \in Nat /\ \A k \in drain[d].todo : i <= k
  BY <1>2, <1>3, LeastExists
<1>5. Sent(i) \in ApiCall /\ Sent(i).pc = "sent" /\ Sent(i).tap = i
  BY <1>1, <1>4, SentIsRequest
<1>6. /\ req' \in [Callers -> ApiCall] /\ req'[d] = Sent(i)
      /\ \A e \in Callers : e # d => req'[e] = req[e] /\ (Asked(e)' <=> Asked(e))
  BY <1>1, <1>5, RequestSet DEF SendNext
<1> HIDE DEF i
<1>7. ~Asked(d) /\ Asked(d)' BY <1>2, <1>5, <1>6, NoRequestIdle DEF Asked
<1>8. Pending' = Pending /\ i \in Pending BY <1>2, <1>4 DEF Pending
<1>9. ASSUME NEW c \in Callers, Asked(c) PROVE req[c].tap # i
  <2>1. CASE c = Page BY <1>8, <1>9, <2>1 DEF QueueInv, PageFirst
  <2>2. CASE c \in Drains
    <3>1. c # d BY <1>7, <1>9
    <3> QED BY <1>2, <1>9, <2>2, <3>1, OnlyDrain
  <2> QED BY <2>1, <2>2 DEF Callers
<1>10. taps[i].lost \/ taps[i].kept \/ taps[i].applied = 0 BY <1>8, <1>9 DEF QueueInv, Untried
<1>11. Types' BY <1>1, <1>2, <1>6 DEF Types
<1>12. IdleIsNone' BY <1>6, <1>7 DEF QueueInv, IdleIsNone
<1>13. OneDrain' /\ AppliedOnce' BY <1>2 DEF QueueInv, OneDrain, AppliedOnce
<1>14. PageFirst' BY <1>1, <1>2, <1>6, <1>8 DEF QueueInv, PageFirst, Callers
<1>15. ASSUME NEW e \in Drains PROVE Turn(e)'
  <2>1. CASE e = d BY <1>1, <1>2, <1>4, <1>5, <1>6, <2>1 DEF Turn
  <2>2. CASE e # d
    <3>1. Turn(e) /\ e \in Callers BY DEF QueueInv, Callers
    <3> QED BY <1>2, <1>6, <2>2, <3>1 DEF Turn
  <2> QED BY <2>1, <2>2
<1>16. ASSUME NEW c \in Callers PROVE HasAnswer(c)'
  <2>1. CASE c = d BY <1>2, <1>5, <1>6, <1>10, <2>1 DEF HasAnswer
  <2>2. CASE c # d BY <1>2, <1>6, <2>2 DEF QueueInv, HasAnswer
  <2> QED BY <2>1, <2>2
<1>17. ASSUME NEW k \in Pending' PROVE Untried(k)'
  BY <1>2, <1>6, <1>7, <1>8 DEF QueueInv, Untried
<1> QED BY <1>11, <1>12, <1>13, <1>14, <1>15, <1>16, <1>17 DEF QueueInv

(* The answer is there: who asks for what stays as it is. *)
LEMMA SettleStep ==
  ASSUME QueueInv, NEW d \in Drains, Settle(d)
  PROVE  QueueInv'
<1> DEFINE r == [req[d] EXCEPT !.got = TRUE]
<1>1. Types /\ d \in Callers /\ Asked(d) BY DEF QueueInv, Callers, Settle, Asked
<1>2. UNCHANGED <<session, expired, refresh, online, taps, queue, drain, clock>> BY DEF Settle
<1>3. r \in ApiCall /\ r.pc = req[d].pc /\ r.tap = req[d].tap BY <1>1 DEF Types, ApiCall
<1>4. req' = [req EXCEPT ![d] = r] BY DEF Settle
<1> HIDE DEF r
<1>5. /\ req' \in [Callers -> ApiCall] /\ req'[d] = r
      /\ \A e \in Callers : e # d => req'[e] = req[e] /\ (Asked(e)' <=> Asked(e))
  BY <1>1, <1>3, <1>4, RequestSet
<1>6. SameAsked BY <1>1, <1>3, <1>5 DEF SameAsked, Asked
<1>7. Types' BY <1>1, <1>2, <1>5 DEF Types
<1>8. ASSUME NEW c \in Callers PROVE HasAnswer(c)'
  <2>1. HasAnswer(c) /\ req'[c].pc = req[c].pc /\ req'[c].tap = req[c].tap
    BY <1>3, <1>5 DEF QueueInv
  <2> QED BY <1>2, <1>6, <2>1 DEF HasAnswer, SameAsked
<1>9. OthersUntouched /\ AllAnswered' BY <1>2, <1>8 DEF OthersUntouched, AllAnswered
<1> QED BY <1>2, <1>6, <1>7, <1>9, QuietStep

(* A removal that fails marks its punch if the answer was that it has been
   carried out. *)
LEMMA KeptMark ==
  ASSUME Types, NEW d \in Drains, req[d].tap \in 1..Len(taps), RemoveFails(d)
  PROVE  /\ taps' \in Seq(Tapped) /\ Len(taps') = Len(taps)
         /\ \A k \in 1..Len(taps) :
              /\ taps'[k].applied = taps[k].applied
              /\ taps'[k].lost = taps[k].lost
              /\ taps[k].kept => taps'[k].kept
         /\ req[d].pc = "ok" => taps'[req[d].tap].kept
<1> DEFINE i == req[d].tap
           mark == taps[i].kept \/ req[d].pc = "ok"
           t == [taps[i] EXCEPT !.kept = mark]
<1>1. taps[i] \in Tapped BY TapsLength
<1>2. /\ t \in Tapped /\ t.kept = mark
      /\ t.applied = taps[i].applied /\ t.lost = taps[i].lost
  BY <1>1 DEF Tapped
<1>3. taps' = [taps EXCEPT ![i] = t] BY DEF RemoveFails
<1> HIDE DEF t
<1>4. /\ taps' \in Seq(Tapped) /\ Len(taps') = Len(taps) /\ taps'[i] = t
      /\ \A k \in 1..Len(taps) : k # i => taps'[k] = taps[k]
  BY <1>2, <1>3, TapChanged
<1> QED BY <1>2, <1>4

(* A drain drops what it has an answer for, or ends with it still there:
   what waits is untouched, was given up without an answer, or is marked. *)
LEMMA AnsweredStep ==
  ASSUME QueueInv, NEW d \in Drains, Remove(d) \/ RemoveFails(d) \/ GiveUp(d)
  PROVE  QueueInv'
<1> DEFINE t == req[d].tap
<1>1. Types /\ Turn(d) /\ d \in Callers /\ d # Page /\ Asked(d)
  <2>1. Types /\ Turn(d) /\ d \in Callers /\ d # Page
    BY OfflineAssumption DEF QueueInv, Callers
  <2>2. CASE GiveUp(d) BY <2>1, <2>2 DEF GiveUp, Asked
  <2>3. CASE req[d].got BY <2>1, <2>3 DEF QueueInv, IdleIsNone, NoRequest
  <2> QED BY <2>1, <2>2, <2>3 DEF Remove, RemoveFails
<1>2. UNCHANGED <<session, expired, refresh, online, clock>>
  BY DEF Remove, RemoveFails, GiveUp
<1>20. t \in 1..Len(taps) /\ Len(taps) \in Nat /\ DOMAIN taps = 1..Len(taps)
  BY <1>1, AskedTapped, TapsLength
<1>21. /\ taps' \in Seq(Tapped) /\ Len(taps') = Len(taps)
       /\ \A k \in 1..Len(taps) :
            /\ taps'[k].applied = taps[k].applied
            /\ taps'[k].lost = taps[k].lost
            /\ taps[k].kept => taps'[k].kept
       /\ RemoveFails(d) /\ req[d].pc = "ok" => taps'[t].kept
  <2>1. CASE RemoveFails(d) BY <1>1, <1>20, <2>1, KeptMark
  <2>2. CASE ~RemoveFails(d) BY <1>1, <2>2 DEF Remove, GiveUp, Types
  <2> QED BY <2>1, <2>2
<1>22. DOMAIN taps' = 1..Len(taps) BY <1>21, LenProperties
<1>3. drain[d].pc = "sending" /\ t \in drain[d].todo /\ drain[d] \in Drain
  BY <1>1 DEF Turn, Types
<1>4. /\ Pending = queue \cup drain[d].todo
      /\ \A e \in Drains : e # d =>
           drain[e].pc = "idle" /\ drain[e].todo = {} /\ ~Asked(e)
  BY <1>3, OnlyDrain
<1>5. /\ req' \in [Callers -> ApiCall] /\ req'[d] = NoRequest
      /\ \A e \in Callers : e # d => req'[e] = req[e] /\ (Asked(e)' <=> Asked(e))
  BY <1>1, NoRequestIdle, RequestSet DEF Remove, RemoveFails, GiveUp
<1>6. ~Asked(d)' BY <1>5, NoRequestIdle DEF Asked
<1>7. PICK v \in Drain :
        /\ drain' = [drain EXCEPT ![d] = v]
        /\ \/ /\ Remove(d) /\ v.pc = "sending" /\ v.todo = drain[d].todo \ {t}
              /\ queue' = queue \ {t}
           \/ /\ RemoveFails(d) \/ GiveUp(d)
              /\ v.pc = "idle" /\ v.todo = {}
              /\ queue' = queue
  <2>1. CASE Remove(d)
    <3>1. [drain[d] EXCEPT !.todo = drain[d].todo \ {t}] \in Drain BY <1>3 DEF Drain
    <3>2. drain' = [drain EXCEPT ![d] = [drain[d] EXCEPT !.todo = drain[d].todo \ {t}]]
      BY <2>1 DEF Remove
    <3>3. /\ [drain[d] EXCEPT !.todo = drain[d].todo \ {t}].pc = "sending"
          /\ [drain[d] EXCEPT !.todo = drain[d].todo \ {t}].todo = drain[d].todo \ {t}
      BY <1>3 DEF Drain
    <3> QED BY <2>1, <3>1, <3>2, <3>3 DEF Remove
  <2>2. CASE RemoveFails(d) \/ GiveUp(d)
    <3>1. NoDrain \in Drain /\ NoDrain.pc = "idle" /\ NoDrain.todo = {} BY DEF NoDrain, Drain
    <3> QED BY <2>2, <3>1 DEF RemoveFails, GiveUp
  <2> QED BY <2>1, <2>2
<1>8. /\ drain' \in [Drains -> Drain] /\ drain'[d] = v
      /\ \A e \in Drains : e # d => drain'[e] = drain[e]
  BY <1>1, <1>7, DrainSet
<1>9. Pending' = queue' \cup v.todo BY <1>4, <1>8 DEF Pending
<1>10. Pending' \subseteq Pending /\ queue' \subseteq queue BY <1>4, <1>7, <1>9
<1>11. Types' BY <1>1, <1>2, <1>5, <1>8, <1>10, <1>21 DEF Types
<1>12. IdleIsNone' BY <1>5 DEF QueueInv, IdleIsNone
<1>13. OneDrain' BY <1>4, <1>8 DEF OneDrain
<1>14. PageFirst' BY <1>1, <1>5, <1>10, <1>21 DEF QueueInv, PageFirst, Callers
<1>15. ASSUME NEW e \in Drains PROVE Turn(e)'
  <2>1. CASE e = d
    <3>1. v.todo \subseteq drain[d].todo /\ (v.pc = "sending" => queue' \ v.todo \subseteq queue \ drain[d].todo)
      BY <1>7
    <3>2. v.pc # "sending" => v.todo = {} BY <1>7
    <3> QED BY <1>1, <1>3, <1>6, <1>8, <1>21, <2>1, <3>1, <3>2 DEF Turn
  <2>2. CASE e # d
    <3>1. e \in Callers BY DEF Callers
    <3> QED BY <1>4, <1>5, <1>8, <2>2, <3>1 DEF Turn
  <2> QED BY <2>1, <2>2
<1>16. ASSUME NEW c \in Callers PROVE HasAnswer(c)'
  <2>1. CASE c = d BY <1>6, <2>1 DEF HasAnswer
  <2>2. CASE c # d /\ Asked(c)
    <3>1. req[c].tap \in 1..Len(taps) /\ req'[c] = req[c] BY <1>5, <2>2, AskedTapped
    <3> QED BY <1>21, <2>2, <3>1 DEF QueueInv, HasAnswer
  <2>3. CASE c # d /\ ~Asked(c) BY <1>5, <2>3 DEF HasAnswer
  <2> QED BY <2>1, <2>2, <2>3
<1>17. ASSUME NEW k \in Pending' PROVE Untried(k)'
  <2>1. Untried(k) /\ k \in 1..Len(taps) BY <1>10, PendingTapped DEF QueueInv
  <2>2. CASE k # t BY <1>5, <1>21, <2>1, <2>2 DEF Untried
  <2>3. CASE k = t
    <3>1. RemoveFails(d) \/ GiveUp(d) BY <1>7, <1>9, <2>3
    <3>2. taps[t].lost \/ taps[t].kept \/ taps[t].applied = IF req[d].pc = "ok" THEN 1 ELSE 0
      BY <1>1 DEF QueueInv, HasAnswer
    <3>3. req[d].pc = "ok" => taps'[t].kept BY <1>21, <3>1 DEF GiveUp
    <3> QED BY <1>20, <1>21, <2>3, <3>2, <3>3 DEF Untried
  <2> QED BY <2>2, <2>3
<1>18. AppliedOnce' BY <1>20, <1>21, <1>22 DEF QueueInv, AppliedOnce
<1> QED BY <1>11, <1>12, <1>13, <1>14, <1>15, <1>16, <1>17, <1>18 DEF QueueInv
-----------------------------------------------------------------------------
(* The tab is reloaded: nobody asks for anything any more, an answer that
   was on its way is lost, and what was being removed is still there. *)
LEMMA ReloadStep ==
  ASSUME QueueInv, Reload
  PROVE  QueueInv'
<1> DEFINE none == [d \in Drains |-> NoDrain]
           told(i, got) ==
             \E c \in Callers : req[c].pc = "ok" /\ req[c].tap = i /\ req[c].got = got
           after(i) == [taps[i] EXCEPT !.lost = @ \/ told(i, FALSE),
                                       !.kept = @ \/ told(i, TRUE)]
<1>1. Types /\ Len(taps) \in Nat /\ DOMAIN taps = 1..Len(taps)
      /\ \A i \in 1..Len(taps) : taps[i] \in Tapped
  BY TapsLength DEF QueueInv
<1>2. UNCHANGED <<session, expired, online, queue, clock>> /\ refresh' = Null BY DEF Reload
<1>3. /\ req' \in [Callers -> ApiCall]
      /\ \A c \in Callers : req'[c] = NoRequest /\ ~Asked(c)'
  BY NoRequestIdle DEF Reload, Asked
<1>4. ASSUME NEW i \in 1..Len(taps)
      PROVE  /\ after(i) \in Tapped
             /\ after(i).applied = taps[i].applied
             /\ after(i).lost <=> (taps[i].lost \/ told(i, FALSE))
             /\ after(i).kept <=> (taps[i].kept \/ told(i, TRUE))
  BY <1>1 DEF Tapped
<1>5. taps' = [i \in 1..Len(taps) |-> after(i)] BY <1>1 DEF Reload
<1>6. taps' \in [1..Len(taps) -> Tapped] BY <1>4, <1>5
<1>7. taps' \in Seq(Tapped) BY <1>1, <1>6, SeqDef
<1>8. DOMAIN taps' = 1..Len(taps) /\ Len(taps') \in Nat /\ DOMAIN taps' = 1..Len(taps')
  BY <1>5, <1>7, LenProperties
<1>9. Len(taps') = Len(taps) BY <1>1, <1>7, <1>8, LenProperties
<1>10. \A i \in 1..Len(taps) : /\ taps'[i].applied = taps[i].applied
                               /\ taps'[i].lost <=> (taps[i].lost \/ told(i, FALSE))
                               /\ taps'[i].kept <=> (taps[i].kept \/ told(i, TRUE))
  BY <1>4, <1>5
<1> HIDE DEF after
<1>11. /\ drain' \in [Drains -> Drain] /\ OneDrain'
       /\ \A d \in Drains : drain'[d].pc # "sending" /\ drain'[d].todo = {}
  <2>1. NoDrain \in Drain /\ NoDrain.pc = "idle" /\ NoDrain.todo = {} BY DEF Drain, NoDrain
  <2>2. CASE drain' = none BY <2>1, <2>2 DEF OneDrain
  <2>3. CASE drain' = Begun(none)
    <3> DEFINE listing == [pc |-> "listing", todo |-> {}]
    <3>1. PICK n : n = CHOOSE d \in Drains : none[d].pc = "idle" OBVIOUS
    <3>2. drain' = [none EXCEPT ![n] = listing] BY <2>3, <3>1 DEF Begun
    <3>3. listing \in Drain /\ listing.pc = "listing" /\ listing.todo = {} BY DEF Drain
    <3> HIDE DEF listing
    <3>4. none \in [Drains -> Drain] BY <2>1
    <3>5. \A d \in Drains : drain'[d] = IF d = n THEN listing ELSE NoDrain BY <3>2
    <3>6. drain' \in [Drains -> Drain] BY <3>2, <3>3, <3>4
    <3> QED BY <2>1, <3>3, <3>5, <3>6 DEF OneDrain
  <2> QED BY <2>2, <2>3 DEF Reload
<1>12. Pending' = queue /\ queue \subseteq Pending BY <1>2, <1>11 DEF Pending
<1>13. Types' BY <1>1, <1>2, <1>3, <1>7, <1>9, <1>11 DEF Types
<1>14. IdleIsNone' /\ PageFirst' BY <1>3 DEF IdleIsNone, PageFirst, Callers
<1>15. \A d \in Drains : Turn(d)' BY <1>3, <1>11 DEF Turn, Callers
<1>16. \A c \in Callers : HasAnswer(c)' BY <1>3 DEF HasAnswer
<1>17. ASSUME NEW i \in Pending' PROVE Untried(i)'
  <2>1. i \in Pending /\ i \in 1..Len(taps) BY <1>1, <1>12 DEF Types
  <2>2. taps'[i].lost \/ taps'[i].kept \/ taps'[i].applied = 0
    <3>1. CASE \A c \in Callers : Asked(c) => req[c].tap # i
      BY <1>10, <2>1, <3>1 DEF QueueInv, Untried
    <3>2. CASE \E c \in Callers : Asked(c) /\ req[c].tap = i
      <4>1. PICK c \in Callers : Asked(c) /\ req[c].tap = i BY <3>2
      <4>2. taps[i].lost \/ taps[i].kept \/ taps[i].applied = IF req[c].pc = "ok" THEN 1 ELSE 0
        BY <4>1 DEF QueueInv, HasAnswer
      <4>3. CASE req[c].pc = "ok"
        <5>1. req[c].got \in BOOLEAN BY <1>1 DEF Types, ApiCall
        <5>2. told(i, FALSE) \/ told(i, TRUE) BY <4>1, <4>3, <5>1
        <5> QED BY <1>10, <2>1, <5>2
      <4>4. CASE req[c].pc # "ok" BY <1>10, <2>1, <4>2, <4>4
      <4> QED BY <4>3, <4>4
    <3> QED BY <3>1, <3>2
  <2> QED BY <2>2 DEF Untried
<1>18. AppliedOnce' BY <1>1, <1>8, <1>10 DEF QueueInv, AppliedOnce
<1> QED BY <1>11, <1>13, <1>14, <1>15, <1>16, <1>17, <1>18 DEF QueueInv

-----------------------------------------------------------------------------
(* Theorems *)

LEMMA QueueInvStep == QueueInv /\ [Next]_vars => QueueInv'
<1> SUFFICES ASSUME QueueInv, [Next]_vars PROVE QueueInv'
  OBVIOUS
<1>1. CASE Fetching BY <1>1, DecideStep, UnauthorizedStep, LoseStep DEF Fetching
<1>2. CASE RefreshOk \/ RefreshFail BY <1>2, RefreshStep
<1>3. CASE \E op \in Ops : Tap(op) BY <1>3, TapStep, OfflineAssumption
<1>4. CASE PageAnswered BY <1>4, PageAnsweredStep
<1>5. CASE Enqueue BY <1>5, EnqueueStep
<1>6. CASE Draining
  BY <1>6, ListQueueStep, SendNextStep, SettleStep, AnsweredStep, FinishStep DEF Draining
<1>7. CASE \/ Sync \/ (\E u \in Users : SignIn(u)) \/ SignOut \/ Expire \/ GoOffline
           \/ GoOnline \/ (\E u \in Users, op \in AllOps : Elsewhere(u, op))
  BY <1>7, AroundStep
<1>8. CASE Reload BY <1>8, ReloadStep
<1>9. CASE UNCHANGED vars
  BY <1>9 DEF vars, QueueInv, Types, IdleIsNone, OneDrain, PageFirst, Turn, HasAnswer,
              Untried, AppliedOnce, Pending, Asked
<1> QED BY <1>1, <1>2, <1>3, <1>4, <1>5, <1>6, <1>7, <1>8, <1>9 DEF Next

LEMMA QueueInvAlways == Spec => []QueueInv
<1> QED BY QueueInvInit, QueueInvStep, PTL DEF Spec

(* The variables of the queue's model keep their types, and a punch is on its
   way from the page or saved in the queue, never both: postPunchOrQueue
   saves a punch only when its request has ended. *)
THEOREM QueueTypeCorrect == Spec => []TypeOK
<1> QED BY QueueInvAlways, QueueInvGives, PTL

(* drainQueue sends the punches in the order in which they were saved, and
   the server carries one out twice only if an answer to it was lost or the
   phone did not remove it after the answer: for any number of drains that
   the single drainInFlight keeps apart, of taps, lost answers and reloads. *)
THEOREM ReplaysInTurn == Spec => []ReplayedInTurn
<1> QED BY QueueInvAlways, QueueInvGives, PTL
=============================================================================
