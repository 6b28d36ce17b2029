---------------------------- MODULE OfflineQueue ----------------------------
(***************************************************************************)
(* The offline punch queue of a phone (one tab of the web client), the     *)
(* session it punches under, and the server it punches on.  A punch that   *)
(* the page cannot deliver is saved in IndexedDB and replayed by a drain   *)
(* of the queue: at boot, when the browser comes back online, when the     *)
(* session changes, or when somebody presses "Sync now".                   *)
(*                                                                         *)
(* Requests and their answers get lost, the access token expires, the tab  *)
(* is reloaded, and the phone changes hands.  Everything between two       *)
(* awaits of the client is one step.                                       *)
(***************************************************************************)
EXTENDS Integers, Sequences

CONSTANTS
  Users,    \* who signs in on this phone
  Null,
  Page,     \* the punch page, which posts one punch at a time
  Drains,   \* calls of drainQueue that might overlap
  Ops,      \* the buttons of the page
  MaxTaps   \* bound of the model

VARIABLES
  session,  \* the user of authStore's session
  expired,  \* the session's access token has expired
  refresh,  \* the user whose token rotation is in flight (inFlightRefresh)
  online,   \* navigator.onLine
  taps,     \* every punch that was tapped, with what has become of it
  queue,    \* the store pending_punches: ids of taps, oldest first
  drain,    \* what each call of drainQueue still has to send
  req,      \* what each caller's apiFetch has reached
  clock     \* the server: each employee's punch state

vars == <<session, expired, refresh, online, taps, queue, drain, req, clock>>

AllOps == {"clockIn", "clockOut", "breakIn", "breakOut"}

ASSUME OfflineAssumption ==
  /\ Null \notin Users /\ Page \notin Drains
  /\ Ops \subseteq AllOps
  /\ MaxTaps \in Nat

Callers == {Page} \cup Drains

(* applied counts how often the server has carried the punch out (more than
   twice is twice); lost: an answer that said so never arrived; kept: one
   arrived, but the punch was not removed from the queue after it. *)
Tapped == [op : AllOps, user : Users, applied : 0..2, lost : BOOLEAN, kept : BOOLEAN]

(* ok and refused are answers; denied is a 401 that apiFetch has given up
   on, lost what it throws for no answer or a 5xx.  got: a drain has its
   answer, and waits for IndexedDB to remove the punch. *)
ApiCall == [pc    : {"idle", "sent", "ok", "refused", "refreshing", "denied", "lost"},
            tap   : Nat,
            as    : Users \cup {Null},
            stale : BOOLEAN,
            again : BOOLEAN,
            got   : BOOLEAN]

NoRequest ==
  [pc |-> "idle", tap |-> 0, as |-> Null, stale |-> FALSE, again |-> FALSE,
   got |-> FALSE]

Drain == [pc : {"idle", "listing", "sending"}, todo : SUBSET Nat]

NoDrain == [pc |-> "idle", todo |-> {}]

(* The variables hold sessions, punches and requests, and a punch is either
   on its way from the page or saved in the queue, never both. *)
TypeOK ==
  /\ session \in Users \cup {Null} /\ refresh \in Users \cup {Null}
  /\ expired \in BOOLEAN /\ online \in BOOLEAN
  /\ taps \in Seq(Tapped)
  /\ queue \subseteq 1..Len(taps)
  /\ drain \in [Drains -> Drain]
  /\ req \in [Callers -> ApiCall]
  /\ clock \in [Users -> {"off", "work", "break"}]
  /\ req[Page].tap \notin queue

Init ==
  /\ session = Null /\ expired = FALSE /\ refresh = Null /\ online = TRUE
  /\ taps = <<>> /\ queue = {}
  /\ drain = [d \in Drains |-> NoDrain]
  /\ req = [c \in Callers |-> NoRequest]
  /\ clock = [u \in Users |-> "off"]

-----------------------------------------------------------------------------
(* The queue flusher *)

(* Mutant of CanDrain: drainInFlight is not looked at. *)
CanDrainAgain == \E d \in Drains : drain[d].pc = "idle"

(* drainInFlight: one drain at a time. *)
CanDrain == \A d \in Drains : drain[d].pc = "idle"

Begun(drains) ==
  [drains EXCEPT ![CHOOSE d \in Drains : drains[d].pc = "idle"] =
                   [pc |-> "listing", todo |-> {}]]

(* tick, for a session of user: another user's coming, or a user's leaving,
   empties the queue; a session that is online drains it. *)
Tick(user) ==
  /\ queue' = IF session \in {Null, user} THEN queue ELSE {}
  /\ drain' = IF online /\ user # Null /\ CanDrain THEN Begun(drain) ELSE drain

-----------------------------------------------------------------------------
(* apiFetch *)

Sent(i) ==
  [pc |-> "sent", tap |-> i, as |-> session, stale |-> expired, again |-> FALSE,
   got |-> FALSE]

CanPunch(op, state) ==
  CASE op = "clockIn"  -> state = "off"
    [] op = "clockOut" -> state # "off"
    [] op = "breakIn"  -> state = "work"
    [] op = "breakOut" -> state = "break"

Punched(op) ==
  CASE op = "clockOut" -> "off" [] op = "breakIn" -> "break" [] OTHER -> "work"

Twice(n) == IF n = 2 THEN 2 ELSE n + 1

(* The request carries a live token: the server punches for that token's
   user, or refuses with a 4xx, of which there are more reasons than the
   state of the employee's clock. *)
Decide(c) ==
  LET i == req[c].tap
      u == req[c].as
  IN  /\ online /\ req[c].pc = "sent" /\ u # Null /\ ~req[c].stale
      /\ \/ /\ CanPunch(taps[i].op, clock[u])
            /\ clock' = [clock EXCEPT ![u] = Punched(taps[i].op)]
            /\ taps' = [taps EXCEPT ![i].applied = Twice(@)]
            /\ req' = [req EXCEPT ![c].pc = "ok"]
         \/ /\ req' = [req EXCEPT ![c].pc = "refused"]
            /\ UNCHANGED <<taps, clock>>
  /\ UNCHANGED <<session, expired, refresh, online, queue, drain>>

(* A 401: the first one waits for the refresh that is in flight, or starts
   one; without a session, or on the retry, it is thrown. *)
Unauthorized(c) ==
  /\ online /\ req[c].pc = "sent"
  /\ req[c].as = Null \/ req[c].stale
  /\ IF session = Null \/ req[c].again
     THEN /\ req' = [req EXCEPT ![c].pc = "denied"]
          /\ UNCHANGED refresh
     ELSE /\ req' = [req EXCEPT ![c].pc = "refreshing"]
          /\ refresh' = IF refresh = Null THEN session ELSE refresh
  /\ UNCHANGED <<session, expired, online, taps, queue, drain, clock>>

(* No answer arrives, or a 5xx. *)
Lose(c) ==
  /\ req[c].pc \in {"sent", "ok", "refused"} /\ ~req[c].got
  /\ req' = [req EXCEPT ![c].pc = "lost"]
  /\ taps' = [taps EXCEPT ![req[c].tap].lost = @ \/ req[c].pc = "ok"]
  /\ UNCHANGED <<session, expired, refresh, online, queue, drain, clock>>

(* The rotation succeeds: its user's session is stored, and whoever waited
   sends again. *)
RefreshOk ==
  /\ online /\ refresh # Null
  /\ session' = refresh /\ expired' = FALSE /\ refresh' = Null
  /\ Tick(refresh)
  /\ req' = [c \in Callers |->
               IF req[c].pc # "refreshing" THEN req[c]
               ELSE [req[c] EXCEPT !.pc = "sent", !.as = refresh,
                                   !.stale = FALSE, !.again = TRUE]]
  /\ UNCHANGED <<online, taps, clock>>

(* The rotation fails, for whatever reason: the session is dropped, and
   whoever waited gets its 401. *)
RefreshFail ==
  /\ refresh # Null
  /\ session' = Null /\ expired' = FALSE /\ refresh' = Null
  /\ Tick(Null)
  /\ req' = [c \in Callers |->
               IF req[c].pc # "refreshing" THEN req[c]
               ELSE [req[c] EXCEPT !.pc = "denied"]]
  /\ UNCHANGED <<online, taps, clock>>

-----------------------------------------------------------------------------
(* The punch page *)

Tap(op) ==
  /\ session # Null /\ req[Page] = NoRequest /\ Len(taps) < MaxTaps
  /\ taps' = Append(taps, [op |-> op, user |-> session, applied |-> 0,
                           lost |-> FALSE, kept |-> FALSE])
  /\ req' = [req EXCEPT ![Page] = Sent(Len(taps) + 1)]
  /\ UNCHANGED <<session, expired, refresh, online, queue, drain, clock>>

(* An answer, or a 4xx that the page shows. *)
PageAnswered ==
  /\ req[Page].pc \in {"ok", "refused", "denied"}
  /\ req' = [req EXCEPT ![Page] = NoRequest]
  /\ UNCHANGED <<session, expired, refresh, online, taps, queue, drain, clock>>

(* A transient failure: the punch is saved. *)
Enqueue ==
  /\ req[Page].pc = "lost"
  /\ queue' = queue \cup {req[Page].tap}
  /\ req' = [req EXCEPT ![Page] = NoRequest]
  /\ UNCHANGED <<session, expired, refresh, online, taps, drain, clock>>

-----------------------------------------------------------------------------
(* drainQueue *)

ListQueue(d) ==
  /\ drain[d].pc = "listing"
  /\ drain' = [drain EXCEPT ![d] = [pc |-> "sending", todo |-> queue]]
  /\ UNCHANGED <<session, expired, refresh, online, taps, queue, req, clock>>

Oldest(ids) == CHOOSE i \in ids : \A k \in ids : i <= k

(* The request goes out under whatever session there is by now. *)
SendNext(d) ==
  /\ drain[d].pc = "sending" /\ drain[d].todo # {} /\ req[d] = NoRequest
  /\ req' = [req EXCEPT ![d] = Sent(Oldest(drain[d].todo))]
  /\ UNCHANGED <<session, expired, refresh, online, taps, queue, drain, clock>>

(* Delivered, or a 4xx: the punch is to be dropped. *)
Settle(d) ==
  /\ req[d].pc \in {"ok", "refused", "denied"} /\ ~req[d].got
  /\ req' = [req EXCEPT ![d].got = TRUE]
  /\ UNCHANGED <<session, expired, refresh, online, taps, queue, drain, clock>>

(* removeFromQueue has deleted it. *)
Remove(d) ==
  /\ req[d].got
  /\ queue' = queue \ {req[d].tap}
  /\ drain' = [drain EXCEPT ![d].todo = @ \ {req[d].tap}]
  /\ req' = [req EXCEPT ![d] = NoRequest]
  /\ UNCHANGED <<session, expired, refresh, online, taps, clock>>

(* The delete rejects: after an ok that is caught as one more transient
   failure, after a 4xx nothing catches it; either way the drain is over. *)
RemoveFails(d) ==
  /\ req[d].got
  /\ taps' = [taps EXCEPT ![req[d].tap].kept = @ \/ req[d].pc = "ok"]
  /\ drain' = [drain EXCEPT ![d] = NoDrain]
  /\ req' = [req EXCEPT ![d] = NoRequest]
  /\ UNCHANGED <<session, expired, refresh, online, queue, clock>>

(* Mutant of GiveUp: a transient failure goes on with the next punch. *)
PassOver(d) ==
  /\ req[d].pc = "lost"
  /\ drain' = [drain EXCEPT ![d].todo = @ \ {req[d].tap}]
  /\ req' = [req EXCEPT ![d] = NoRequest]
  /\ UNCHANGED <<session, expired, refresh, online, taps, queue, clock>>

(* Mutant of GiveUp: the early end leaves drainInFlight set. *)
GiveUpForGood(d) == req[d].pc = "lost" /\ UNCHANGED vars

(* A transient failure ends the drain. *)
GiveUp(d) ==
  /\ req[d].pc = "lost"
  /\ drain' = [drain EXCEPT ![d] = NoDrain]
  /\ req' = [req EXCEPT ![d] = NoRequest]
  /\ UNCHANGED <<session, expired, refresh, online, taps, queue, clock>>

Finish(d) ==
  /\ drain[d].pc = "sending" /\ drain[d].todo = {}
  /\ drain' = [drain EXCEPT ![d] = NoDrain]
  /\ UNCHANGED <<session, expired, refresh, online, taps, queue, req, clock>>

(* The banner's "Sync now". *)
Sync ==
  /\ online /\ queue # {} /\ CanDrain
  /\ drain' = Begun(drain)
  /\ UNCHANGED <<session, expired, refresh, online, taps, queue, req, clock>>

-----------------------------------------------------------------------------
(* People, the network and the browser *)

SignIn(u) ==
  /\ u # session
  /\ session' = u /\ expired' = FALSE
  /\ Tick(u)
  /\ UNCHANGED <<refresh, online, taps, req, clock>>

SignOut ==
  /\ session # Null
  /\ session' = Null /\ expired' = FALSE
  /\ Tick(Null)
  /\ UNCHANGED <<refresh, online, taps, req, clock>>

(* The access token lives 15 minutes. *)
Expire ==
  /\ session # Null /\ ~expired
  /\ expired' = TRUE
  /\ UNCHANGED <<session, refresh, online, taps, queue, drain, req, clock>>

GoOffline ==
  /\ online /\ online' = FALSE
  /\ UNCHANGED <<session, expired, refresh, taps, queue, drain, req, clock>>

(* The event "online" ticks. *)
GoOnline ==
  /\ ~online /\ online' = TRUE
  /\ drain' = IF session # Null /\ CanDrain THEN Begun(drain) ELSE drain
  /\ UNCHANGED <<session, expired, refresh, taps, queue, req, clock>>

(* The tab is reloaded or killed: the session and the queue are on disk,
   everything else is lost, the answers on their way included, and what was
   being removed may still be there.  The boot ticks. *)
Reload ==
  LET none == [d \in Drains |-> NoDrain]
      Told(i, got) ==
        \E c \in Callers : req[c].pc = "ok" /\ req[c].tap = i /\ req[c].got = got
  IN  /\ req' = [c \in Callers |-> NoRequest]
      /\ taps' = [i \in DOMAIN taps |->
                    [taps[i] EXCEPT !.lost = @ \/ Told(i, FALSE),
                                    !.kept = @ \/ Told(i, TRUE)]]
      /\ drain' = IF online /\ session # Null THEN Begun(none) ELSE none
      /\ refresh' = Null
      /\ UNCHANGED <<session, expired, online, queue, clock>>

(* The employee punches at a kiosk, or the sweep clocks them out. *)
Elsewhere(u, op) ==
  /\ CanPunch(op, clock[u])
  /\ clock' = [clock EXCEPT ![u] = Punched(op)]
  /\ UNCHANGED <<session, expired, refresh, online, taps, queue, drain, req>>

-----------------------------------------------------------------------------
Fetching == \E c \in Callers : Decide(c) \/ Unauthorized(c) \/ Lose(c)

Draining ==
  \E d \in Drains :
    ListQueue(d) \/ SendNext(d) \/ Settle(d) \/ Remove(d) \/ RemoveFails(d)
      \/ GiveUp(d) \/ Finish(d)

Next ==
  \/ Fetching
  \/ RefreshOk
  \/ RefreshFail
  \/ \E op \in Ops : Tap(op)
  \/ PageAnswered
  \/ Enqueue
  \/ Draining
  \/ Sync
  \/ \E u \in Users : SignIn(u)
  \/ SignOut
  \/ Expire
  \/ GoOffline
  \/ GoOnline
  \/ Reload
  \/ \E u \in Users, op \in AllOps : Elsewhere(u, op)

Spec == Init /\ [][Next]_vars

(* The client runs, and every request comes to an end, be it without an
   answer. *)
Fairness ==
  /\ WF_vars(RefreshOk \/ RefreshFail)
  /\ WF_vars(\E d \in Drains : ListQueue(d) \/ SendNext(d))
  /\ WF_vars(\E d \in Drains : Decide(d) \/ Unauthorized(d) \/ Lose(d))
  /\ WF_vars(\E d \in Drains : Settle(d))
  /\ WF_vars(\E d \in Drains : Remove(d) \/ RemoveFails(d))
  /\ WF_vars(\E d \in Drains : GiveUp(d) \/ Finish(d))

FairSpec == Spec /\ Fairness

-----------------------------------------------------------------------------
(* Properties *)

(* The server carries a punch out twice only if an answer to it was lost, or
   the phone did not remove it after the answer. *)
AppliedOnce ==
  \A i \in DOMAIN taps : taps[i].applied > 1 => taps[i].lost \/ taps[i].kept

(* Punches are replayed in the order in which they were saved: none is sent
   ahead of an older one that is still in the queue. *)
OldestFirst ==
  \A d \in Drains : req[d].pc # "idle" => \A i \in queue : req[d].tap <= i

(* What a replay promises of every punch: its turn, and to be sent again only
   while it is in the queue for want of an answer or of a removal. *)
ReplayedInTurn == AppliedOnce /\ OldestFirst

(* Once the tab is not reloaded any more, every drain ends, however its
   requests and removals end: the next one is not locked out by drainInFlight.
   (Whether there is a next one is another matter: none begins because the
   appliance has come back.) *)
DrainsEnd == <>[][~Reload]_vars => []<>CanDrain

(* A saved punch waits for a fresh login: short of a person's signing in or
   out, it leaves the queue only with the server's decision on it. *)
KeptForLogin ==
  [][\/ SignOut \/ \E u \in Users : SignIn(u)
     \/ \A i \in queue \ queue' :
          \E d \in Drains : req[d].tap = i /\ req[d].pc \in {"ok", "refused"}]_vars
=============================================================================
