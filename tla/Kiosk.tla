------------------------------- MODULE Kiosk -------------------------------
(***************************************************************************)
(* The tablets of a company: pairing codes and devices, and the lockout    *)
(* after bad PINs, which lives in the memory of the process.  Two screens  *)
(* are two tabs of one tablet's browser.                                   *)
(***************************************************************************)
EXTENDS Integers, Sequences, FiniteSets

CONSTANTS
  Screens,
  PinOwners,   \* the employees whose PINs are typed
  BadPinLimit, \* KIOSK_BAD_PIN_LIMIT
  MaxCodes,    \* bound of the model: pairing codes
  MaxDevices   \* bound of the model

ASSUME KioskAssumption ==
  /\ IsFiniteSet(Screens)
  /\ BadPinLimit \in Nat \ {0} /\ MaxCodes \in Nat /\ MaxDevices \in Nat

VARIABLES
  codes,      \* kiosk_pairing_codes: "open" or "over", by id
  devices,    \* kiosk_devices, by id
  lockouts,   \* the lockout of each device, in memory
  screen,     \* what each screen is doing, and the device whose token it uses
  storedId    \* the device whose token is in localStorage

kioskVars == <<codes, devices, lockouts, screen, storedId>>

Nobody == "nobody"
Someone == PinOwners \cup {Nobody}

Device == [code : Nat, revoked : BOOLEAN]

(* tries: history, the bad PINs since the lockout was last cleared. *)
Lockout == [failures : Nat, lock : {"none", "on", "over"}, tries : Nat]
NoLockout == [failures |-> 0, lock |-> "none", tries |-> 0]

(* who: the session's employee, or the one whose PIN is being compared. *)
Screen == [pc : {"home", "pairing", "comparing", "session"}, device : Nat,
           code : Nat, who : Someone]

(* Variables have their types, and refer to each other. *)
KioskTypeOK ==
  /\ codes \in Seq({"open", "over"})
  /\ devices \in Seq(Device) /\ \A d \in DOMAIN devices : devices[d].code \in DOMAIN codes
  /\ lockouts \in [DOMAIN devices -> Lockout]
  /\ screen \in [Screens -> Screen]
  /\ \A s \in Screens : screen[s].device \in 0..Len(devices)
  /\ storedId \in 0..Len(devices)

HomeScreen(d) == [pc |-> "home", device |-> d, code |-> 0, who |-> Nobody]

KioskInit ==
  /\ codes = <<>> /\ devices = <<>> /\ lockouts = <<>>
  /\ screen = [s \in Screens |-> HomeScreen(0)] /\ storedId = 0

-----------------------------------------------------------------------------
(* Pairing *)

IssuePairingCode ==
  /\ Len(codes) < MaxCodes
  /\ codes' = Append(codes, "open")
  /\ UNCHANGED <<devices, lockouts, screen, storedId>>

PairingCodeExpires(c) ==
  /\ codes[c] = "open" /\ \A s \in Screens : screen[s].code # c
  /\ codes' = [codes EXCEPT ![c] = "over"]
  /\ UNCHANGED <<devices, lockouts, screen, storedId>>

(* Mutant of BeginPairing: SELECT without FOR UPDATE. *)
BeginPairingUnlocked(s, c) ==
  /\ screen[s].pc = "home" /\ codes[c] = "open"
  /\ screen' = [screen EXCEPT ![s].pc = "pairing", ![s].code = c]
  /\ UNCHANGED <<codes, devices, lockouts, storedId>>

(* The transaction has the row of the code. *)
BeginPairing(s, c) ==
  /\ screen[s].pc = "home" /\ codes[c] = "open"
  /\ \A s2 \in Screens : screen[s2].code # c
  /\ screen' = [screen EXCEPT ![s].pc = "pairing", ![s].code = c]
  /\ UNCHANGED <<codes, devices, lockouts, storedId>>

CommitPairing(s) ==
  /\ screen[s].pc = "pairing" /\ Len(devices) < MaxDevices
  /\ devices' = Append(devices, [code |-> screen[s].code, revoked |-> FALSE])
  /\ lockouts' = Append(lockouts, NoLockout)
  /\ codes' = [codes EXCEPT ![screen[s].code] = "over"]
  /\ screen' = [screen EXCEPT ![s] = HomeScreen(Len(devices) + 1)]
  /\ storedId' = Len(devices) + 1

PairingFails(s) ==
  /\ screen[s].pc = "pairing"
  /\ screen' = [screen EXCEPT ![s] = HomeScreen(@.device)]
  /\ UNCHANGED <<codes, devices, lockouts, storedId>>

RevokeKioskDevice(d) ==
  /\ ~devices[d].revoked
  /\ devices' = [devices EXCEPT ![d].revoked = TRUE]
  /\ UNCHANGED <<codes, lockouts, screen, storedId>>

(* A tab is opened, or left alone: what it had typed, or its session, is
   forgotten, and it reads the token from localStorage. *)
OpenScreen(s) ==
  /\ screen[s].pc \in {"home", "session"} /\ screen[s] # HomeScreen(storedId)
  /\ screen' = [screen EXCEPT ![s] = HomeScreen(storedId)]
  /\ UNCHANGED <<codes, devices, lockouts, storedId>>

-----------------------------------------------------------------------------
(* PINs at the kiosk *)

(* requireKioskDevice *)
Works(d) == d # 0 /\ ~devices[d].revoked

(* isDeviceLocked clears a lockout whose time is over; the PIN's owner, if it
   has one, is looked up, and the hash compared some time later. *)
EnterPin(s, e) ==
  LET d == screen[s].device IN
  /\ screen[s].pc = "home" /\ Works(d) /\ lockouts[d].lock # "on"
  /\ lockouts' = [lockouts EXCEPT ![d] = IF @.lock = "over" THEN NoLockout ELSE @]
  /\ screen' = [screen EXCEPT ![s].pc = "comparing", ![s].who = e]
  /\ UNCHANGED <<codes, devices, storedId>>

AcceptPin(s) ==
  LET d == screen[s].device IN
  /\ screen[s].pc = "comparing" /\ screen[s].who # Nobody
  /\ lockouts' = [lockouts EXCEPT ![d] = NoLockout]
  /\ screen' = [screen EXCEPT ![s].pc = "session"]
  /\ UNCHANGED <<codes, devices, storedId>>

CountBadPin(l, limit) ==
  IF l.failures + 1 >= limit THEN [failures |-> 0, lock |-> "on", tries |-> l.tries + 1]
  ELSE [l EXCEPT !.failures = @ + 1, !.tries = @ + 1]

RefusePinTo(s, limit) ==
  /\ screen[s].pc = "comparing" /\ screen[s].who = Nobody
  /\ lockouts' = [lockouts EXCEPT ![screen[s].device] = CountBadPin(@, limit)]
  /\ screen' = [screen EXCEPT ![s] = HomeScreen(@.device)]
  /\ UNCHANGED <<codes, devices, storedId>>

(* Mutant of RefusePin: > for >=. *)
RefusePinLate(s) == RefusePinTo(s, BadPinLimit + 1)

RefusePin(s) == RefusePinTo(s, BadPinLimit)

(* A punch of the session's employee, and the screen goes home. *)
PunchAtKiosk(s) ==
  /\ screen[s].pc = "session" /\ Works(screen[s].device)
  /\ screen' = [screen EXCEPT ![s] = HomeScreen(@.device)]
  /\ UNCHANGED <<codes, devices, lockouts, storedId>>

LockoutEnds(d) ==
  /\ lockouts[d].lock = "on"
  /\ lockouts' = [lockouts EXCEPT ![d].lock = "over"]
  /\ UNCHANGED <<codes, devices, screen, storedId>>

(* The map of lockouts drops an entry whose lockout has long been over. *)
LockoutDropped(d) ==
  /\ lockouts[d].lock = "over"
  /\ lockouts' = [lockouts EXCEPT ![d] = NoLockout]
  /\ UNCHANGED <<codes, devices, screen, storedId>>

(* The process restarts: lockouts are forgotten, and so are requests. *)
KioskRestarts ==
  /\ \E d \in DOMAIN devices : lockouts[d] # NoLockout
  /\ lockouts' = [d \in DOMAIN devices |-> NoLockout]
  /\ screen' = [s \in Screens |-> IF screen[s].pc = "session" THEN screen[s]
                                  ELSE HomeScreen(screen[s].device)]
  /\ UNCHANGED <<codes, devices, storedId>>

-----------------------------------------------------------------------------
KioskNext ==
  \/ IssuePairingCode
  \/ \E c \in DOMAIN codes :
       PairingCodeExpires(c) \/ \E s \in Screens : BeginPairing(s, c)
  \/ \E s \in Screens :
       \/ CommitPairing(s)
       \/ PairingFails(s)
       \/ OpenScreen(s)
       \/ \E e \in Someone : EnterPin(s, e)
       \/ AcceptPin(s)
       \/ RefusePin(s)
       \/ PunchAtKiosk(s)
  \/ \E d \in DOMAIN devices : RevokeKioskDevice(d) \/ LockoutEnds(d) \/ LockoutDropped(d)
  \/ KioskRestarts

KioskSpec == KioskInit /\ [][KioskNext]_kioskVars

-----------------------------------------------------------------------------
(* Properties *)

(* A pairing code pairs one device at most, however many screens send it. *)
OneDevicePerCode ==
  \A d, d2 \in DOMAIN devices : devices[d].code = devices[d2].code => d = d2

(* Until a lockout is cleared, a device accepts no more bad PINs than the
   limit, but for those that were being compared when it was reached. *)
BadPinsBounded ==
  \A d \in DOMAIN devices : lockouts[d].tries <= BadPinLimit + Cardinality(Screens) - 1
=============================================================================
