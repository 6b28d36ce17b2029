---------------------------- MODULE KioskScreen ----------------------------
(***************************************************************************)
(* The page of a paired tablet.  Somebody identifies with a PIN or a badge *)
(* and punches; answers arrive whenever they like, also after the page has *)
(* gone home or the next person stands before it.  What is asked while the *)
(* browser is offline is held by the query library, and sent later.        *)
(***************************************************************************)

CONSTANT Patrons  \* employees who walk up to the tablet

VARIABLES
  authMode,      \* what the company lets people identify with
  shown,         \* the screen
  identified,    \* the employee of the page's session
  scanInFlight,  \* the scanner is paused
  asked,         \* the request of each of the page's three mutations
  idleTimer,     \* the inactivity timer is running
  connected      \* the browser is online

tabletVars == <<authMode, shown, identified, scanInFlight, asked, idleTimer, connected>>

AuthModes == {"pin", "qr", "both"}
NoPatron == "nobody"
Asking == [pc : {"none", "held", "sent"}, who : Patrons \cup {NoPatron}]
NotAsking == [pc |-> "none", who |-> NoPatron]

(* Variables have their types, and nothing is held while online. *)
TabletTypeOK ==
  /\ authMode \in AuthModes
  /\ shown \in {"pin", "scan", "menu", "lunch", "confirmation"}
  /\ identified \in Patrons \cup {NoPatron}
  /\ scanInFlight \in BOOLEAN /\ idleTimer \in BOOLEAN /\ connected \in BOOLEAN
  /\ asked \in [{"verify", "scan", "punch"} -> Asking]
  /\ connected => \A kind \in DOMAIN asked : asked[kind].pc # "held"

(* The screen on which people identify. *)
DefaultScreen(mode) == IF mode = "pin" THEN "pin" ELSE "scan"

AtHome == shown \in {"pin", "scan"}

TabletInit ==
  /\ authMode \in AuthModes /\ shown = DefaultScreen(authMode)
  /\ identified = NoPatron /\ scanInFlight = FALSE
  /\ asked = [kind \in {"verify", "scan", "punch"} |-> NotAsking]
  /\ idleTimer = TRUE /\ connected = TRUE

-----------------------------------------------------------------------------
(* Mutant of ResetToPin: the scanner stays paused. *)
ResetKeepingScan ==
  /\ shown' = DefaultScreen(authMode) /\ identified' = NoPatron
  /\ UNCHANGED scanInFlight

(* resetToPin, of the idle timer, the countdown, "Not me" and "Done". *)
ResetToPin ==
  /\ shown' = DefaultScreen(authMode) /\ identified' = NoPatron
  /\ scanInFlight' = FALSE

(* useMutation, mutate: sent at once, or held until the browser is online. *)
Mutate(kind, who) ==
  /\ asked[kind].pc = "none"
  /\ asked' = [asked EXCEPT ![kind] = [pc |-> IF connected THEN "sent" ELSE "held",
                                       who |-> who]]

-----------------------------------------------------------------------------
(* Touches, each of which starts the idle timer anew *)

Touch ==
  /\ idleTimer' = TRUE
  /\ UNCHANGED <<authMode, shown, identified, scanInFlight, asked, connected>>

(* who: the owner of the PIN, if it has one. *)
SubmitPin(who) ==
  /\ shown = "pin" /\ Mutate("verify", who)
  /\ idleTimer' = TRUE
  /\ UNCHANGED <<authMode, shown, identified, scanInFlight, connected>>

UseTheOther ==
  /\ authMode = "both" /\ AtHome
  /\ shown' = IF shown = "pin" THEN "scan" ELSE "pin"
  /\ idleTimer' = TRUE
  /\ UNCHANGED <<authMode, identified, scanInFlight, asked, connected>>

(* A button of the menu, or an answer to the question about lunch. *)
PressPunch ==
  /\ shown \in {"menu", "lunch"} /\ identified # NoPatron /\ Mutate("punch", identified)
  /\ idleTimer' = TRUE
  /\ UNCHANGED <<authMode, shown, identified, scanInFlight, connected>>

(* Clock-out after a long stretch, and back. *)
AskAboutLunch ==
  /\ shown \in {"menu", "lunch"} /\ identified # NoPatron /\ asked["punch"].pc = "none"
  /\ shown' = IF shown = "menu" THEN "lunch" ELSE "menu"
  /\ idleTimer' = TRUE
  /\ UNCHANGED <<authMode, identified, scanInFlight, asked, connected>>

(* "Not me", which waits for no answer, and "Done". *)
Dismiss ==
  /\ (shown = "menu" /\ identified # NoPatron) \/ shown = "confirmation"
  /\ ResetToPin
  /\ idleTimer' = TRUE
  /\ UNCHANGED <<authMode, asked, connected>>

-----------------------------------------------------------------------------
(* What happens without a touch *)

(* A badge is held up to the camera.  who: its owner, if it has one. *)
HandleDecode(who) ==
  /\ shown = "scan" /\ ~scanInFlight /\ Mutate("scan", who)
  /\ scanInFlight' = TRUE
  /\ UNCHANGED <<authMode, shown, identified, idleTimer, connected>>

(* The timer fires, and runs no more until the next touch. *)
IdleFires ==
  /\ idleTimer /\ idleTimer' = FALSE
  /\ ResetToPin
  /\ UNCHANGED <<authMode, asked, connected>>

CountdownEnds ==
  /\ shown = "confirmation" /\ ResetToPin
  /\ UNCHANGED <<authMode, asked, idleTimer, connected>>

Answered(kind) ==
  /\ asked[kind].pc = "sent"
  /\ asked' = [asked EXCEPT ![kind] = NotAsking]
  /\ UNCHANGED <<authMode, idleTimer, connected>>

(* verify or scan succeeds: whatever the page shows by now. *)
Identify(kind) ==
  /\ Answered(kind) /\ asked[kind].who # NoPatron
  /\ identified' = asked[kind].who /\ shown' = "menu"
  /\ UNCHANGED scanInFlight

VerifyFails ==
  Answered("verify") /\ UNCHANGED <<shown, identified, scanInFlight>>

ScanFails ==
  /\ Answered("scan") /\ scanInFlight' = FALSE
  /\ UNCHANGED <<shown, identified>>

PunchDone ==
  /\ Answered("punch") /\ asked["punch"].who # NoPatron
  /\ shown' = "confirmation"
  /\ UNCHANGED <<identified, scanInFlight>>

(* Without a session, too: then the menu is an empty page. *)
PunchFails ==
  /\ Answered("punch") /\ shown' = "menu"
  /\ UNCHANGED <<identified, scanInFlight>>

(* kiosk/me brings another mode. *)
ModeChanges(mode) ==
  /\ mode # authMode /\ authMode' = mode
  /\ shown' = IF AtHome THEN DefaultScreen(mode) ELSE shown
  /\ idleTimer' = TRUE
  /\ UNCHANGED <<identified, scanInFlight, asked, connected>>

GoesOffline ==
  /\ connected /\ connected' = FALSE
  /\ UNCHANGED <<authMode, shown, identified, scanInFlight, asked, idleTimer>>

(* What was held is sent: a punch for the session the page has by now. *)
GoesOnline ==
  /\ ~connected /\ connected' = TRUE
  /\ asked' = [kind \in DOMAIN asked |->
                 IF asked[kind].pc # "held" THEN asked[kind]
                 ELSE [pc |-> "sent",
                       who |-> IF kind = "punch" THEN identified ELSE asked[kind].who]]
  /\ UNCHANGED <<authMode, shown, identified, scanInFlight, idleTimer>>

(* The page is loaded anew, or the tablet unpaired and paired again: what was
   asked is forgotten. *)
PageLoads ==
  /\ asked' = [kind \in DOMAIN asked |-> NotAsking]
  /\ ResetToPin
  /\ idleTimer' = TRUE
  /\ UNCHANGED <<authMode, connected>>

-----------------------------------------------------------------------------
TabletNext ==
  \/ Touch
  \/ \E who \in Patrons \cup {NoPatron} : SubmitPin(who) \/ HandleDecode(who)
  \/ UseTheOther
  \/ PressPunch
  \/ AskAboutLunch
  \/ Dismiss
  \/ IdleFires
  \/ CountdownEnds
  \/ \E kind \in {"verify", "scan"} : Identify(kind)
  \/ VerifyFails
  \/ ScanFails
  \/ PunchDone
  \/ PunchFails
  \/ \E mode \in AuthModes : ModeChanges(mode)
  \/ GoesOffline
  \/ GoesOnline
  \/ PageLoads

TabletSpec == TabletInit /\ [][TabletNext]_tabletVars

-----------------------------------------------------------------------------
(* Properties *)

(* When the page is back where people identify, nothing of the last one is
   left, whatever answers came late: no session that a tap could punch for,
   and no paused scanner that no answer will release. *)
HomeIsClean ==
  AtHome => /\ identified = NoPatron
            /\ scanInFlight => asked["scan"].pc # "none"
=============================================================================
