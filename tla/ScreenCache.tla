---------------------------- MODULE ScreenCache ----------------------------
(***************************************************************************)
(* The web client keeps the answers to its reads in a cache.  A screen     *)
(* shows what the cache holds, reads anew what is old when it opens, and   *)
(* reads again what a change of its own refreshes.                         *)
(*                                                                         *)
(* A behaviour follows one query of one person's tab, through the screens  *)
(* that show or change what it reads.  Changes are numbered; what the      *)
(* server keeps and what an answer carries are sets of their numbers.      *)
(***************************************************************************)
EXTENDS Naturals, Screens

CONSTANT
  MaxScreenEdits  \* bound: changes a behaviour makes

ASSUME ScreenAssumption == MaxScreenEdits \in Nat \ {0}

VARIABLES
  role,     \* the person's role
  query,    \* the query that is followed
  screen,   \* what is open
  chosen,   \* the selection on screen is the query's: its employee, week, filter
  loaded,   \* the cache holds data for the query
  shown,    \* the changes that the data contains
  stale,    \* the data is old, or was invalidated
  fetch,    \* the read under way
  failed,   \* the last read failed, and the screen says so
  submitted, \* the person's changes and how far they are
  kept,     \* the changes that the server has stored
  owed      \* history: the changes that the screen has to show

screenVars ==
  <<role, query, screen, chosen, loaded, shown, stale, fetch, failed, submitted, kept, owed>>

Edits == 1..MaxScreenEdits

-----------------------------------------------------------------------------
(* Which changes concern the query *)

(* The answer refreshes what is selected by then, not what was changed. *)
RefreshesSelection == {"timesheet", "myTimesheet", "myCurrentPunch", "prefs"}

(* The screen lets the person select another week, filter or search, too. *)
Selectable ==
  RefreshesSelection \cup
    {"employees", "jobs", "corrections", "weeklyGrid", "multiGrid", "missingTime"}

(* Changes of something that the screen goes on to show as it was: records
   made by a request whose second half failed or that waits for "Done". *)
MissingRefresh ==
  {<<Undelivered, "employees">>, <<Imported, "employees">>, <<InviteNotSent, "memberships">>}

Alters(change, q) == \E call \in change.calls : Routes[call].writes \cap Reads[q].reads # {}

(* What a change made on a screen does to a query. *)
EffectOn(s, change, q) ==
  [alters |-> Alters(change, q),
   refreshes |-> q \in change.refreshes,
   adopts |-> q \in change.adopts,
   owes |-> /\ Alters(change, q)
            /\ <<change, q>> \notin MissingRefresh]

(* The screen tells of the change to the query: it refreshes it, or shows it. *)
Touches(s, change, q) ==
  \/ q \in change.refreshes \cup change.adopts
  \/ Alters(change, q) /\ q \in Screens[s].shows

(* The queries that some answer refreshes.  The others, among them the name of
   the appliance in the bar and the assistant's button, are read when they are
   old, whatever is changed. *)
Followed ==
  UNION {change.refreshes \cup change.adopts : change \in UNION {Screens[s].changes : s \in DOMAIN Screens}}

(* What a person of a role may do to a query on a screen. *)
Effects ==
  [s \in DOMAIN Screens |-> [r \in Everyone |-> [q \in Queries |->
     {EffectOn(s, change, q) : change \in
        {c \in Screens[s].changes : Touches(s, c, q) /\ \A call \in c.calls : r \in Routes[call].roles}}]]]

(* The screens that matter to a query, and one that everyone may go to. *)
Relevant ==
  [q \in Queries |->
     {"PreferencesPage"} \cup
       {s \in DOMAIN Screens :
          q \in Screens[s].shows \/ \E change \in Screens[s].changes : Touches(s, change, q)}]

-----------------------------------------------------------------------------
(* State *)

NoEffect == [alters |-> FALSE, refreshes |-> FALSE, adopts |-> FALSE, owes |-> FALSE]

Unsent == [pc |-> "unsent", does |-> NoEffect, here |-> FALSE, aimed |-> FALSE, got |-> {}]
Done == [Unsent EXCEPT !.pc = "done"]

NoFetch == [pc |-> "idle", got |-> {}]
Asked == [pc |-> "asked", got |-> {}]

(* The type invariant. *)
ScreenTypeOK ==
  /\ role \in Everyone
  /\ query \in Followed
  /\ screen \in DOMAIN Screens
  /\ {chosen, loaded, stale, failed} \subseteq BOOLEAN
  /\ shown \subseteq Edits
  /\ fetch \in [pc : {"idle", "asked", "read"}, got : SUBSET Edits]
  /\ submitted \in [Edits -> [pc : {"unsent", "sent", "stored", "done"},
                            does : [DOMAIN NoEffect -> BOOLEAN],
                            here : BOOLEAN, aimed : BOOLEAN, got : SUBSET Edits]]
  /\ kept \subseteq Edits
  /\ owed \subseteq Edits

(* The query is active: something on screen shows it. *)
Active == query \in Screens[screen].shows /\ chosen

ScreenInit ==
  /\ role \in Everyone
  /\ query \in Followed
  /\ screen = "PreferencesPage"
  /\ chosen = TRUE
  /\ loaded = FALSE /\ shown = {} /\ stale = FALSE /\ failed = FALSE
  /\ fetch = IF Active THEN Asked ELSE NoFetch
  /\ submitted = [edit \in Edits |-> Unsent]
  /\ kept = {}
  /\ owed = {}

-----------------------------------------------------------------------------
(* Screens *)

(* What begins to be shown is read unless the cache has it and it is fresh. *)
Mount ==
  fetch' = IF ~Active /\ Active' /\ fetch.pc = "idle" /\ (~loaded \/ stale) THEN Asked ELSE fetch

(* Another page is opened, or a modal on this one.  The answer to a change
   that was made on a page which is gone still does what it would have. *)
SamePage(next) == Screens[next].page = Screens[screen].page

Open(next) ==
  /\ role \in Screens[next].reach /\ next # screen
  /\ screen' = next
  /\ chosen' \in IF query \in Selectable /\ ~SamePage(next) THEN BOOLEAN ELSE {chosen}
  /\ submitted' = [edit \in Edits |->
                   [submitted[edit] EXCEPT !.here = @ /\ SamePage(next)]]
  /\ UNCHANGED <<role, query, loaded, shown, stale, failed, kept, owed>>
  /\ Mount

(* Another employee, company, week or filter is selected. *)
Select ==
  /\ query \in Selectable \cap Screens[screen].shows
  /\ chosen' = ~chosen
  /\ submitted' = [edit \in Edits |->
                   [submitted[edit] EXCEPT !.aimed = IF submitted[edit].here THEN chosen' ELSE @]]
  /\ UNCHANGED <<role, query, screen, loaded, shown, stale, failed, kept, owed>>
  /\ Mount

-----------------------------------------------------------------------------
(* Changes *)

(* A button is off while the change it makes is under way. *)
SendChange(edit, does) ==
  /\ submitted[edit] = Unsent /\ \A earlier \in 1..(edit - 1) : submitted[earlier] # Unsent
  /\ query \in RefreshesSelection => chosen
  /\ does.adopts => \A other \in Edits : ~(submitted[other].does.adopts /\ submitted[other].here)
  /\ submitted' = [submitted EXCEPT ![edit] =
                   [pc |-> "sent", does |-> does, got |-> {},
                    aimed |-> chosen \/ query \notin RefreshesSelection,
                    here |-> does.adopts \/ query \in RefreshesSelection]]
  /\ UNCHANGED <<role, query, screen, chosen, loaded, shown, stale, fetch, failed, kept, owed>>

StoreChange(edit) ==
  /\ submitted[edit].pc = "sent"
  /\ kept' = IF submitted[edit].does.alters THEN kept \cup {edit} ELSE kept
  /\ submitted' = [submitted EXCEPT ![edit].pc = "stored",
                                    ![edit].got = IF submitted[edit].does.adopts THEN kept' ELSE {}]
  /\ UNCHANGED <<role, query, screen, chosen, loaded, shown, stale, fetch, failed, owed>>

(* Mutant of Invalidate: a read that is under way goes on. *)
InvalidateWithoutRestart ==
  /\ stale' = loaded
  /\ fetch' = IF Active /\ fetch.pc = "idle" THEN Asked ELSE fetch
  /\ UNCHANGED <<loaded, shown, failed>>

(* The query is invalidated.  A read that is under way begins again, unless
   it is the first one or nobody is shown its answer. *)
Invalidate ==
  /\ stale' = loaded
  /\ fetch' = IF Active /\ (loaded \/ fetch.pc = "idle") THEN Asked ELSE fetch
  /\ UNCHANGED <<loaded, shown, failed>>

(* The answer becomes the query's data; a read under way goes on. *)
Adopt(data) ==
  /\ loaded' = TRUE /\ shown' = data /\ stale' = FALSE /\ failed' = FALSE
  /\ UNCHANGED fetch

(* A read from before the change will put older data in the cache. *)
Overtaken(does) == fetch.pc # "idle" /\ (does.adopts \/ ~loaded \/ ~Active)

Answer(edit) ==
  LET change == submitted[edit]
  IN  /\ change.pc = "stored"
      /\ IF change.does.adopts THEN Adopt(change.got)
         ELSE IF change.does.refreshes /\ change.aimed THEN Invalidate
         ELSE UNCHANGED <<loaded, shown, stale, fetch, failed>>
      /\ owed' = (IF change.does.adopts THEN owed \cap change.got ELSE owed)
                   \cup (IF change.does.owes /\ change.aimed /\ ~Overtaken(change.does)
                         THEN {edit} ELSE {})
      /\ submitted' = [submitted EXCEPT ![edit] = Done]
      /\ UNCHANGED <<role, query, screen, chosen, kept>>

(* The server refuses the change, or its answer is lost. *)
LoseAnswer(edit) ==
  /\ submitted[edit].pc \in {"sent", "stored"}
  /\ submitted' = [submitted EXCEPT ![edit] = Done]
  /\ UNCHANGED <<role, query, screen, chosen, loaded, shown, stale, fetch, failed, kept, owed>>

-----------------------------------------------------------------------------
(* Reads *)

ServerReads ==
  /\ fetch.pc = "asked" /\ role \in Reads[query].roles
  /\ fetch' = [pc |-> "read", got |-> kept]
  /\ UNCHANGED <<role, query, screen, chosen, loaded, shown, stale, failed, submitted, kept, owed>>

FetchAnswered ==
  /\ fetch.pc = "read"
  /\ fetch' = NoFetch
  /\ loaded' = TRUE /\ shown' = fetch.got /\ stale' = FALSE /\ failed' = FALSE
  /\ UNCHANGED <<role, query, screen, chosen, submitted, kept, owed>>

(* The read and its one retry fail; the data stays. *)
FetchFails ==
  /\ fetch.pc # "idle"
  /\ fetch' = NoFetch
  /\ failed' = TRUE
  /\ UNCHANGED <<role, query, screen, chosen, loaded, shown, stale, submitted, kept, owed>>

(* staleTime passes. *)
Age ==
  /\ loaded /\ ~stale
  /\ stale' = TRUE
  /\ UNCHANGED <<role, query, screen, chosen, loaded, shown, fetch, failed, submitted, kept, owed>>

Polled == {"adminHealth", "adminTunnel", "adminUpdateStatus", "myCurrentPunch", "myOpenShifts"}

(* A poll is due, or the network is back. *)
Refetch ==
  /\ Active /\ fetch.pc = "idle"
  /\ stale \/ query \in Polled
  /\ fetch' = Asked
  /\ UNCHANGED <<role, query, screen, chosen, loaded, shown, stale, failed, submitted, kept, owed>>

(* What has not been shown for five minutes leaves the cache. *)
Forget ==
  /\ ~Active /\ fetch.pc = "idle" /\ loaded
  /\ loaded' = FALSE /\ shown' = {} /\ stale' = FALSE /\ failed' = FALSE
  /\ UNCHANGED <<role, query, screen, chosen, fetch, submitted, kept, owed>>

ScreenNext ==
  \/ \E next \in Relevant[query] : Open(next)
  \/ Select
  \/ \E edit \in Edits :
       \/ \E does \in Effects[screen][role][query] : SendChange(edit, does)
       \/ StoreChange(edit)
       \/ Answer(edit)
       \/ LoseAnswer(edit)
  \/ ServerReads
  \/ FetchAnswered
  \/ FetchFails
  \/ Age
  \/ Refetch
  \/ Forget

ScreenSpec == ScreenInit /\ [][ScreenNext]_screenVars

-----------------------------------------------------------------------------
(* Properties *)

(* A change that succeeded is in what the screen shows once nothing is being
   read: the screen it was made on, and every other screen of what it
   refreshes, however the reads and the answers of other changes interleave,
   and whatever was opened in between. *)
YourChangesShow == Active /\ loaded /\ fetch.pc = "idle" /\ ~failed => owed \subseteq shown
=============================================================================
