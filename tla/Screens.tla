------------------------------ MODULE Screens ------------------------------
(***************************************************************************)
(* What the API lets whom read and write, and what the screens of the web  *)
(* client show, change and refresh.                                        *)
(*                                                                         *)
(* A query is the cached answer to a read; it is named after its key.  A   *)
(* screen is a page together with the modal or drawer that is open on it.  *)
(***************************************************************************)
EXTENDS FiniteSets

SuperAdmins == {"super_admin"}
Admins == {"super_admin", "company_admin"}
Managers == Admins \cup {"supervisor"}
Everyone == Managers \cup {"employee"}

-----------------------------------------------------------------------------
(* The API.  A super admin passes every check of a company role. *)

Route(roles, writes) == [roles |-> roles, writes |-> writes]
Read(roles, reads) == [roles |-> roles, reads |-> reads]

CompanyRoutes ==
  [createCompany |-> Route(SuperAdmins, {"company"}),
   setInternal |-> Route(SuperAdmins, {"company"}),
   setActive |-> Route(SuperAdmins, {"company"}),
   updateCompany |-> Route(Admins, {"company"})]
CompanyReads ==
  [companies |-> Read(Everyone, {"company"}),
   company |-> Read(Everyone, {"company"})]

SettingsRoutes == [updateSettings |-> Route(Admins, {"settings"})]
SettingsReads == [settings |-> Read(Admins, {"settings"})]

MembershipRoutes ==
  [invite |-> Route(Admins, {"memberships"}),
   updateRole |-> Route(Admins, {"memberships"}),
   revokeMembership |-> Route(Admins, {"memberships"})]
MembershipReads == [memberships |-> Read(Admins, {"memberships"})]

MemberLinkRoutes == [sendMemberLink |-> Route(Admins, {"links"})]

(* With createLogin, an employee without an account is given one first. *)
EmployeeLinkRoutes ==
  [sendEmployeeLink |-> Route(Admins, {"links"}),
   createLogin |-> Route(Admins, {"links", "employees", "memberships"})]

EmployeeRoutes ==
  [createEmployee |-> Route(Admins, {"employees"}),
   importEmployees |-> Route(Admins, {"employees"}),
   updateEmployee |-> Route(Admins, {"employees"}),
   setLogin |-> Route(Admins, {"employees"}),
   regeneratePin |-> Route(Admins, {"employees"}),
   setPin |-> Route(Admins, {"employees"})]
EmployeeReads ==
  [employees |-> Read(Managers, {"employees"}),
   roster |-> Read(Managers, {"employees"})]

BadgeRoutes ==
  [issueBadge |-> Route(Admins, {"badges"}),
   revokeBadge |-> Route(Admins, {"badges"}),
   bulkBadges |-> Route(Admins, {"badges"})]
BadgeReads ==
  [badgeStates |-> Read(Managers, {"badges"}),
   badge |-> Read(Managers, {"badges"}),
   badgeEvents |-> Read(Managers, {"badges"})]

JobRoutes ==
  [createJob |-> Route(Admins, {"jobs"}),
   updateJob |-> Route(Admins, {"jobs"}),
   archiveJob |-> Route(Admins, {"jobs"}),
   unarchiveJob |-> Route(Admins, {"jobs"})]
JobReads == [jobs |-> Read(Everyone, {"jobs"})]

MissingTimeRoutes == [remind |-> Route(Managers, {"reminders"})]
MissingTimeReads ==
  [missingTime |-> Read(Managers, {"entries", "reminders", "employees", "settings"})]

(* A type of time off is a job; turning it on may create the job. *)
TimeOffRoutes == [setTimeOffType |-> Route(Admins, {"jobs"})]
TimeOffReads == [timeOffTypes |-> Read(Everyone, {"jobs"})]

KioskRoutes ==
  [issuePairingCode |-> Route(Admins, {"pairingCodes"}),
   renameKiosk |-> Route(Admins, {"kiosks"}),
   revokeKiosk |-> Route(Admins, {"kiosks"})]
KioskReads == [kiosks |-> Read(Admins, {"kiosks"})]

(* What a supervisor may do to an entry is decided by the edit policy. *)
TimesheetRoutes ==
  [approve |-> Route(Managers, {"entries"}),
   unapprove |-> Route(Managers, {"entries"}),
   createEntry |-> Route(Managers, {"entries"}),
   editEntry |-> Route(Everyone, {"entries"}),
   deleteEntry |-> Route(Admins, {"entries"}),
   addOwnEntry |-> Route(Everyone, {"entries", "corrections"})]
Grids == {"entries", "jobs", "userPrefs"}
TimesheetReads ==
  [timesheet |-> Read(Everyone, {"entries", "jobs"}),
   myTimesheet |-> Read(Everyone, {"entries", "jobs"}),
   weeklyGrid |-> Read(Everyone, Grids),
   multiGrid |-> Read(Managers, Grids),
   entryAudit |-> Read(Everyone, {"entries"})]

CorrectionRoutes ==
  [createCorrection |-> Route(Everyone, {"corrections"}),
   approveCorrection |-> Route(Managers, {"corrections", "entries"}),
   rejectCorrection |-> Route(Managers, {"corrections"})]
CorrectionReads == [corrections |-> Read(Managers, {"corrections"})]

ManualEntryRoutes ==
  [createManual |-> Route(Everyone, {"entries"}),
   updateManual |-> Route(Everyone, {"entries"}),
   removeManual |-> Route(Everyone, {"entries"}),
   copyLastWeek |-> Route(Everyone, {"entries"})]

PunchRoutes ==
  [clockIn |-> Route(Everyone, {"entries"}),
   clockOut |-> Route(Everyone, {"entries"}),
   breakIn |-> Route(Everyone, {"entries"}),
   breakOut |-> Route(Everyone, {"entries"})]
PunchReads ==
  [myCurrentPunch |-> Read(Everyone, {"entries"}),
   myOpenShifts |-> Read(Everyone, {"entries"})]

ExportRoutes == [runExport |-> Route(Admins, {"exports"})]
ExportReads == [payrollExports |-> Read(Admins, {"exports"})]

ReportReads == [reportsCatalog |-> Read(Managers, {"reports"})]

NotificationRoutes ==
  [updatePreferences |-> Route(Everyone, {"employeePrefs"}),
   requestPhoneVerification |-> Route(Everyone, {"phoneCodes"}),
   confirmPhoneVerification |-> Route(Everyone, {"employeePrefs"})]
NotificationReads ==
  [prefs |-> Read(Everyone, {"employeePrefs"}),
   notificationsLog |-> Read(Admins, {"notificationsLog"})]

AIRoutes ==
  [updateAISettings |-> Route(Admins, {"aiSettings"}),
   applyCorrection |-> Route(Everyone, {"entries"})]
AIReads ==
  [aiSettings |-> Read(Admins, {"aiSettings"}),
   aiAvailability |-> Read(Everyone, {"aiSettings"})]

UserRoutes == [updateUserPrefs |-> Route(Everyone, {"userPrefs"})]
UserReads == [mePrefs |-> Read(Everyone, {"userPrefs"})]

UserPhoneRoutes ==
  [setUserPhone |-> Route(Everyone, {"userPhone"}),
   requestCode |-> Route(Everyone, {"userPhone"}),
   confirmCode |-> Route(Everyone, {"userPhone"})]
UserPhoneReads == [userPhone |-> Read(Everyone, {"userPhone"})]

(* The memberships that a group grants are stored as memberships. *)
AccessGroupRoutes ==
  [createGroup |-> Route(SuperAdmins, {"groups"}),
   updateGroup |-> Route(SuperAdmins, {"groups", "grants"}),
   deleteGroup |-> Route(SuperAdmins, {"groups", "grants", "memberships"}),
   setGroupMembers |-> Route(SuperAdmins, {"groups", "grants", "memberships"}),
   setGroupCompanies |-> Route(SuperAdmins, {"groups", "grants", "memberships"})]
AccessGroupReads == [accessGroups |-> Read(SuperAdmins, {"groups"})]

PeopleRoutes ==
  [setMemberships |-> Route(SuperAdmins, {"memberships"}),
   sendUserLink |-> Route(SuperAdmins, {"links"})]
PeopleReads == [adminUsers |-> Read(SuperAdmins, {"memberships", "grants", "company"})]

ApplianceRoutes ==
  [updateAppliance |-> Route(SuperAdmins, {"appliance"}),
   seedDemo |-> Route(SuperAdmins, {"company", "employees", "memberships", "jobs", "entries"}),
   updateTunnel |-> Route(SuperAdmins, {"tunnel"}),
   updateRun |-> Route(SuperAdmins, {"update"})]
ApplianceReads ==
  [adminHealth |-> Read(SuperAdmins, {"company", "employees", "entries"}),
   adminSettings |-> Read(SuperAdmins, {"appliance"}),
   applianceInfo |-> Read(Everyone, {"appliance"}),
   adminTunnel |-> Read(SuperAdmins, {"tunnel"}),
   adminUpdateStatus |-> Read(SuperAdmins, {"update"})]

(* Each call is in the table of its router. *)
Joined(tables) ==
  [name \in UNION {DOMAIN table : table \in tables} |->
     (CHOOSE table \in tables : name \in DOMAIN table)[name]]

RouteTables ==
  {CompanyRoutes, SettingsRoutes, MembershipRoutes, MemberLinkRoutes, EmployeeLinkRoutes,
   EmployeeRoutes, BadgeRoutes, JobRoutes, MissingTimeRoutes, TimeOffRoutes, KioskRoutes,
   TimesheetRoutes, CorrectionRoutes, ManualEntryRoutes, PunchRoutes, ExportRoutes,
   NotificationRoutes, AIRoutes, UserRoutes, UserPhoneRoutes, AccessGroupRoutes,
   PeopleRoutes, ApplianceRoutes}
ReadTables ==
  {CompanyReads, SettingsReads, MembershipReads, EmployeeReads, BadgeReads, JobReads,
   MissingTimeReads, TimeOffReads, KioskReads, TimesheetReads, CorrectionReads, PunchReads,
   ExportReads, ReportReads, NotificationReads, AIReads, UserReads, UserPhoneReads,
   AccessGroupReads, PeopleReads, ApplianceReads}

Routes == Joined(RouteTables)
Reads == Joined(ReadTables)

Calls == DOMAIN Routes
Queries == DOMAIN Reads

-----------------------------------------------------------------------------
(* The screens *)

(* calls: the calls it makes, one after the other.
   refreshes: the queries that its answer invalidates.
   adopts: the queries that are given its answer as their data. *)
Submit(calls, refreshes, adopts) ==
  [calls |-> calls, refreshes |-> refreshes, adopts |-> adopts]
Save(call, refreshes) == Submit({call}, refreshes, {})

(* page: what stays mounted while its modals open and close.
   reach: who is offered a way to it. *)
Screen(page, reach, shows, submits) ==
  [page |-> page, reach |-> reach, shows |-> shows, changes |-> submits]

(* A screen with a modal open on it. *)
Over(base, shows, submits) ==
  [base EXCEPT !.shows = @ \cup shows, !.changes = submits]

(* Mounted with every page, and with the pages of a company. *)
App == {"aiAvailability"}
TopBar == {"applianceInfo"}
CompanyLayout == App \cup TopBar \cup {"company"}

DashboardPage == Screen("dashboard", Everyone, App \cup TopBar \cup {"companies"}, {})

CompaniesListPage ==
  Screen("companies", SuperAdmins, App \cup TopBar \cup {"companies"},
         {Save(call, {"companies"}) : call \in {"createCompany", "setActive", "setInternal"}})

(* Employees: the roster, its modals, and the drawer of one employee. *)
Roster == {"employees", "badgeStates"}
EmployeesPage ==
  Screen("employees", Everyone, CompanyLayout \cup Roster,
         {Save("bulkBadges", {"badgeStates"})})
Undelivered == Submit({"createEmployee", "createLogin"}, {}, {})
CreateEmployeeModal ==
  Over(EmployeesPage, {},
       {Save("createEmployee", Roster),
        Submit({"createEmployee", "createLogin"}, Roster, {}),
        Undelivered})
Imported == Save("importEmployees", {})
ImportCsvModal == Over(EmployeesPage, {}, {Imported, Submit({}, Roster, {})})
EmployeeLoginPanel == {Save(call, Roster) : call \in {"setLogin", "createLogin"}}
EmployeeBadgePanel ==
  {Save(call, Roster \cup {"badge", "badgeEvents"}) : call \in {"issueBadge", "revokeBadge"}}
SetPinModal == {Save("setPin", Roster)}
EmployeeDetailDrawer ==
  Over(EmployeesPage, {"badge", "badgeEvents"},
       {Save(call, Roster) : call \in {"updateEmployee", "regeneratePin"}}
         \cup EmployeeLoginPanel \cup EmployeeBadgePanel \cup SetPinModal)

JobsPage ==
  Screen("jobs", Everyone, CompanyLayout \cup {"jobs"},
         {Save(call, {"jobs"}) : call \in {"archiveJob", "unarchiveJob"}})
JobEditorModal ==
  Over(JobsPage, {}, {Save(call, {"jobs"}) : call \in {"createJob", "updateJob"}})

(* The grid of one employee: its own, a supervisor's, an admin's. *)
WeeklyGridPage(who) ==
  Screen("week", who,
         CompanyLayout \cup {"weeklyGrid", "mePrefs"}
           \cup (IF who = {"employee"} THEN {} ELSE {"roster", "jobs"}),
         {Save("updateUserPrefs", {"mePrefs", "weeklyGrid"})}
           \cup {Save(call, {"weeklyGrid"}) :
                   call \in {"createManual", "updateManual", "removeManual",
                             "copyLastWeek", "approve"}
                              \cup (IF who \subseteq Admins THEN {"editEntry", "deleteEntry"}
                                    ELSE IF who = {"employee"} THEN {"createCorrection"}
                                    ELSE {"editEntry"})})

MultiEmployeeGridPage ==
  Screen("grid", Managers, CompanyLayout \cup {"multiGrid", "mePrefs"},
         {Save("updateUserPrefs", {"mePrefs", "multiGrid"}),
          Save("approve", {"multiGrid"})})

WeeklyTimesheetPrintPage ==
  Screen("print", Managers, CompanyLayout \cup {"weeklyGrid"}, {})

NLCorrectionWidget(sheet) == {Save("applyCorrection", {sheet})}
TimesheetsReviewPage ==
  Screen("timesheets", Managers, CompanyLayout \cup {"employees", "timesheet", "jobs"},
         {Save(call, {"timesheet"}) :
            call \in {"approve", "unapprove", "createEntry", "editEntry", "deleteEntry"}}
           \cup NLCorrectionWidget("timesheet"))
MissingTimeRemindersModal ==
  Over(TimesheetsReviewPage, {"missingTime"}, {Save("remind", {"missingTime"})})
EntryAuditDrawer == Over(TimesheetsReviewPage, {"entryAudit"}, {})

CorrectionsPage == Screen("corrections", Managers, CompanyLayout \cup {"corrections"}, {})
DecideModal ==
  Over(CorrectionsPage, {},
       {Save(call, {"corrections"}) : call \in {"approveCorrection", "rejectCorrection"}})

ReportsPage ==
  Screen("reports", Managers, CompanyLayout \cup {"reportsCatalog", "employees"}, {})

PayrollExportsPage == Screen("exports", Admins, CompanyLayout \cup {"payrollExports"}, {})
RunExportModal == Over(PayrollExportsPage, {}, {Save("runExport", {"payrollExports"})})

TeamPage ==
  Screen("team", Admins, CompanyLayout \cup {"memberships"},
         {Save(call, {"memberships"}) : call \in {"updateRole", "revokeMembership"}}
           \cup {Save("sendMemberLink", {})})
InviteNotSent == Submit({"invite", "sendMemberLink"}, {}, {})
InviteModal ==
  Over(TeamPage, {},
       {Save("invite", {"memberships"}),
        Submit({"invite", "sendMemberLink"}, {"memberships"}, {}),
        InviteNotSent})

KiosksPage ==
  Screen("kiosks", Admins, CompanyLayout \cup {"kiosks"},
         {Save(call, {"kiosks"}) : call \in {"renameKiosk", "revokeKiosk"}}
           \cup {Save("issuePairingCode", {})})

NotificationsLogPage ==
  Screen("log", Admins, CompanyLayout \cup {"notificationsLog"}, {})

(* The sections of a company's settings share a page. *)
CompanySettingsPage ==
  Screen("settings", Admins, CompanyLayout \cup {"settings"},
         {Save("updateCompany", {"company"}), Save("updateSettings", {"settings"})})
TimeOffSettings ==
  Over(CompanySettingsPage, {"timeOffTypes"},
       {Save("updateSettings", {"settings"}),
        Submit({"setTimeOffType"}, {"jobs"}, {"timeOffTypes"})})
AISaved == Save("updateAISettings", {"aiSettings"})
AISettings == Over(CompanySettingsPage, {"aiSettings"}, {AISaved})

(* A person's own pages. *)
MyPunchPage ==
  Screen("my-punch", Everyone, App \cup TopBar \cup {"myCurrentPunch", "myOpenShifts"},
         {Save(call, {"myCurrentPunch", "myOpenShifts"}) :
            call \in {"clockIn", "clockOut", "breakIn", "breakOut"}})
MyTimesheetPage ==
  Screen("my-timesheet", Everyone, App \cup TopBar \cup {"myTimesheet", "jobs"},
         NLCorrectionWidget("myTimesheet"))
AddTimeModal == Over(MyTimesheetPage, {}, {Save("addOwnEntry", {"myTimesheet"})})
TimeOffModal == Over(MyTimesheetPage, {}, {Save("createManual", {"myTimesheet"})})
CorrectionRequestModal == Over(MyTimesheetPage, {}, {Save("createCorrection", {"myTimesheet"})})
NotificationPreferencesPage ==
  Screen("notifications", Everyone, App \cup TopBar \cup {"prefs"},
         {Save("updatePreferences", {"prefs"})})
PhoneVerificationCard ==
  Over(NotificationPreferencesPage, {},
       {Save("requestPhoneVerification", {}), Save("confirmPhoneVerification", {"prefs"})})
PreferencesPage ==
  Screen("preferences", Everyone, App \cup TopBar \cup {"mePrefs", "userPhone"},
         {Submit({"updateUserPrefs"}, {"weeklyGrid", "multiGrid"}, {"mePrefs"})})
PhoneNotificationsCard ==
  Over(PreferencesPage, {},
       {Save(call, {"userPhone"}) : call \in {"setUserPhone", "requestCode", "confirmCode"}})

(* The appliance. *)
ApplianceHealthPage ==
  Screen("health", SuperAdmins, App \cup TopBar \cup {"adminHealth"}, {})
UpdateCard ==
  Over(ApplianceHealthPage, {"adminUpdateStatus"}, {Save("updateRun", {"adminUpdateStatus"})})
Renamed == Submit({"updateAppliance"}, {}, {"adminSettings"})
ApplianceSettingsPage ==
  Screen("appliance", SuperAdmins, App \cup TopBar \cup {"adminSettings"},
         {Renamed, Save("seedDemo", {})})
TunnelSection ==
  Over(ApplianceSettingsPage, {"adminTunnel"},
       {Submit({"updateTunnel"}, {}, {"adminTunnel"})})
AllUsersPage ==
  Screen("users", SuperAdmins, App \cup TopBar \cup {"adminUsers"}, {Save("sendUserLink", {})})
MembershipsDrawer ==
  Over(AllUsersPage, {}, {Save("setMemberships", {"adminUsers"})})
AccessGroupsPage ==
  Screen("groups", SuperAdmins, App \cup TopBar \cup {"accessGroups", "adminUsers"},
         {Save("createGroup", {"accessGroups"})})
GroupDrawer ==
  Over(AccessGroupsPage, {},
       {Submit(calls, {"accessGroups", "adminUsers"}, {}) :
          calls \in {{"updateGroup", "setGroupMembers", "setGroupCompanies"}, {"deleteGroup"}}})

Screens ==
  [DashboardPage |-> DashboardPage, CompaniesListPage |-> CompaniesListPage,
   EmployeesPage |-> EmployeesPage, CreateEmployeeModal |-> CreateEmployeeModal,
   ImportCsvModal |-> ImportCsvModal, EmployeeDetailDrawer |-> EmployeeDetailDrawer,
   JobsPage |-> JobsPage, JobEditorModal |-> JobEditorModal,
   MultiEmployeeGridPage |-> MultiEmployeeGridPage,
   WeeklyTimesheetPrintPage |-> WeeklyTimesheetPrintPage,
   TimesheetsReviewPage |-> TimesheetsReviewPage,
   MissingTimeRemindersModal |-> MissingTimeRemindersModal,
   EntryAuditDrawer |-> EntryAuditDrawer, CorrectionsPage |-> CorrectionsPage,
   DecideModal |-> DecideModal, ReportsPage |-> ReportsPage,
   PayrollExportsPage |-> PayrollExportsPage, RunExportModal |-> RunExportModal,
   TeamPage |-> TeamPage, InviteModal |-> InviteModal, KiosksPage |-> KiosksPage,
   NotificationsLogPage |-> NotificationsLogPage,
   CompanySettingsPage |-> CompanySettingsPage, TimeOffSettings |-> TimeOffSettings,
   AISettings |-> AISettings, MyPunchPage |-> MyPunchPage,
   MyTimesheetPage |-> MyTimesheetPage, AddTimeModal |-> AddTimeModal,
   TimeOffModal |-> TimeOffModal, CorrectionRequestModal |-> CorrectionRequestModal,
   NotificationPreferencesPage |-> NotificationPreferencesPage,
   PhoneVerificationCard |-> PhoneVerificationCard, PreferencesPage |-> PreferencesPage,
   PhoneNotificationsCard |-> PhoneNotificationsCard,
   ApplianceHealthPage |-> ApplianceHealthPage, UpdateCard |-> UpdateCard,
   ApplianceSettingsPage |-> ApplianceSettingsPage, TunnelSection |-> TunnelSection,
   AllUsersPage |-> AllUsersPage, MembershipsDrawer |-> MembershipsDrawer,
   AccessGroupsPage |-> AccessGroupsPage, GroupDrawer |-> GroupDrawer,
   AdminWeeklyGrid |-> WeeklyGridPage(Admins),
   SupervisorWeeklyGrid |-> WeeklyGridPage({"supervisor"}),
   OwnWeeklyGrid |-> WeeklyGridPage({"employee"})]
=============================================================================
