---------------------------- MODULE DomoSystem ----------------------------
(***************************************************************************)
(* What the systems of the application share (DomoSystem and the fragments): *)
(* the status and the error that a message brings, and what they do to the   *)
(* screen.  A system is a record with at least the fields status (mStatus),  *)
(* error (mError), screen and tab (mSelectedTab) of its fragment.            *)
(***************************************************************************)
Errors == {"none", "password", "network", "notify", "params", "find"}

Statuses == {"online", "offline", "loading", "warning"}

\* A screen has no view at first; once it has one it is shown, or was left for
\* the screen of another system, which takes the activity from it.
Screens == {"new", "shown", "left"}

\* The settings, the tab that a good answer opens, the rest.
Tabs == {"setup", "main", "other"}

\* handleMessage: the status an error code stands for.
StatusOf(error) ==
    CASE error = "none" -> "online"
      [] error = "notify" -> "warning"
      [] OTHER -> "offline"

\* onCreateView: the tab of a new view.
FirstTab(status) == IF status = "online" THEN "main" ELSE "setup"

\* setStatus and updateStatus: the tab to which a change of status turns a view.
NextTab(system, status) ==
    IF system.screen = "new" \/ status = system.status THEN system.tab
    ELSE CASE status = "online" -> "main"
           [] status = "offline" -> "setup"
           [] OTHER -> system.tab

\* transition: loadAnimation throws without an activity.
TurnFails(system, error) ==
    system.screen = "left" /\ NextTab(system, StatusOf(error)) # system.tab

\* Mutant: the error code is taken for the status.
ToldError(system, error) ==
    [system EXCEPT !.status = error, !.error = error,
                   !.tab = NextTab(system, StatusOf(error))]

\* handleMessage, but for requestResponse, if the screen can turn.
Told(system, error) ==
    [system EXCEPT !.status = StatusOf(error), !.error = error,
                   !.tab = NextTab(system, StatusOf(error))]
=============================================================================
