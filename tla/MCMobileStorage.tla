--------------------------- MODULE MCMobileStorage ---------------------------
(* A backup that cannot be read at a launch, with the calendar in use; a      *)
(* SQLite that does not take the recovered document, or that also fails to    *)
(* open and to be read; a backup that fails at any time.                      *)
EXTENDS MobileStorage

MCExposures ==
    {{"launchRead", "calendar"}, {"recoveryWrite"}, {"open", "recoveryWrite", "sqliteRead"},
     {"launchRead", "sqliteRead", "backupRead", "backupWrite", "calendar"}}
=============================================================================
