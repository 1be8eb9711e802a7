---------------------------- MODULE MCBugReports ----------------------------
(* Two pages of two rows: the second is left when its reports are gone.    *)
EXTENDS BugReports
=============================================================================
