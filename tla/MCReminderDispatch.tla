------------------------- MODULE MCReminderDispatch -------------------------
(***************************************************************************)
(* The actors of ReminderDispatch's runs, as model values.                 *)
(***************************************************************************)
EXTENDS ReminderDispatch
CONSTANTS scheduler, request, thread, webhook
=============================================================================
