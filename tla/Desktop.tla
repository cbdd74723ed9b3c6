------------------------------ MODULE Desktop ------------------------------
(***************************************************************************)
(* Becoming and staying a user: the tokens and the account status          *)
(* (Account) and the first-run wizard (Setup).  The wizard sees of the     *)
(* first only that a sign-in succeeds or fails, and no property relates    *)
(* the two, so a behaviour follows one of them.                            *)
(***************************************************************************)
EXTENDS Account, Setup

VARIABLE part       \* the part that this behaviour follows

desktopVars == <<part, accountVars, setupVars>>

In(name, Step) == part = name /\ Step

(* What is left open at the start is open in the part it belongs to.         *)
DesktopInit ==
    /\ part \in {"account", "setup"}
    /\ AccountInit /\ SetupInit
    /\ part # "setup" => ~mac /\ says = "ok"

DesktopNext ==
    /\ UNCHANGED part
    /\ \/ In("account", AccountNext) /\ UNCHANGED setupVars
       \/ In("setup", SetupNext) /\ UNCHANGED accountVars

(* The event loop runs what is ready, the network answers or fails, and the  *)
(* sweep comes round again while uploads are blocked.                        *)
AccountFairness ==
    /\ \A c \in Callers :
         /\ SF_accountVars(In("account", GetToken(c)))
         /\ WF_accountVars(In("account", Exchange(c) \/ Refreshed(c) \/ RefreshLost(c)))
         /\ WF_accountVars(In("account", Responds(c)))
    /\ WF_accountVars(In("account", ProbeStarts)) /\ WF_accountVars(In("account", WriteCache))

(* The window's callbacks and the process's own steps come to their end, and *)
(* the user means to finish: opens Sayzo, presses what a page offers,        *)
(* enables what was refused, completes the account on the web.               *)
SetupFairness ==
    /\ WF_setupVars(In("setup", UserGoesOn)) /\ WF_setupVars(In("setup", MachineGoesOn))
    /\ WF_setupVars(In("setup", ChecksAgain)) /\ WF_setupVars(In("setup", CheckComes))
    /\ WF_setupVars(In("setup", CheckHandled)) /\ WF_setupVars(In("setup", AccountReady))
    /\ \A p \in {"mic", "tap", "trust"} : WF_setupVars(In("setup", Enables(p)))

Spec == DesktopInit /\ [][DesktopNext]_desktopVars /\ AccountFairness /\ SetupFairness

DesktopTypeOK == AccountTypeOK /\ SetupTypeOK

-----------------------------------------------------------------------------
(* Uploads paused for a missing sign-in resume once the token file holds a   *)
(* good token set, whatever the agent has cached (upload_retry.py:517).      *)
SignInIsNoticed ==
    <>[]In("account", Serving /\ disk \in unexpired) => []<>(~blocked)

(* Refusals, dialogs that are not shown, helpers that fail and a trust bit    *)
(* that a running process does not see never wedge the wizard: the agent     *)
(* starts in the end.                                                        *)
SetupEnds == In("setup", TRUE) => []<>(proc = "agent")
=============================================================================
