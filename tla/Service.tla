------------------------------ MODULE Service ------------------------------
(***************************************************************************)
(* What the service process shares with other processes and with its own   *)
(* next run, through files in one data directory: the stage of an update   *)
(* (Updates), the settings (Preferences), the lock, the port file and the  *)
(* Settings process (Instance).  The three use different files, and no     *)
(* property relates two of them, so a behaviour follows one part.          *)
(***************************************************************************)
EXTENDS Updates, Preferences, Instance

VARIABLE part       \* the part that this behaviour follows

serviceVars == <<part, updateVars, prefVars, instanceVars>>

In(name, Step) == part = name /\ Step

(* What is left open at the start is open in the part it belongs to.         *)
ServiceInit ==
    /\ part \in {"updates", "preferences", "instance"}
    /\ UpdatesInit /\ PreferencesInit /\ InstanceInit
    /\ part # "instance" => ~posix

ServiceNext ==
    /\ UNCHANGED part
    /\ \/ In("updates", UpdatesNext) /\ UNCHANGED <<prefVars, instanceVars>>
       \/ In("preferences", PreferencesNext) /\ UNCHANGED <<updateVars, instanceVars>>
       \/ In("instance", InstanceNext) /\ UNCHANGED <<updateVars, prefVars>>

(* The fairness of the parts, each in the behaviours that follow it: a quit  *)
(* that has begun ends and the agent is started again (Updates); the boot,   *)
(* the tray's bridge and a Settings process's reader go on (Instance).       *)
ServiceFairness ==
    /\ WF_updateVars(In("updates", QuitEnds))
    /\ WF_updateVars(In("updates", ServiceBoots))
    /\ \A p \in Launches : WF_instanceVars(In("instance", Bridge(p)))
    /\ \A k \in Kids : WF_instanceVars(In("instance", KidRuns(k)))

Spec == ServiceInit /\ [][ServiceNext]_serviceVars /\ ServiceFairness

ServiceTypeOK == UpdatesTypeOK /\ PreferencesTypeOK /\ InstanceTypeOK

(* However often the helper fails, the agent comes up again                  *)
(* (update_apply.py:51): Updates' AgentComesUp in the behaviours of its part. *)
AgentReturns == In("updates", service # "up") ~> service = "up"
=============================================================================
