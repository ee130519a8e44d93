------------------------------ MODULE MCRestarts ------------------------------
(***************************************************************************)
(* What outlives a process: submissions over restarts of the Router with   *)
(* saves that succeed, the devices that are registered for push            *)
(* notifications, the files of the installer and the records of the        *)
(* launcher.  `part' says which of them moves, the others stay as they     *)
(* are.                                                                    *)
(***************************************************************************)
EXTENDS MCNativeSubmission, PushDelivery, RouterInstaller, LocalRouter

CONSTANTS d1, d2, e1, v1, v2, f1, f2, g1, g2, t1, t2, p1, p2

VARIABLE part

RestartParts == {"submissions", "push", "installer", "launcher"}

(* A part has one initial state while another part moves; an installation  *)
(* that is there is of another release than the one that is served.        *)
RestartsInit ==
    /\ part \in RestartParts
    /\ Init /\ PushInit
    /\ InstallInit /\ served = v1 /\ served \notin observatory.assets
    /\ part # "installer" => env = NoSecrets
    /\ LocalInit /\ (part # "launcher" => tokens.pairing # 0)

SubmissionsMove == part = "submissions" /\ Next
PushMoves == part = "push" /\ PushNext
InstallerMoves == part = "installer" /\ InstallNext
LauncherMoves == part = "launcher" /\ LocalNext

RestartsNext ==
    /\ UNCHANGED part
    /\ \/ SubmissionsMove /\ UNCHANGED <<pushVars, installVars, localVars>>
       \/ PushMoves /\ UNCHANGED <<vars, installVars, localVars>>
       \/ InstallerMoves /\ UNCHANGED <<vars, pushVars, localVars>>
       \/ LauncherMoves /\ UNCHANGED <<vars, pushVars, installVars>>

restartsVars == <<part, vars, pushVars, installVars, localVars>>

(* The fairness of the modules, each about its own part. *)
RestartsSpec ==
    /\ RestartsInit /\ [][RestartsNext]_restartsVars
    /\ \A s \in Submissions : WF_vars(Lost(s)) /\ WF_vars(Settle(s))
    /\ \A e \in PushEvents : WF_pushVars(PushProgress(e))
    /\ WF_localVars(part = "launcher" /\ StopSteps)

(* An event is pushed to whoever asked for it, once, and to nobody else.   *)
PushAsAsked == PushTypeOK /\ PushIsSound

(* The installer leaves whole packages and, when it says so, a complete    *)
(* installation.                                                           *)
InstallIsSound == InstallTypeOK /\ PackageIsWhole /\ PackageKept /\ OkIsComplete

(* The launcher stops Routers only, and brings no retired token back.      *)
LauncherIsSound == LocalTypeOK /\ RetiredStayGone /\ OnlyRoutersStopped

(* Secrets and the approval token change only by the commands for it.      *)
SecretsStay == SecretsKept /\ TokenKept

(* Every submission's request ends; a push dispatch is over in the end,    *)
(* and stops that are given again and again leave no Router listening.     *)
RestartsProgress ==
    /\ RequestsEnd
    /\ <>[](/\ \A e \in PushEvents : dispatch[e].state = "none"
            /\ RouterStopped)
===============================================================================
