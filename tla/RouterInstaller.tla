---------------------------- MODULE RouterInstaller ----------------------------
(***************************************************************************)
(* The installer of the Router (server-router-installer.mjs), run again to *)
(* update an installation that may be in use.  It fetches the files of a   *)
(* release one by one from a source that may publish another release       *)
(* meanwhile, and may fail at any step or be killed between two.           *)
(***************************************************************************)
EXTENDS Naturals, Sequences, FiniteSets

CONSTANTS
    Releases,        \* what the source may serve
    RuntimeFiles,    \* SERVER_FILES
    PackageFiles,    \* payload files of the Gateway package
    None,            \* no such file, no secret
    Malformed,        \* an approval token of the file that updateEnvFile refuses
    MaxInstalls,     \* bound on the runs of the installer
    MaxPublished     \* bound on the releases published meanwhile

VARIABLES
    served,      \* the release at the source's address
    published,   \* releases published since the start
    run,         \* the run of the installer: step, options, files left, files in memory
    runtime,     \* runtime file -> the release it is of
    observatory, \* the release of its index.html, and those whose assets are there
    package,     \* the Gateway package: at its place, staged, displaced
    env,         \* the secrets of the environment file
    service      \* watchdog script written, facts about the unit, code it runs

installVars == <<served, published, run, runtime, observatory, package, env, service>>

ASSUME InstallConstantsAssumption ==
    /\ None \notin Releases /\ Malformed # None
    /\ MaxInstalls \in Nat /\ MaxPublished \in Nat
    /\ {None, Malformed} \cap (0..MaxInstalls) = {}

(* The manifest and the release metadata that names the manifest's hash *)
(* are part of the package.                                             *)
AllPackageFiles == PackageFiles \cup {"manifest", "metadata"}
Whole(release) == [f \in AllPackageFiles |-> release]
NoPackage == [f \in AllPackageFiles |-> None]

(* A secret is told by the run that made it; 0: made before the first. *)
Secrets == {None, Malformed} \cup 0..MaxInstalls
SecretNames == {"pairing", "bridge", "approval", "push"}
NoSecrets == [pairing |-> None, bridge |-> None, approval |-> None, push |-> None]
OldSecrets == [pairing |-> 0, bridge |-> 0, approval |-> 0, push |-> 0]

(* --no-autostart, --no-start, or neither *)
Options == [rotate : BOOLEAN, start : {"skip", "register", "start"}]
NoRun == [step |-> "idle", opts |-> [rotate |-> FALSE, start |-> "start"], left |-> {},
          memory |-> NoPackage, number |-> 0, ended |-> "none", had |-> FALSE, since |-> 0]

Steps == <<"runtime", "index", "assets", "writeIndex", "writeAssets", "manifest", "metadata",
           "payload", "stage", "displace", "place", "clean",
           "dependencies", "env", "watchdog", "autostart">>
OfPackage == {"stage", "displace", "place", "clean"}

(* A machine with no installation, or with one of an earlier release and   *)
(* an environment file someone may have edited.                            *)
InstallInit ==
    /\ \E r \in Releases, old \in Releases \cup {None} :
        /\ served = r
        /\ runtime = [f \in RuntimeFiles |-> old]
        /\ observatory = [index |-> old, assets |-> {old} \ {None}]
        /\ package = [place |-> [f \in AllPackageFiles |-> old], stage |-> NoPackage,
                      displaced |-> NoPackage]
        /\ service = [watchdog |-> old # None,
                      unit |-> IF old = None THEN {} ELSE {"registered", "running"},
                      code |-> [f \in RuntimeFiles |-> old]]
        /\ env \in (IF old = None THEN {NoSecrets}
                    ELSE {OldSecrets, [OldSecrets EXCEPT !.push = None],
                          [OldSecrets EXCEPT !.approval = Malformed]})
    /\ published = 0
    /\ run = NoRun

At(step) == run.step = step

(* The step after the present one, with what `changed' says of the run. *)
StepAfter(step) == LET i == CHOOSE j \in 1..Len(Steps) : Steps[j] = step
                   IN  IF i = Len(Steps) THEN "idle" ELSE Steps[i + 1]
Ahead == [run EXCEPT !.step = StepAfter(run.step)]

(* main: the directories are made and the download begins *)
StartInstall(opts) ==
    /\ At("idle") /\ run.number < MaxInstalls
    /\ run' = [NoRun EXCEPT !.step = "runtime", !.opts = opts, !.left = RuntimeFiles,
                            !.number = run.number + 1, !.since = published,
                            !.had = package.place # NoPackage]
    /\ UNCHANGED <<served, published, runtime, observatory, package, env, service>>

Publish(r) ==
    /\ r # served /\ published < MaxPublished
    /\ served' = r
    /\ published' = published + 1
    /\ UNCHANGED <<run, runtime, observatory, package, env, service>>

(* downloadRuntime: every file is written in place as it comes *)
FetchRuntimeFile(f) ==
    /\ At("runtime") /\ f \in run.left
    /\ runtime' = [runtime EXCEPT ![f] = served]
    /\ run' = IF run.left = {f} THEN [Ahead EXCEPT !.left = {}]
              ELSE [run EXCEPT !.left = @ \ {f}]
    /\ UNCHANGED <<served, published, observatory, package, env, service>>

(* downloadObservatory: the index and the assets it names, which are there *)
(* only as long as the index is served, are fetched before any is written; *)
(* the index is written first                                              *)
FetchIndex ==
    /\ At("index")
    /\ run' = [Ahead EXCEPT !.memory = Whole(served)]
    /\ UNCHANGED <<served, published, runtime, observatory, package, env, service>>

FetchAssets ==
    /\ At("assets") /\ run.memory = Whole(served)
    /\ run' = Ahead
    /\ UNCHANGED <<served, published, runtime, observatory, package, env, service>>

WriteObservatory ==
    /\ \/ /\ At("writeIndex")
          /\ observatory' = [observatory EXCEPT !.index = run.memory["manifest"]]
       \/ /\ At("writeAssets")
          /\ observatory' = [observatory EXCEPT !.assets = @ \cup {run.memory["manifest"]}]
    /\ run' = [Ahead EXCEPT !.memory = IF At("writeAssets") THEN NoPackage ELSE @]
    /\ UNCHANGED <<served, published, runtime, package, env, service>>

(* downloadGatewayPackage, gatewayManifest: the manifest *)
FetchManifest ==
    /\ At("manifest")
    /\ run' = [Ahead EXCEPT !.memory["manifest"] = served]
    /\ UNCHANGED <<served, published, runtime, observatory, package, env, service>>

(* gatewayReleaseMetadata: the metadata has the manifest's hash and version *)
DescribesManifest == served = run.memory["manifest"]

FetchMetadata ==
    /\ At("metadata") /\ DescribesManifest
    /\ run' = [Ahead EXCEPT !.memory["metadata"] = served, !.left = PackageFiles]
    /\ UNCHANGED <<served, published, runtime, observatory, package, env, service>>

(* Mutant: only the number of bytes is compared. *)
OfRightLength == TRUE

(* the length and the SHA-256 of a file are those of the manifest *)
Verified == served = run.memory["manifest"]

FetchPackageFile(f) ==
    /\ At("payload") /\ f \in run.left /\ Verified
    /\ run' = [IF run.left = {f} THEN Ahead ELSE run
               EXCEPT !.left = @ \ {f}, !.memory[f] = served]
    /\ UNCHANGED <<served, published, runtime, observatory, package, env, service>>

(* The directories of this run are staged and swapped. *)
SwapPackage ==
    /\ \/ /\ At("stage")
          /\ package' = [package EXCEPT !.stage = run.memory, !.displaced = NoPackage]
       \/ /\ At("displace")
          /\ package' = [package EXCEPT !.displaced = package.place, !.place = NoPackage]
       \/ /\ At("place")
          /\ package' = [package EXCEPT !.place = package.stage, !.stage = NoPackage]
       \/ /\ At("clean")
          /\ package' = [package EXCEPT !.displaced = NoPackage]
    /\ run' = Ahead
    /\ UNCHANGED <<served, published, runtime, observatory, env, service>>

(* installDependencies runs a package manager: external *)
InstallDependencies ==
    /\ At("dependencies")
    /\ run' = Ahead
    /\ UNCHANGED <<served, published, runtime, observatory, package, env, service>>

(* Mutant: a secret that is there is made anew. *)
SecretRemade(old) == run.number

Secret(old) == IF old = None THEN run.number ELSE old

(* updateEnvFile: what is missing is made, what is there is kept, but for  *)
(* an approval token that is to be rotated; the file is replaced at once   *)
UpdateEnv ==
    /\ At("env")
    /\ run.opts.rotate \/ env.approval # Malformed
    /\ env' = [k \in DOMAIN env |->
                  IF k = "approval" /\ run.opts.rotate THEN run.number ELSE Secret(env[k])]
    /\ run' = Ahead
    /\ UNCHANGED <<served, published, runtime, observatory, package, service>>

WriteWatchdog ==
    /\ At("watchdog")
    /\ service' = [service EXCEPT !.watchdog = TRUE]
    /\ run' = Ahead
    /\ UNCHANGED <<served, published, runtime, observatory, package, env>>

Registered == [service EXCEPT !.unit = @ \cup {"registered"}]
Started == [Registered EXCEPT !.unit = @ \cup {"running"}, !.code = runtime]

(* Mutant: a unit that runs is not restarted. *)
StartedIfStopped == IF "running" \in service.unit THEN Registered ELSE Started

(* installAutostart registers the unit and restarts it *)
Restarted == Started

InstallAutostart ==
    /\ At("autostart")
    /\ service' = CASE run.opts.start = "skip" -> service
                    [] run.opts.start = "register" -> Registered
                    [] run.opts.start = "start" -> Restarted
    /\ run' = [run EXCEPT !.step = "idle", !.ended = "ok"]
    /\ UNCHANGED <<served, published, runtime, observatory, package, env>>

Failed == [run EXCEPT !.step = "idle", !.ended = "failed", !.left = {}, !.memory = NoPackage]

(* Mutant: the stage is removed and nothing is put back. *)
StageRemoved == [package EXCEPT !.stage = NoPackage]

(* the catch of downloadGatewayPackage *)
PutBack ==
    IF package.place = NoPackage /\ package.displaced # NoPackage
    THEN [place |-> package.displaced, stage |-> NoPackage, displaced |-> NoPackage]
    ELSE StageRemoved

(* A step fails: the source does not answer, a file does not verify, a     *)
(* command or a write fails.  main answers with exit code 1.               *)
InstallFails ==
    /\ ~At("idle")
    /\ run' = Failed
    /\ IF run.step \in OfPackage THEN package' = PutBack ELSE UNCHANGED package
    /\ \/ UNCHANGED service
       \/ /\ At("autostart") /\ run.opts.start # "skip"
          /\ service' = Registered
    /\ UNCHANGED <<served, published, runtime, observatory, env>>

(* The installer is killed.  What it staged and displaced has its pid in   *)
(* the name: no later run looks for it.                                    *)
InstallCrashes ==
    /\ ~At("idle")
    /\ run' = [Failed EXCEPT !.ended = "crashed"]
    /\ package' = [package EXCEPT !.stage = NoPackage, !.displaced = NoPackage]
    /\ UNCHANGED <<served, published, runtime, observatory, env, service>>

(* The Router stopped and its watchdog starts it from the files there are. *)
RouterStartsAgain ==
    /\ "running" \in service.unit
    /\ service' = [service EXCEPT !.code = runtime]
    /\ UNCHANGED <<served, published, run, runtime, observatory, package, env>>

(* uninstall: the unit is stopped, then removed; a command may fail between *)
Uninstall ==
    /\ At("idle") /\ service.unit # {}
    /\ \E unit \in {service.unit \ {"running"}, {}} : service' = [service EXCEPT !.unit = unit]
    /\ run' = [run EXCEPT !.ended = IF @ = "ok" THEN "none" ELSE @]
    /\ UNCHANGED <<served, published, runtime, observatory, package, env>>

InstallNext ==
    \/ \E opts \in Options : StartInstall(opts)
    \/ \E r \in Releases : Publish(r)
    \/ \E f \in RuntimeFiles : FetchRuntimeFile(f)
    \/ FetchIndex \/ FetchAssets \/ WriteObservatory
    \/ FetchManifest \/ FetchMetadata \/ \E f \in PackageFiles : FetchPackageFile(f)
    \/ SwapPackage \/ InstallDependencies \/ UpdateEnv \/ WriteWatchdog \/ InstallAutostart
    \/ InstallFails \/ InstallCrashes \/ RouterStartsAgain \/ Uninstall

InstallSpec == InstallInit /\ [][InstallNext]_installVars

-----------------------------------------------------------------------------
InstallTypeOK ==
    /\ served \in Releases /\ published \in 0..MaxPublished
    /\ run.step \in {"idle"} \cup {Steps[i] : i \in 1..Len(Steps)}
    /\ run.opts \in Options /\ run.number \in 0..MaxInstalls
    /\ run.ended \in {"none", "ok", "failed", "crashed"}
    /\ runtime \in [RuntimeFiles -> Releases \cup {None}]
    /\ observatory.assets \subseteq Releases
    /\ \A where \in DOMAIN package : package[where] \in [AllPackageFiles -> Releases \cup {None}]
    /\ env \in [SecretNames -> Secrets]
    /\ service.unit \subseteq {"registered", "running"}

(* The Gateway package the Router serves is never a mix of two releases,   *)
(* whatever was published while it was fetched and wherever the installer  *)
(* stopped.                                                                *)
PackageIsWhole == package.place \in {NoPackage} \cup {Whole(r) : r \in Releases}

(* An update that fails leaves a package where there was one; it is away   *)
(* only between the two renames.                                           *)
PackageKept ==
    run.had /\ package.place = NoPackage => At("place") \/ run.ended = "crashed"

(* An install that ended well, from a source that published nothing in the *)
(* meantime, is complete whatever earlier runs left: the code on disk and  *)
(* the code that runs, the assets its Observatory names, the package and   *)
(* every secret.                                                           *)
OkIsComplete ==
    run.ended = "ok" /\ published = run.since =>
        /\ runtime = [f \in RuntimeFiles |-> served]
        /\ observatory.index = served /\ served \in observatory.assets
        /\ package.place = Whole(served)
        /\ \A k \in SecretNames : env[k] \notin {None, Malformed}
        /\ service.watchdog
        /\ run.opts.start = "start" => "running" \in service.unit /\ service.code = runtime

(* No run of the installer takes a secret away: devices stay paired and    *)
(* stored push tokens stay readable.  Only the approval token is changed,  *)
(* when asked.                                                             *)
SecretsKept ==
    [][env' # env =>
         \A k \in SecretNames : \/ env[k] \in {None, Malformed, env'[k]}
                               \/ (k = "approval" /\ run.opts.rotate)]_installVars
===============================================================================
