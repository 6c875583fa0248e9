------------------------------ MODULE UpdateJob ------------------------------
(***************************************************************************)
(* Installing a client update on Linux (agent/updates.go, update/install*. *)
(* go, update/download.go).  The networking service checks, downloads and  *)
(* writes the job file; a systemd unit of its own, started by the service  *)
(* or by the boot timer, reads the job file, stops the service, has APT    *)
(* install the package and writes the outcome.  Service and unit are two   *)
(* processes that share the file and the package cache; power may fail     *)
(* between any two steps.  Versions are numbers, and a release is its      *)
(* version.  What is signed, fetched or unpacked succeeds or fails as the  *)
(* environment likes; that a file is the signed package is being in        *)
(* "packages".                                                             *)
(***************************************************************************)
EXTENDS Integers

CONSTANTS
    MaxVersion,     \* versions are 0..MaxVersion; 0 is installed at first
    MaxFaults,      \* bound: power failures and crashes of the service
    MaxOffers,      \* bound: changes of the release the control offers
    MaxManual       \* bound: packages the administrator installs with apt

VARIABLES
    offered,        \* the release the control's policy names, or 0
    installed,      \* the package on disk
    service,        \* whether the service runs, and the version that runs
    job,            \* update-job.bin
    aged,           \* two minutes have passed since the job's StartedAt
    packages,       \* verified packages in the cache
    ui,             \* updateState: state and release
    requested,      \* updateRequested
    step,           \* the updateStep under way and what it has read
    unit,           \* the installer and the job it has read
    queued,         \* systemd has been asked to start the unit
    approved,       \* history: releases asked for and still offered when ready
    faults, offers, manual

memory == <<ui, requested, step>>
disk == <<installed, job, aged, packages>>
world == <<offered, offers>>
counts == <<faults, manual>>
vars == <<offered, installed, service, job, aged, packages, ui, requested, step,
          unit, queued, approved, faults, offers, manual>>

Version == 0..MaxVersion
Terminal == {"succeeded", "failed", "rolled_back"}
Job == [release: Version, from: Version, state: Terminal \cup {"none", "ready", "installing"}]
NoJob == [release |-> 0, from |-> 0, state |-> "none"]

FreshUI == [state |-> "idle", release |-> 0]
NoStep == [at |-> "none", release |-> 0, before |-> FreshUI, job |-> NoJob]
NoUnit == [at |-> "none", job |-> NoJob]

UIState == Terminal \cup {"idle", "checking", "available", "downloading", "ready", "installing"}
UI == [state: UIState, release: Version]

Service == [up: BOOLEAN, version: Version]
Step == [at: {"none", "recover", "checked", "download", "recheck"},
         release: Version, before: UI, job: Job]
Unit == [at: {"none", "loaded", "stop", "apt", "ready", "rollback", "restored"}, job: Job]

TypeOK ==
    /\ offered \in Version /\ installed \in Version
    /\ service \in Service
    /\ job \in Job /\ aged \in BOOLEAN /\ packages \subseteq Version
    /\ ui \in UI
    /\ requested \in Version
    /\ step \in Step /\ unit \in Unit
    /\ queued \in BOOLEAN /\ approved \subseteq Version
    /\ faults \in 0..MaxFaults /\ offers \in 0..MaxOffers /\ manual \in 0..MaxManual

Init ==
    /\ offered = 0 /\ installed = 0
    /\ service = [up |-> TRUE, version |-> 0]
    /\ job = NoJob /\ aged = FALSE /\ packages = {}
    /\ ui = FreshUI /\ requested = 0 /\ step = NoStep
    /\ unit = NoUnit /\ queued = FALSE /\ approved = {}
    /\ faults = 0 /\ offers = 0 /\ manual = 0

-----------------------------------------------------------------------------
(* The service's update loop, one step a minute or when woken.             *)

\* End of a step: the request is spent.
EndStep(state) ==
    /\ ui' = [ui EXCEPT !.state = state]
    /\ requested' = 0
    /\ step' = NoStep

IsRecent == job.state = "installing" /\ ~aged /\ unit.at = "none"

\* An install nobody is running any more becomes installable again.
IsStuck == job.state = "installing" /\ aged /\ unit.at = "none"

Begin ==
    /\ service.up /\ step = NoStep
    /\ IF job.state = "installing"
       THEN IF IsStuck
            THEN step' = [NoStep EXCEPT !.at = "recover", !.job = job] /\ UNCHANGED <<ui, requested>>
            ELSE EndStep("installing")
       ELSE LET shown == IF job.state \in Terminal
                         THEN [state |-> job.state, release |-> job.release] ELSE ui
            IN  \/ /\ offered > service.version
                   /\ step' = [NoStep EXCEPT !.at = "checked", !.release = offered, !.before = shown]
                   /\ ui' = [shown EXCEPT !.release = offered]
                   /\ UNCHANGED requested
                \/ /\ offered <= service.version
                   /\ ui' = [shown EXCEPT !.state =
                                IF @ \in {"succeeded", "rolled_back"} THEN @ ELSE "idle"]
                   /\ requested' = 0 /\ step' = NoStep
                \/ /\ ui' = [shown EXCEPT !.state = "failed"]        \* the check fails
                   /\ requested' = 0 /\ step' = NoStep
    /\ UNCHANGED <<service, unit, queued, approved>> /\ UNCHANGED disk
    /\ UNCHANGED world /\ UNCHANGED counts

\* The installer's lock was free when IsStuck looked; the file is written now.
\* Nothing here waits: cancelling only changes what is shown at the end.
Recover ==
    /\ step.at = "recover"
    /\ job' = [step.job EXCEPT !.state = "ready"]
    /\ ui' \in [state: {"ready", "available"}, release: {step.job.release}]
    /\ requested' = 0 /\ step' = NoStep
    /\ UNCHANGED <<installed, service, aged, packages, unit, queued, approved>>
    /\ UNCHANGED world /\ UNCHANGED counts

\* A release that failed is left alone until somebody asks for it again.
LeftAlone ==
    /\ job.release = step.release /\ job.state \in {"failed", "rolled_back"}
    /\ requested # step.release /\ step.before.state # "checking"

KeptNewest == {step.release, job.release}
\* What PrunePackages keeps: the candidate and the job's two packages.
Kept == {step.release, job.release, job.from}

\* Verify the metadata; without a request only say what is available.
Decide ==
    /\ step.at = "checked"
    /\ \/ /\ LeftAlone
          /\ EndStep(ui.state) /\ UNCHANGED packages
       \/ /\ ~LeftAlone                                              \* not verifiable
          /\ EndStep("failed") /\ UNCHANGED packages
       \/ /\ ~LeftAlone /\ requested # step.release
          /\ EndStep(IF step.before = [state |-> "ready", release |-> step.release]
                     THEN ui.state ELSE "available")
          /\ UNCHANGED packages
       \/ /\ ~LeftAlone /\ requested = step.release
          /\ packages' = packages \cap Kept
          /\ ui' = [ui EXCEPT !.state = "downloading"]
          /\ step' = [step EXCEPT !.at = "download"]
          /\ UNCHANGED requested
    /\ UNCHANGED <<installed, service, job, aged, unit, queued, approved>>
    /\ UNCHANGED world /\ UNCHANGED counts

\* A package is there once all its bytes are the signed ones, or not at all:
\* the candidate, then that of the running version to roll back to.
Downloads == {{}, {step.release}, {step.release, service.version}}

Download ==
    /\ step.at = "download"
    /\ \E got \in Downloads :
          /\ packages' = packages \cup got
          /\ IF service.version \in got
             THEN step' = [step EXCEPT !.at = "recheck"] /\ UNCHANGED <<ui, requested>>
             ELSE EndStep("failed")
    /\ UNCHANGED <<installed, service, job, aged, unit, queued, approved>>
    /\ UNCHANGED world /\ UNCHANGED counts

\* The release may have been withdrawn during a long download.
StillOffered == offered = step.release

Recheck ==
    /\ step.at = "recheck"
    /\ LET new == [release |-> step.release, from |-> service.version, state |-> "ready"]
       IN  \/ /\ EndStep("failed") /\ UNCHANGED <<job, approved>>    \* the check fails
           \/ /\ StillOffered
              /\ job' = new
              /\ approved' = IF offered = step.release /\ requested = step.release
                             THEN approved \cup {step.release} ELSE approved
              /\ EndStep("ready")
           \/ /\ ~StillOffered
              /\ job' = [new EXCEPT !.state = "failed"]
              /\ EndStep("failed") /\ UNCHANGED approved
    /\ UNCHANGED <<installed, service, aged, packages, unit, queued>>
    /\ UNCHANGED world /\ UNCHANGED counts

-----------------------------------------------------------------------------
(* The user's requests, in any state of the step.                          *)

AskDownload ==
    /\ service.up /\ step = NoStep
    /\ ui.release # 0 /\ requested = 0 /\ ui.state \notin {"installing", "downloading"}
    /\ requested' = ui.release
    /\ ui' = [ui EXCEPT !.state = "checking"]
    /\ UNCHANGED <<service, step, unit, queued, approved>> /\ UNCHANGED disk
    /\ UNCHANGED world /\ UNCHANGED counts

AskCheck ==
    /\ service.up /\ ui.state \notin {"downloading", "installing", "checking"}
    /\ ui' = [ui EXCEPT !.state = "checking"]
    /\ UNCHANGED <<service, requested, step, unit, queued, approved>> /\ UNCHANGED disk
    /\ UNCHANGED world /\ UNCHANGED counts

Cancel ==
    /\ service.up /\ step.at # "recover"
    /\ IF step = NoStep
       THEN requested # 0 /\ requested' = 0 /\ UNCHANGED <<ui, step>>
       ELSE EndStep(IF ui.state = "installing" THEN "installing" ELSE "available")
    /\ UNCHANGED <<service, unit, queued, approved>> /\ UNCHANGED disk
    /\ UNCHANGED world /\ UNCHANGED counts

\* Systemd is asked to start the unit and returns at once, or refuses.
AskInstall ==
    /\ service.up /\ ui.state = "ready" /\ job.state = "ready"
    /\ \/ /\ job' = [job EXCEPT !.state = "installing"]
          /\ aged' = FALSE /\ queued' = TRUE
          /\ ui' = [ui EXCEPT !.state = "installing"]
       \/ UNCHANGED <<job, aged, queued, ui>>
    /\ UNCHANGED <<installed, service, packages, requested, step, unit, approved>>
    /\ UNCHANGED world /\ UNCHANGED counts

CancelInstall ==
    /\ service.up /\ ui.state = "installing" /\ unit.at = "none"
    /\ job' = IF job = NoJob THEN NoJob ELSE [job EXCEPT !.state = "ready"]
    /\ ui' = [ui EXCEPT !.state = "ready"]
    /\ UNCHANGED <<installed, service, aged, packages, requested, step, unit, queued, approved>>
    /\ UNCHANGED world /\ UNCHANGED counts

-----------------------------------------------------------------------------
(* The installer: update.Apply under the installation lock.                *)

SaveOutcome(state) ==
    /\ job' = [unit.job EXCEPT !.state = state]
    /\ unit' = NoUnit

Start ==
    /\ queued /\ unit = NoUnit
    /\ queued' = FALSE
    /\ \/ UNCHANGED unit                     \* the lock is just being probed
       \/ /\ job.state \in {"ready", "installing"}
          /\ unit' = [at |-> "loaded", job |-> job]
       \/ job.state \notin {"ready", "installing"} /\ UNCHANGED unit
    /\ UNCHANGED <<service, approved>> /\ UNCHANGED disk /\ UNCHANGED memory
    /\ UNCHANGED world /\ UNCHANGED counts

Upgrades == unit.job.release > unit.job.from
Prepared == {unit.job.release, unit.job.from} \subseteq packages

Verify ==
    /\ unit.at = "loaded"
    /\ \/ /\ Upgrades /\ Prepared
          /\ job' = [unit.job EXCEPT !.state = "installing"]
          /\ aged' = FALSE
          /\ unit' = [at |-> "stop", job |-> [unit.job EXCEPT !.state = "installing"]]
       \/ SaveOutcome("failed") /\ UNCHANGED aged     \* also when signatures expired
    /\ UNCHANGED <<installed, service, packages, queued, approved>> /\ UNCHANGED memory
    /\ UNCHANGED world /\ UNCHANGED counts

Down == [service EXCEPT !.up = FALSE]
Forget == ui' = FreshUI /\ requested' = 0 /\ step' = NoStep

StopService ==
    /\ unit.at = "stop"
    /\ \/ /\ service' = Down /\ Forget
          /\ unit' = [unit EXCEPT !.at = "apt"]
       \/ /\ unit' = [unit EXCEPT !.at = "rollback"]
          /\ UNCHANGED <<service, ui, requested, step>>
    /\ UNCHANGED <<queued, approved>> /\ UNCHANGED disk /\ UNCHANGED world /\ UNCHANGED counts

\* APT unpacks the package and its scripts restart the service, or it fails.
Put(v, next) ==
    /\ v \in packages
    /\ installed' = v
    /\ service' \in {[up |-> TRUE, version |-> v], [up |-> FALSE, version |-> v]}
    /\ Forget
    /\ unit' = [unit EXCEPT !.at = next]

Apt ==
    /\ unit.at = "apt"
    /\ \/ Put(unit.job.release, "ready")
       \/ /\ unit' = [unit EXCEPT !.at = "rollback"]
          /\ UNCHANGED <<installed, service, ui, requested, step>>
    /\ UNCHANGED <<job, aged, packages, queued, approved>>
    /\ UNCHANGED world /\ UNCHANGED counts

Answers(v) == service.up /\ service.version = v

WaitReady ==
    /\ unit.at = "ready"
    /\ \/ /\ Answers(unit.job.release)
          /\ SaveOutcome("succeeded")
       \/ unit' = [unit EXCEPT !.at = "rollback"] /\ UNCHANGED job
    /\ UNCHANGED <<installed, service, aged, packages, queued, approved>>
    /\ UNCHANGED memory /\ UNCHANGED world /\ UNCHANGED counts

Rollback ==
    /\ unit.at = "rollback"
    /\ \/ Put(unit.job.from, "restored") /\ UNCHANGED job
       \/ SaveOutcome("failed") /\ UNCHANGED <<installed, service, ui, requested, step>>
    /\ UNCHANGED <<aged, packages, queued, approved>> /\ UNCHANGED world /\ UNCHANGED counts

WaitRestored ==
    /\ unit.at = "restored"
    /\ \/ Answers(unit.job.from) /\ SaveOutcome("rolled_back")
       \/ SaveOutcome("failed")
    /\ UNCHANGED <<installed, service, aged, packages, queued, approved>>
    /\ UNCHANGED memory /\ UNCHANGED world /\ UNCHANGED counts

-----------------------------------------------------------------------------
(* The environment.                                                        *)

Offer ==
    /\ offers < MaxOffers
    /\ offers' = offers + 1
    /\ offered' \in Version \ {offered}
    /\ UNCHANGED <<service, unit, queued, approved>> /\ UNCHANGED disk
    /\ UNCHANGED memory /\ UNCHANGED counts

Age ==
    /\ job.state = "installing" /\ ~aged
    /\ aged' = TRUE
    /\ UNCHANGED <<installed, service, job, packages, unit, queued, approved>>
    /\ UNCHANGED memory /\ UNCHANGED world /\ UNCHANGED counts

\* The power fails; on boot the timer starts the unit if there is a job.
PowerFails ==
    /\ faults < MaxFaults
    /\ faults' = faults + 1
    /\ service' = Down /\ Forget
    /\ unit' = NoUnit /\ queued' = (job # NoJob)
    /\ UNCHANGED <<approved, manual>> /\ UNCHANGED disk /\ UNCHANGED world

ServiceCrashes ==
    /\ faults < MaxFaults /\ service.up
    /\ faults' = faults + 1
    /\ service' = Down /\ Forget
    /\ UNCHANGED <<unit, queued, approved, manual>> /\ UNCHANGED disk /\ UNCHANGED world

\* Systemd starts the service again, unless the installer has stopped it.
ServiceStarts ==
    /\ ~service.up /\ unit.at \notin {"apt", "rollback"}
    /\ service' = [up |-> TRUE, version |-> installed]
    /\ UNCHANGED <<unit, queued, approved>> /\ UNCHANGED disk /\ UNCHANGED memory
    /\ UNCHANGED world /\ UNCHANGED counts

\* The administrator installs a newer package with apt (README.md:114).
InstallByHand ==
    /\ manual < MaxManual /\ unit = NoUnit /\ ~queued
    /\ manual' = manual + 1
    /\ \E v \in (installed + 1)..MaxVersion :
          installed' = v /\ service' = [up |-> TRUE, version |-> v]
    /\ Forget
    /\ UNCHANGED <<job, aged, packages, unit, queued, approved, faults>> /\ UNCHANGED world

Loop == Begin \/ Recover \/ Decide \/ Download \/ Recheck
Installer == Start \/ Verify \/ StopService \/ Apt \/ WaitReady \/ Rollback \/ WaitRestored
User == AskDownload \/ AskCheck \/ Cancel \/ AskInstall \/ CancelInstall
Environment == Offer \/ Age \/ PowerFails \/ ServiceCrashes \/ ServiceStarts \/ InstallByHand

Next == Loop \/ Installer \/ User \/ Environment

Spec == Init /\ [][Next]_vars

\* The loop and the installer run on, time passes, systemd restarts the service.
Fair ==
    /\ WF_vars(Begin /\ IsStuck) /\ WF_vars(Recover)
    /\ WF_vars(Decide \/ Download \/ Recheck)
    /\ WF_vars(Installer) /\ WF_vars(Age) /\ WF_vars(ServiceStarts)

FairSpec == Spec /\ Fair

-----------------------------------------------------------------------------
(* The installer works on releases somebody asked for and that were still  *)
(* offered when the download had ended (updates.go: "signed bytes alone do *)
(* not authorize rollout"), and never without the package to go back to,   *)
(* although the service prunes the cache while the installer runs.         *)
OnlyApproved ==
    /\ job.state \in {"ready", "installing"} => job.release \in approved
    /\ unit.at # "none" => unit.job.release \in approved

Installing == {"stop", "apt", "ready", "rollback", "restored"}
\* The job file still speaks of the installation under way.
Undisturbed == job.release = unit.job.release /\ job.from = unit.job.from

CanRollBack ==
    unit.at \in Installing /\ Undisturbed => unit.job.from \in packages

Inv == TypeOK /\ OnlyApproved /\ CanRollBack

\* What these rest on: a download is of the release that was asked for, and what the
\* service may still make of the file (a ready job again) is approved and in the cache.
Pending ==
    /\ step.at \in {"download", "recheck"} => requested = step.release
    /\ step.at = "recheck" => service.version \in packages
    /\ step.at = "recover" =>
          step.job.release \in approved /\ (unit.at \in Installing => unit.job.from \in packages)
    /\ ui.state = "installing" => job = NoJob \/ job.release \in approved
    /\ ~service.up => step = NoStep
Supported == Inv /\ Pending

\* Only a newer package is installed; an older one only to undo this very
\* installation (docs/updates.md:7).
NeverDowngrades == [][installed' < installed => unit.at = "rollback"]_vars

\* An interrupted installation does not stay "installing" for ever: the
\* installer ends it or the service makes the job installable again.
InterruptedEnds == (job.state = "installing") ~> (job.state # "installing")
=============================================================================
