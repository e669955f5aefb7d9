------------------------------ MODULE AppLaunch ------------------------------
(***************************************************************************)
(* A launch of the phone application up to its running session, and what   *)
(* the root component shows meanwhile: the App Lock gate and its stored    *)
(* policy (app_lock.rs, device_authentication.rs, gate_app_lock), the      *)
(* identity bootstrap (prepare_owner) and the recovery workflow of App     *)
(* (apps/mobile/src/lib.rs).  Processes end and devices restart at any     *)
(* time; what is stored survives, everything else starts over.             *)
(*                                                                         *)
(* The device's clock is never set back: the marker of a boot only grows,  *)
(* by sleep (uptime does not count it) and by restarts.                    *)
(***************************************************************************)
EXTENDS Integers, Sequences

CONSTANTS
  BootTolerance,   \* BOOT_IDENTITY_TOLERANCE_SECS
  Drift,           \* how far two samples of one marker differ at most
  SleepTime,       \* how far a sleep moves the marker
  RestartTime,     \* how far a restart of the device moves it at least
  MaxLaunches, MaxDeviceRestarts, MaxSleeps,
  MaxPolicyChanges, MaxSessions, MaxLaunchFaults

ASSUME LaunchAssumption ==
  /\ BootTolerance \in Nat /\ Drift \in Nat /\ SleepTime \in Nat /\ RestartTime \in Nat
  /\ RestartTime > BootTolerance + Drift
  /\ MaxLaunches \in Nat /\ MaxDeviceRestarts \in Nat /\ MaxSleeps \in Nat
  /\ MaxPolicyChanges \in Nat /\ MaxSessions \in Nat \ {0} /\ MaxLaunchFaults \in Nat

VARIABLES
  \* Stored: the preferences and the identity custody.
  policy, setup, satisfiedBoot, custody,
  \* The device: boots so far, the marker of this one.
  boot, marker,
  \* The process and its session thread.
  launch, satisfiedLaunch, owner, sampled, retries, requests, request, answer, slot, generation,
  \* What App keeps.
  shown, phase, picked, picking, waiting, exported,
  \* Which rule let the owner pass the gate, and the last authentication.
  entry, authenticated,
  \* What the bounds count.
  sleeps, policyChanges, launchFaults

stored      == <<policy, setup, satisfiedBoot, custody>>
device      == <<boot, marker, sleeps>>
ownerKeeps  == <<satisfiedLaunch, sampled, entry, authenticated>>
mail        == <<retries, requests, request, answer, slot>>
appKeeps    == <<phase, picked, picking, waiting, exported>>
counts      == <<policyChanges, launchFaults>>
launchVars  == <<stored, device, launch, owner, ownerKeeps, mail, generation, shown, appKeeps, counts>>

Policies == {"EveryLaunch", "OncePerBoot", "Off"}
NoMarker == -1
None     == "none"
(* The owner has its node; it publishes a snapshot, or it waits for what comes
   next, the last snapshot published or, if it could not be projected, not. *)
Started  == {"publishing", "running", "unshown"}
Private  == {"presence", "bootstrap", "restoring", "verify", "booting", "booted", "ended"} \cup Started

LaunchView(what)  == [is |-> what, generation |-> 1]
Inspecting        == [is |-> "Inspecting", generation |-> 0]

LaunchInit ==
  /\ policy = "EveryLaunch" /\ setup = FALSE /\ satisfiedBoot = NoMarker /\ custody = "absent"
  /\ boot = 1 /\ marker = 0 /\ launch = 0 /\ owner = "down"
  /\ satisfiedLaunch = 0 /\ sampled = NoMarker /\ entry = None
  /\ authenticated = [launch |-> 0, boot |-> 0]
  /\ retries = 0 /\ requests = <<>> /\ request = None /\ answer = None /\ slot = <<>>
  /\ generation = 1 /\ shown = Inspecting
  /\ phase = "Idle" /\ picked = FALSE /\ picking = FALSE /\ waiting = None /\ exported = <<>>
  /\ sleeps = 0 /\ policyChanges = 0 /\ launchFaults = 0

LaunchFault == launchFaults < MaxLaunchFaults /\ launchFaults' = launchFaults + 1

-----------------------------------------------------------------------------
(* The device and the process. *)

LaunchApp ==
  /\ owner = "down" /\ launch < MaxLaunches
  /\ launch' = launch + 1 /\ owner' = "gate"
  /\ satisfiedLaunch' = 0 /\ sampled' = NoMarker /\ entry' = None
  /\ retries' = 0 /\ requests' = <<>> /\ request' = None /\ answer' = None /\ slot' = <<>>
  /\ generation' = 1 /\ shown' = Inspecting
  /\ phase' = "Idle" /\ picked' = FALSE /\ picking' = FALSE /\ waiting' = None
  /\ exported' = <<>>
  /\ UNCHANGED <<stored, device, authenticated, counts>>

KillApp ==
  /\ owner # "down" /\ owner' = "down"
  /\ UNCHANGED <<stored, device, launch, ownerKeeps, mail, generation, shown, appKeeps, counts>>

RestartDevice ==
  /\ boot <= MaxDeviceRestarts
  /\ boot' = boot + 1 /\ marker' = marker + RestartTime /\ owner' = "down"
  /\ UNCHANGED <<stored, sleeps, launch, ownerKeeps, mail, generation, shown, appKeeps, counts>>

SleepDevice ==
  /\ sleeps < MaxSleeps /\ sleeps' = sleeps + 1
  /\ marker' = marker + SleepTime
  /\ UNCHANGED <<stored, boot, launch, owner, ownerKeeps, mail, generation, shown, appKeeps, counts>>

-----------------------------------------------------------------------------
(* App Lock. *)

BootSamples == {marker + d : d \in 0 .. Drift}

(* Mutation: an earlier marker reads as this boot however far back it is. *)
NotBefore(a, b) == a - b <= BootTolerance

SameBoot(a, b) == a - b <= BootTolerance /\ b - a <= BootTolerance

(* app_lock_decision *)
RequiresAuthentication(sample) ==
  /\ setup
  /\ \/ policy = "EveryLaunch" /\ satisfiedLaunch # launch
     \/ policy = "OncePerBoot" /\ ~(satisfiedBoot # NoMarker /\ SameBoot(satisfiedBoot, sample))

(* force_send replaces the update the interface has not taken. *)
Show(view) == slot' = <<view>>

Passes == owner' = "presence" /\ entry' = IF setup THEN policy ELSE "setup"

(* gate_app_lock samples the boot twice: to say that it will ask, and to
   decide.  The second sample is the one recorded. *)
Gate ==
  /\ owner = "gate"
  /\ \E first, second \in BootSamples :
       /\ IF RequiresAuthentication(first) THEN Show(LaunchView("Authenticating"))
          ELSE UNCHANGED slot
       /\ IF RequiresAuthentication(second)
          THEN owner' = "authenticating" /\ sampled' = second /\ UNCHANGED entry
          ELSE Passes /\ UNCHANGED sampled
  /\ UNCHANGED <<stored, device, launch, satisfiedLaunch, authenticated, retries, requests,
                 request, answer, generation, shown, appKeeps, counts>>

Authenticated ==
  /\ owner = "authenticating"
  /\ satisfiedLaunch' = launch /\ satisfiedBoot' = sampled
  /\ authenticated' = [launch |-> launch, boot |-> boot]
  /\ Passes
  /\ UNCHANGED <<policy, setup, custody, device, launch, sampled, mail, generation, shown,
                 appKeeps, counts>>

(* Cancelled, unavailable or failed. *)
NotAuthenticated ==
  /\ owner = "authenticating" /\ LaunchFault
  /\ owner' = "locked" /\ Show(LaunchView("Locked"))
  /\ UNCHANGED <<stored, device, launch, ownerKeeps, retries, requests, request, answer,
                 generation, shown, appKeeps, policyChanges>>

TakeRetry ==
  /\ owner = "locked" /\ retries = 1
  /\ retries' = 0 /\ owner' = "gate"
  /\ UNCHANGED <<stored, device, launch, ownerKeeps, requests, request, answer, slot, generation,
                 shown, appKeeps, counts>>

-----------------------------------------------------------------------------
(* prepare_owner *)

Reply(result) == answer' = IF request = None THEN answer ELSE result

(* The runtime, the paths or the presence of an identity cannot be had. *)
PreparationFails ==
  /\ owner = "presence" /\ LaunchFault
  /\ owner' = "ended" /\ Show(LaunchView("Failed"))
  /\ UNCHANGED <<stored, device, launch, ownerKeeps, retries, requests, request, answer,
                 generation, shown, appKeeps, policyChanges>>

Inspect ==
  /\ owner = "presence"
  /\ IF custody = "absent" THEN owner' = "bootstrap" /\ Show(LaunchView("Bootstrap"))
     ELSE owner' = "booting" /\ UNCHANGED slot
  /\ UNCHANGED <<stored, device, launch, ownerKeeps, retries, requests, request, answer,
                 generation, shown, appKeeps, counts>>

TakeRequest ==
  /\ owner = "bootstrap" /\ requests # <<>>
  /\ requests' = Tail(requests) /\ request' = Head(requests)
  /\ owner' = IF Head(requests) = "Restore" THEN "restoring" ELSE "booting"
  /\ UNCHANGED <<stored, device, launch, ownerKeeps, retries, answer, slot, generation, shown,
                 appKeeps, counts>>

Restores ==
  /\ owner = "restoring"
  /\ custody' = "restored" /\ owner' = "verify"
  /\ UNCHANGED <<policy, setup, satisfiedBoot, device, launch, ownerKeeps, mail, generation,
                 shown, appKeeps, counts>>

(* Mutation: a refused restore is answered, and then the node boots. *)
RefusalBoots ==
  /\ owner = "restoring" /\ LaunchFault
  /\ Reply("refused") /\ request' = None /\ owner' = "booting"
  /\ UNCHANGED <<stored, device, launch, ownerKeeps, retries, requests, slot, generation, shown,
                 appKeeps, policyChanges>>

RestoreRefused ==
  /\ owner = "restoring" /\ LaunchFault
  /\ Reply("refused") /\ request' = None /\ owner' = "bootstrap"
  /\ UNCHANGED <<stored, device, launch, ownerKeeps, retries, requests, slot, generation, shown,
                 appKeeps, policyChanges>>

Verifies ==
  /\ owner = "verify" /\ owner' = "booting"
  /\ UNCHANGED <<stored, device, launch, ownerKeeps, mail, generation, shown, appKeeps, counts>>

(* The restored identity is not there, or the node does not boot: the answer
   and the failed view leave together, and the thread ends. *)
StartFails ==
  /\ owner \in {"verify", "booting"} /\ LaunchFault
  /\ custody' \in {custody} \cup (IF owner = "booting" /\ custody = "absent"
                                  THEN {"created"} ELSE {})
  /\ Reply("refused") /\ request' = None
  /\ owner' = "ended" /\ Show(LaunchView("Failed"))
  /\ UNCHANGED <<policy, setup, satisfiedBoot, device, launch, ownerKeeps, retries, requests,
                 generation, shown, appKeeps, policyChanges>>

(* MobileNode::boot: without an identity it makes one. *)
Boots ==
  /\ owner = "booting" /\ owner' = "booted"
  /\ custody' = IF custody = "absent" THEN "created" ELSE custody
  /\ UNCHANGED <<policy, setup, satisfiedBoot, device, launch, ownerKeeps, mail, generation,
                 shown, appKeeps, counts>>

RecordSetup ==
  /\ owner = "booted" /\ owner' = "publishing"
  /\ setup' = TRUE /\ Reply("ok") /\ request' = None
  /\ UNCHANGED <<policy, satisfiedBoot, custody, device, launch, ownerKeeps, retries, requests,
                 slot, generation, shown, appKeeps, counts>>

(* publish_snapshot, once: a projection that fails is dropped, and nothing tries
   it again (SessionOwner has the details of a projection). *)
PublishSnapshot ==
  /\ owner = "publishing"
  /\ \/ /\ owner' = "running" /\ Show([is |-> "Running", generation |-> generation])
        /\ UNCHANGED launchFaults
     \/ owner' = "unshown" /\ LaunchFault /\ UNCHANGED slot
  /\ UNCHANGED <<stored, device, launch, ownerKeeps, retries, requests, request, answer,
                 generation, shown, appKeeps, policyChanges>>

(* An event of the node; one whose snapshot App has seen would publish it again. *)
NodeReports ==
  /\ owner \in {"running", "unshown"} /\ owner' = "publishing"
  /\ slot = <<>> /\ shown # [is |-> "Running", generation |-> generation]
  /\ UNCHANGED <<stored, device, launch, ownerKeeps, mail, generation, shown, appKeeps, counts>>

(* Another generation of the backend, or another endpoint. *)
SessionMoves ==
  /\ owner \in {"running", "unshown"} /\ generation < MaxSessions
  /\ generation' = generation + 1 /\ owner' = "publishing"
  /\ UNCHANGED <<stored, device, launch, ownerKeeps, mail, shown, appKeeps, counts>>

-----------------------------------------------------------------------------
(* App *)

Up         == owner # "down"
Recovering == {"Creating", "Selecting", "Restoring"}
Exporting  == {"Exporting", "Sharing", "Selecting", "Restoring"}
AppStays   == UNCHANGED <<stored, device, launch, owner, ownerKeeps, generation, counts>>

ShowUpdate ==
  /\ Up /\ slot # <<>>
  /\ shown' = Head(slot) /\ slot' = <<>>
  /\ UNCHANGED <<retries, requests, request, answer, appKeeps>> /\ AppStays

Unlock ==
  /\ Up /\ shown.is = "Locked" /\ retries = 0
  /\ retries' = 1
  /\ UNCHANGED <<requests, request, answer, slot, shown, appKeeps>> /\ AppStays

SetPolicy(p) ==
  /\ Up /\ shown.is \in {"Running", "Failed"} /\ policyChanges < MaxPolicyChanges
  /\ policy' = p /\ policyChanges' = policyChanges + 1
  /\ UNCHANGED <<setup, satisfiedBoot, custody, device, launch, owner, ownerKeeps, mail,
                 generation, shown, appKeeps, launchFaults>>

(* request_bootstrap: once prepare_owner has returned nobody takes requests. *)
Ask(kind) ==
  /\ waiting' = kind
  /\ IF owner \in {"booted", "ended"} \cup Started
     THEN answer' = "refused" /\ UNCHANGED requests
     ELSE requests' = Append(requests, kind) /\ UNCHANGED answer

CreateIdentity ==
  /\ Up /\ shown.is = "Bootstrap" /\ phase \notin Recovering
  /\ phase' = "Creating" /\ picked' = FALSE /\ Ask("Create")
  /\ UNCHANGED <<retries, request, slot, shown, picking, exported>> /\ AppStays

SelectBackup ==
  /\ Up /\ shown.is = "Bootstrap" /\ phase \notin Recovering
  /\ phase' = "Selecting" /\ picked' = FALSE /\ picking' = TRUE
  /\ UNCHANGED <<mail, shown, waiting, exported>> /\ AppStays

BackupPicked ==
  /\ Up /\ picking /\ picking' = FALSE
  /\ IF shown.is # "Bootstrap" THEN UNCHANGED <<phase, picked>>
     ELSE phase' = "Idle" /\ \E found \in BOOLEAN : picked' = (picked \/ found)
  /\ UNCHANGED <<mail, shown, waiting, exported>> /\ AppStays

RestoreIdentity ==
  /\ Up /\ shown.is = "Bootstrap" /\ phase \notin Recovering /\ picked
  /\ phase' = "Restoring" /\ picked' = FALSE /\ Ask("Restore")
  /\ UNCHANGED <<retries, request, slot, shown, picking, exported>> /\ AppStays

(* Mutation: only a refused creation puts the form back. *)
CreationAnswered ==
  /\ Up /\ answer # None
  /\ phase' = IF answer = "refused" /\ waiting = "Create" /\ shown.is = "Bootstrap"
              THEN "Idle" ELSE phase
  /\ answer' = None /\ waiting' = None
  /\ UNCHANGED <<retries, requests, request, slot, shown, picked, picking, exported>>
  /\ AppStays

(* Only a refusal sets the phase, and only while the bootstrap is shown. *)
BootstrapAnswered ==
  /\ Up /\ answer # None
  /\ phase' = IF answer = "refused" /\ shown.is = "Bootstrap" THEN "Idle" ELSE phase
  /\ answer' = None /\ waiting' = None
  /\ UNCHANGED <<retries, requests, request, slot, shown, picked, picking, exported>>
  /\ AppStays

(* identity_backup: the owner answers only the generation it is in. *)
ExportBackup ==
  /\ Up /\ shown.is = "Running" /\ phase \notin Exporting
  /\ phase' = "Exporting"
  /\ exported' = <<"asked", shown.generation>>
  /\ UNCHANGED <<mail, shown, picked, picking, waiting>> /\ AppStays

(* Export and share sheet answer; an answer for another generation is dropped. *)
BackupAnswered ==
  /\ Up /\ exported # <<>>
  /\ LET current == exported[2] = shown.generation
         sharing == exported[1] = "asked" /\ exported[2] = generation
     IN \/ /\ current /\ sharing
           /\ phase' = "Sharing" /\ exported' = <<"sharing", exported[2]>>
        \/ /\ current /\ exported[1] = "sharing"
           /\ phase' = "SharePresented" /\ exported' = <<>>
        \/ /\ current /\ phase' = "Idle" /\ exported' = <<>>
        \/ /\ ~current /\ exported' = <<>> /\ UNCHANGED phase
  /\ UNCHANGED <<mail, shown, picked, picking, waiting>> /\ AppStays

-----------------------------------------------------------------------------
OwnerMoves == \/ Gate \/ Authenticated \/ NotAuthenticated \/ TakeRetry \/ PreparationFails
              \/ Inspect \/ TakeRequest \/ Restores \/ RestoreRefused \/ Verifies \/ StartFails
              \/ Boots \/ RecordSetup \/ PublishSnapshot
AppMoves   == ShowUpdate \/ BackupPicked \/ BootstrapAnswered \/ BackupAnswered
Operator   == \/ Unlock \/ CreateIdentity \/ SelectBackup \/ RestoreIdentity \/ ExportBackup
              \/ \E p \in Policies : SetPolicy(p)
Device     == LaunchApp \/ KillApp \/ RestartDevice \/ SleepDevice

LaunchNext == OwnerMoves \/ NodeReports \/ SessionMoves \/ AppMoves \/ Operator \/ Device

LaunchSpec == LaunchInit /\ [][LaunchNext]_launchVars

(* The session thread and the tasks of the interface run; the node, the
   picker and the share sheet answer.  The operator, the device, and a node that
   has been asked once owe nothing. *)
LaunchFair == WF_launchVars(OwnerMoves) /\ WF_launchVars(ShowUpdate)
              /\ WF_launchVars(BootstrapAnswered)

-----------------------------------------------------------------------------
(* Properties. *)

(* The private session starts only as the stored policy allows: after an
   authentication in this process, or in this boot of the device, whatever
   was stored by earlier launches, and across kills, restarts and sleeps. *)
NodeNeedsUnlock ==
  owner \in Private =>
    /\ entry = "EveryLaunch" => authenticated.launch = launch
    /\ entry = "OncePerBoot" => authenticated.boot = boot

(* A device gets an identity only by the choice its operator made for it: a
   refused restore, a retry or a new launch never makes a new identity in
   the place of the one to be restored. *)
IdentityAsChosen ==
  [][ custody' # custody => /\ custody = "absent"
                            /\ custody' = (IF waiting = "Create" THEN "created" ELSE "restored")
                            /\ waiting # None ]_launchVars

(* A choice made in the bootstrap is never left pending: the session comes
   up, the failure is shown, or the form is given back; except that a session
   whose one snapshot could not be projected runs unseen behind the form
   (session.rs:454), until its node reports something. *)
BootstrapProgresses ==
  shown.is = "Bootstrap" /\ phase \in {"Creating", "Restoring"}
    ~> shown.is # "Bootstrap" \/ phase = "Idle" \/ owner \in {"down", "unshown"}

(* "The encrypted backup was restored before identity startup."
   (styrene-ui-app/src/lib.rs:2757): a restore that was answered is over once
   the session is shown. *)
RestoreIsReported == shown.is = "Running" /\ waiting = None => phase # "Restoring"
=============================================================================
