--------------------------- MODULE AppLaunchProofs ---------------------------
(* Proofs about AppLaunch, for every tolerance, drift and distance of boots  *)
(* that LaunchAssumption admits, and every number of launches and restarts.  *)
EXTENDS AppLaunch, QueueLemmas

(* The authentication the stored marker is of: it was in this boot, or the
   marker lies further back than two samples of one boot can. *)
MarkerIsOfItsBoot ==
  satisfiedBoot # NoMarker =>
    /\ satisfiedBoot <= marker + Drift
    /\ authenticated.boot = boot \/ satisfiedBoot + RestartTime <= marker + Drift

(* What says that this launch was authenticated is of this launch. *)
LaunchIsOfItsProcess ==
  /\ owner # "down" => launch # 0
  /\ satisfiedLaunch \in {0, launch}
  /\ satisfiedLaunch # 0 => authenticated.launch = launch

(* The marker sampled before the operator was asked; a sleep may move it since. *)
SampleIsOfThisBoot ==
  owner = "authenticating" => sampled # NoMarker /\ sampled <= marker + Drift

Clocks ==
  /\ boot \in Nat /\ marker \in Nat /\ launch \in Nat
  /\ satisfiedBoot \in Int /\ sampled \in Int

UnlockInv ==
  /\ Clocks /\ MarkerIsOfItsBoot /\ LaunchIsOfItsProcess /\ SampleIsOfThisBoot
  /\ NodeNeedsUnlock

(* What App shows before a bootstrap, a failure or a session. *)
Early == {"Inspecting", "Authenticating", "Locked"}
Gated == {"gate", "authenticating", "locked", "presence"}
BeforeBootstrap == owner \in Gated

(* At most one request of the bootstrap is under way, and it is the one App
   waits for: in the channel, in the hands of the owner, or answered. *)
OneRequest ==
  \/ waiting = None /\ requests = <<>> /\ request = None /\ answer = None
  \/ /\ waiting \in {"Create", "Restore"}
     /\ \/ owner = "bootstrap" /\ requests = <<waiting>> /\ request = None /\ answer = None
        \/ /\ owner \in {"restoring", "verify", "booting", "booted"}
           /\ requests = <<>> /\ request = waiting /\ answer = None
        \/ /\ owner \in {"bootstrap", "ended"} \cup Started
           /\ requests = <<>> /\ request = None /\ answer # None

(* Where the owner is, by what is to become of the identity. *)
OwnerFollowsChoice ==
  /\ owner \in Gated \cup {"bootstrap", "restoring", "verify", "booting", "booted", "ended"}
                 \cup Started
  /\ owner \in {"bootstrap", "restoring"} => custody = "absent"
  /\ owner \in {"restoring", "verify"} => waiting = "Restore"
  /\ owner = "verify" => custody # "absent"
  /\ owner = "booting" /\ custody = "absent" => waiting = "Create"
  /\ owner \in {"booting", "booted"} /\ waiting = None => shown.is \in Early
  /\ BeforeBootstrap => shown.is \in Early

(* App cannot choose twice: the form is given back only with the answer. *)
FormIsHeld ==
  /\ shown.is \in Early => waiting = None /\ ~picking
  /\ shown.is = "Bootstrap" /\ waiting # None => phase \in {"Creating", "Restoring"}
  /\ shown.is = "Bootstrap" /\ picking => phase = "Selecting" /\ waiting = None
  /\ exported # <<>> => shown.is \notin Early \cup {"Bootstrap"}

(* What waits to be shown never takes App back to an earlier view. *)
ViewsMoveOn ==
  slot # <<>> =>
    /\ Head(slot).is \in Early \cup {"Bootstrap"} => shown.is \in Early
    /\ BeforeBootstrap => Head(slot).is \in Early
    /\ owner \in {"booting", "booted"} /\ waiting = None => Head(slot).is \in Early

BootstrapInv ==
  owner # "down" => OneRequest /\ OwnerFollowsChoice /\ FormIsHeld /\ ViewsMoveOn

-----------------------------------------------------------------------------
(* Nothing is stored and nothing has been authenticated. *)
LEMMA UnlockInvHolds ==
  LaunchInit => UnlockInv
  <1>. SUFFICES ASSUME LaunchInit PROVE UnlockInv
    OBVIOUS
  <1>. QED
    BY DEF LaunchInit, UnlockInv, Clocks, MarkerIsOfItsBoot, LaunchIsOfItsProcess,
           SampleIsOfThisBoot, NodeNeedsUnlock, NoMarker, Private, Started

(* Every step keeps it: of the device, of the process, and of the lock. *)
LEMMA UnlockInvIsKept ==
  UnlockInv /\ [LaunchNext]_launchVars => UnlockInv'
  <1>. SUFFICES ASSUME UnlockInv, [LaunchNext]_launchVars PROVE UnlockInv'
    OBVIOUS
  <1>. USE LaunchAssumption
       DEF UnlockInv, Clocks, MarkerIsOfItsBoot, LaunchIsOfItsProcess, SampleIsOfThisBoot,
           NodeNeedsUnlock, NoMarker, Private, Started, stored, device, ownerKeeps, launchVars
  <1>1. CASE LaunchApp
    BY <1>1 DEF LaunchApp
  <1>2. CASE KillApp
    BY <1>2 DEF KillApp
  <1>3. CASE RestartDevice
    BY <1>3 DEF RestartDevice
  <1>4. CASE SleepDevice
    BY <1>4 DEF SleepDevice
  <1>5. CASE Gate
    <2>. PICK second \in BootSamples :
           IF RequiresAuthentication(second)
           THEN owner' = "authenticating" /\ sampled' = second /\ UNCHANGED entry
           ELSE Passes /\ UNCHANGED sampled
      BY <1>5 DEF Gate
    <2>1. /\ owner = "gate"
          /\ UNCHANGED <<stored, device, launch, satisfiedLaunch, authenticated>>
      BY <1>5 DEF Gate
    <2>2. second \in Int /\ marker <= second /\ second <= marker + Drift
      BY DEF BootSamples
    <2>3. CASE RequiresAuthentication(second)
      BY <2>1, <2>2, <2>3
    <2>4. CASE ~RequiresAuthentication(second)
      <3>1. owner' = "presence" /\ entry' = (IF setup THEN policy ELSE "setup") /\ sampled' = sampled
        BY <2>4 DEF Passes
      <3>2. entry' = "EveryLaunch" => authenticated.launch = launch
        BY <2>1, <2>4, <3>1 DEF RequiresAuthentication
      <3>3. entry' = "OncePerBoot" => authenticated.boot = boot
        <4>1. entry' = "OncePerBoot" => satisfiedBoot # NoMarker /\ SameBoot(satisfiedBoot, second)
          BY <2>4, <3>1 DEF RequiresAuthentication
        <4>2. SameBoot(satisfiedBoot, second) => ~(satisfiedBoot + RestartTime <= marker + Drift)
          BY <2>2 DEF SameBoot
        <4>. QED BY <4>1, <4>2
      <3>. QED BY <2>1, <3>1, <3>2, <3>3
    <2>. QED BY <2>3, <2>4
  <1>6. CASE Authenticated
    BY <1>6 DEF Authenticated, Passes
  <1>7. CASE NotAuthenticated
    BY <1>7 DEF NotAuthenticated, LaunchFault
  <1>8. CASE TakeRetry
    BY <1>8 DEF TakeRetry
  <1>9. CASE PreparationFails
    BY <1>9 DEF PreparationFails, LaunchFault
  <1>10. CASE Inspect
    BY <1>10 DEF Inspect
  <1>11. CASE TakeRequest
    BY <1>11 DEF TakeRequest
  <1>12. CASE Restores
    BY <1>12 DEF Restores
  <1>13. CASE RestoreRefused
    BY <1>13 DEF RestoreRefused, LaunchFault
  <1>14. CASE Verifies
    BY <1>14 DEF Verifies
  <1>15. CASE StartFails
    BY <1>15 DEF StartFails, LaunchFault
  <1>16. CASE Boots
    BY <1>16 DEF Boots
  <1>17. CASE RecordSetup
    BY <1>17 DEF RecordSetup
  <1>18. CASE PublishSnapshot
    BY <1>18 DEF PublishSnapshot, LaunchFault
  <1>19. CASE NodeReports \/ SessionMoves
    BY <1>19 DEF NodeReports, SessionMoves
  <1>20. CASE ShowUpdate
    BY <1>20 DEF ShowUpdate, AppStays
  <1>21. CASE BackupPicked
    BY <1>21 DEF BackupPicked, AppStays
  <1>22. CASE BootstrapAnswered
    BY <1>22 DEF BootstrapAnswered, AppStays
  <1>23. CASE BackupAnswered
    BY <1>23 DEF BackupAnswered, AppStays
  <1>24. CASE Unlock
    BY <1>24 DEF Unlock, AppStays
  <1>25. CASE CreateIdentity
    BY <1>25 DEF CreateIdentity, AppStays
  <1>26. CASE SelectBackup
    BY <1>26 DEF SelectBackup, AppStays
  <1>27. CASE RestoreIdentity
    BY <1>27 DEF RestoreIdentity, AppStays
  <1>28. CASE ExportBackup
    BY <1>28 DEF ExportBackup, AppStays
  <1>29. ASSUME NEW p \in Policies, SetPolicy(p)
         PROVE  UnlockInv'
    BY <1>29 DEF SetPolicy
  <1>30. CASE UNCHANGED launchVars
    BY <1>30
  <1>. QED
    BY <1>1, <1>2, <1>3, <1>4, <1>5, <1>6, <1>7, <1>8, <1>9, <1>10, <1>11, <1>12,
       <1>13, <1>14, <1>15, <1>16, <1>17, <1>18, <1>19, <1>20, <1>21, <1>22, <1>23,
       <1>24, <1>25, <1>26, <1>27, <1>28, <1>29, <1>30
    DEF LaunchNext, OwnerMoves, AppMoves, Operator, Device

(* The private session starts only as the stored policy allows, whatever earlier
   launches and boots have left: NodeNeedsUnlock of the run Phone. *)
THEOREM NodesNeedUnlock ==
  LaunchSpec => []NodeNeedsUnlock
  <1>1. UnlockInv => NodeNeedsUnlock
    BY DEF UnlockInv
  <1>. QED
    BY <1>1, UnlockInvHolds, UnlockInvIsKept, PTL DEF LaunchSpec

-----------------------------------------------------------------------------
(* A device without an identity, and nothing asked for. *)
LEMMA BootstrapInvHolds ==
  LaunchInit => BootstrapInv
  BY DEF LaunchInit, BootstrapInv

(* Every step keeps it. *)
LEMMA BootstrapInvIsKept ==
  BootstrapInv /\ [LaunchNext]_launchVars => BootstrapInv'
  <1>. SUFFICES ASSUME BootstrapInv, [LaunchNext]_launchVars PROVE BootstrapInv'
    OBVIOUS
  <1>. USE DEF BootstrapInv, OneRequest, OwnerFollowsChoice, FormIsHeld, ViewsMoveOn, Early,
           BeforeBootstrap, Gated, Started, None, stored, device, ownerKeeps, mail, appKeeps, launchVars
  <1>0. \A v : /\ <<v>> # <<>> /\ Head(<<v>>) = v /\ Tail(<<v>>) = <<>>
              /\ Append(<<>>, v) = <<v>>
    BY ShortQueues
  <1>1. CASE LaunchApp
    BY <1>0, <1>1 DEF LaunchApp, Inspecting
  <1>2. CASE KillApp
    BY <1>2 DEF KillApp
  <1>3. CASE RestartDevice
    BY <1>3 DEF RestartDevice
  <1>4. CASE SleepDevice
    BY <1>4 DEF SleepDevice
  <1>5. CASE Gate
    <2>1. /\ owner = "gate" /\ owner' \in {"authenticating", "presence"}
          /\ slot' = slot \/ slot' = <<LaunchView("Authenticating")>>
          /\ UNCHANGED <<custody, waiting, requests, request, answer, shown, appKeeps>>
      BY <1>5 DEF Gate, Show, Passes
    <2>2. CASE slot' = slot
      BY <2>1, <2>2
    <2>3. CASE slot' = <<LaunchView("Authenticating")>>
      <3>1. slot' # <<>> /\ Head(slot').is = "Authenticating"
        BY <1>0, <2>3 DEF LaunchView
      <3>. QED BY <2>1, <3>1
    <2>. QED BY <2>1, <2>2, <2>3
  <1>6. CASE Authenticated
    BY <1>6 DEF Authenticated, Passes
  <1>7. CASE NotAuthenticated
    BY <1>0, <1>7 DEF NotAuthenticated, Show, LaunchView, LaunchFault
  <1>8. CASE TakeRetry
    BY <1>8 DEF TakeRetry
  <1>9. CASE PreparationFails
    BY <1>0, <1>9 DEF PreparationFails, Show, LaunchView, LaunchFault
  <1>10. CASE Inspect
    BY <1>0, <1>10 DEF Inspect, Show, LaunchView
  <1>11. CASE TakeRequest
    BY <1>0, <1>11 DEF TakeRequest
  <1>12. CASE Restores
    BY <1>12 DEF Restores
  <1>13. CASE RestoreRefused
    BY <1>0, <1>13 DEF RestoreRefused, Reply, LaunchFault
  <1>14. CASE Verifies
    BY <1>0, <1>14 DEF Verifies
  <1>15. CASE StartFails
    BY <1>0, <1>15 DEF StartFails, Reply, Show, LaunchView, LaunchFault
  <1>16. CASE Boots
    BY <1>16 DEF Boots
  <1>17. CASE RecordSetup
    BY <1>0, <1>17 DEF RecordSetup, Reply
  <1>18. CASE PublishSnapshot
    BY <1>0, <1>18 DEF PublishSnapshot, Show, LaunchFault
  <1>19. CASE NodeReports \/ SessionMoves
    BY <1>19 DEF NodeReports, SessionMoves
  <1>20. CASE ShowUpdate
    BY <1>0, <1>20 DEF ShowUpdate, AppStays, Up
  <1>21. CASE BackupPicked
    BY <1>0, <1>21 DEF BackupPicked, AppStays, Up
  <1>22. CASE BootstrapAnswered
    BY <1>0, <1>22 DEF BootstrapAnswered, AppStays, Up
  <1>23. CASE BackupAnswered
    BY <1>0, <1>23 DEF BackupAnswered, AppStays, Up
  <1>24. CASE Unlock
    BY <1>0, <1>24 DEF Unlock, AppStays, Up
  <1>25. CASE CreateIdentity
    <2>1. /\ owner # "down" /\ shown.is = "Bootstrap" /\ phase' = "Creating" /\ waiting' = "Create"
          /\ waiting = None /\ ~picking /\ requests = <<>> /\ request = None /\ answer = None
          /\ UNCHANGED <<custody, owner, request, slot, shown, picking, exported>>
      BY <1>25 DEF CreateIdentity, Ask, AppStays, Up, Recovering
    <2>2. owner \in {"bootstrap", "ended"} \cup Started
      BY <2>1
    <2>3. CASE owner = "bootstrap"
      <3>1. requests' = <<"Create">> /\ answer' = answer
        BY <1>0, <1>25, <2>1, <2>3 DEF CreateIdentity, Ask
      <3>. QED BY <2>1, <2>3, <3>1
    <2>4. CASE owner # "bootstrap"
      <3>1. requests' = requests /\ answer' = "refused"
        BY <1>25, <2>2, <2>4 DEF CreateIdentity, Ask
      <3>. QED BY <2>1, <2>2, <2>4, <3>1
    <2>. QED BY <2>3, <2>4
  <1>26. CASE SelectBackup
    BY <1>0, <1>26 DEF SelectBackup, AppStays, Up, Recovering
  <1>27. CASE RestoreIdentity
    <2>1. /\ owner # "down" /\ shown.is = "Bootstrap" /\ phase' = "Restoring" /\ waiting' = "Restore"
          /\ waiting = None /\ ~picking /\ requests = <<>> /\ request = None /\ answer = None
          /\ UNCHANGED <<custody, owner, request, slot, shown, picking, exported>>
      BY <1>27 DEF RestoreIdentity, Ask, AppStays, Up, Recovering
    <2>2. owner \in {"bootstrap", "ended"} \cup Started
      BY <2>1
    <2>3. CASE owner = "bootstrap"
      <3>1. requests' = <<"Restore">> /\ answer' = answer
        BY <1>0, <1>27, <2>1, <2>3 DEF RestoreIdentity, Ask
      <3>. QED BY <2>1, <2>3, <3>1
    <2>4. CASE owner # "bootstrap"
      <3>1. requests' = requests /\ answer' = "refused"
        BY <1>27, <2>2, <2>4 DEF RestoreIdentity, Ask
      <3>. QED BY <2>1, <2>2, <2>4, <3>1
    <2>. QED BY <2>3, <2>4
  <1>28. CASE ExportBackup
    BY <1>0, <1>28 DEF ExportBackup, AppStays, Up
  <1>29. ASSUME NEW p \in Policies, SetPolicy(p)
         PROVE  BootstrapInv'
    BY <1>29 DEF SetPolicy
  <1>30. CASE UNCHANGED launchVars
    BY <1>30
  <1>. QED
    BY <1>1, <1>2, <1>3, <1>4, <1>5, <1>6, <1>7, <1>8, <1>9, <1>10, <1>11, <1>12,
       <1>13, <1>14, <1>15, <1>16, <1>17, <1>18, <1>19, <1>20, <1>21, <1>22, <1>23,
       <1>24, <1>25, <1>26, <1>27, <1>28, <1>29, <1>30
    DEF LaunchNext, OwnerMoves, AppMoves, Operator, Device

(* A device gets an identity only by the choice its operator waits for:
   IdentityAsChosen of the run Phone. *)
THEOREM IdentitiesAreChosen ==
  LaunchSpec => IdentityAsChosen
  <1>1. BootstrapInv /\ [LaunchNext]_launchVars =>
          [ custody' # custody => /\ custody = "absent"
                                  /\ custody' = (IF waiting = "Create" THEN "created" ELSE "restored")
                                  /\ waiting # None ]_launchVars
    <2>. SUFFICES ASSUME BootstrapInv, [LaunchNext]_launchVars, custody' # custody
                  PROVE  /\ custody = "absent" /\ waiting # None
                         /\ custody' = (IF waiting = "Create" THEN "created" ELSE "restored")
      OBVIOUS
    <2>1. Restores \/ StartFails \/ Boots
      BY DEF LaunchNext, OwnerMoves, AppMoves, Operator, Device, LaunchApp, KillApp, RestartDevice,
             SleepDevice, Gate, Authenticated, NotAuthenticated, TakeRetry, PreparationFails,
             Inspect, TakeRequest, RestoreRefused, Verifies, RecordSetup, PublishSnapshot,
             NodeReports, SessionMoves, ShowUpdate, BackupPicked, BootstrapAnswered, BackupAnswered, Unlock,
             CreateIdentity, SelectBackup, RestoreIdentity, ExportBackup, SetPolicy, AppStays,
             stored, launchVars
    <2>2. CASE Restores
      BY <2>2 DEF Restores, BootstrapInv, OwnerFollowsChoice, Gated, Started, None
    <2>3. CASE StartFails
      BY <2>3 DEF StartFails, BootstrapInv, OwnerFollowsChoice, Gated, Started, None
    <2>4. CASE Boots
      BY <2>4 DEF Boots, BootstrapInv, OwnerFollowsChoice, Gated, Started, None
    <2>. QED BY <2>1, <2>2, <2>3, <2>4
  <1>. QED
    BY <1>1, BootstrapInvHolds, BootstrapInvIsKept, PTL DEF LaunchSpec, IdentityAsChosen
=============================================================================
