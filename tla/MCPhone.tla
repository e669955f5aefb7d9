------------------------------- MODULE MCPhone -------------------------------
(* The parts of the phone that share no state: the launch, the firmware      *)
(* update, the USB panel, what the platform is asked for, and the permission *)
(* of a USB device.  Each is explored by itself, and fair while it is the    *)
(* one explored (LaunchFair, DfuFair, UsbFair).                              *)
EXTENDS AppLaunch, LegacyDfu, AndroidUsb, PhoneRequests, UsbAuthorization

VARIABLE part

phoneVars == <<launchVars, dfuVars, usbVars, requestVars, authorizationVars, part>>

PhoneInit ==
  /\ part \in {"launch", "firmware", "usb", "requests", "authorization"}
  /\ LaunchInit /\ DfuInit /\ UsbInit /\ RequestsInit /\ AuthorizationInit
  /\ part # "firmware" => session.total = 1
  /\ part # "usb" => permitted = {}
  /\ part # "requests" => os = "ios" /\ viewed.identity = CHOOSE i \in Identities : TRUE
PhoneNext ==
  \/ /\ part = "launch" /\ LaunchNext
     /\ UNCHANGED <<dfuVars, usbVars, requestVars, authorizationVars, part>>
  \/ /\ part = "firmware" /\ DfuNext
     /\ UNCHANGED <<launchVars, usbVars, requestVars, authorizationVars, part>>
  \/ /\ part = "usb" /\ UsbNext
     /\ UNCHANGED <<launchVars, dfuVars, requestVars, authorizationVars, part>>
  \/ /\ part = "requests" /\ RequestsNext
     /\ UNCHANGED <<launchVars, dfuVars, usbVars, authorizationVars, part>>
  \/ /\ part = "authorization" /\ AuthorizationNext
     /\ UNCHANGED <<launchVars, dfuVars, usbVars, requestVars, part>>

PhoneFair ==
  /\ WF_launchVars(part = "launch" /\ OwnerMoves)
  /\ WF_launchVars(part = "launch" /\ ShowUpdate)
  /\ WF_launchVars(part = "launch" /\ BootstrapAnswered)
  /\ WF_dfuVars(part = "firmware" /\ Runner)
  /\ WF_dfuVars(part = "firmware" /\ DidWriteValue)
  /\ WF_dfuVars(part = "firmware" /\ DidUpdateValue)
  /\ WF_dfuVars(part = "firmware" /\ IsReadyToSend)
  /\ WF_dfuVars(part = "firmware" /\ LoaderTakes)
  /\ WF_dfuVars(part = "firmware" /\ Discovered)
  /\ WF_dfuVars(part = "firmware" /\ loader.activated /\ DidDisconnect)
  /\ WF_usbVars(part = "usb" /\ PanelStep)
  /\ WF_usbVars(part = "usb" /\ OwnerUsbStep)
  /\ WF_usbVars(part = "usb" /\ WorkerStep)

PhoneSpec == PhoneInit /\ [][PhoneNext]_phoneVars /\ PhoneFair
=============================================================================
