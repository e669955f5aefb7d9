--------------------------- MODULE MCSessionOwner ---------------------------
(* The session owner and the events of the platform, which share no state:   *)
(* each is explored by itself, and fair while it is the one explored.        *)
EXTENDS SessionOwner, PlatformEvents

VARIABLE part

allVars == <<vars, platformVars, part>>

SessionInit == part \in {"owner", "platform"} /\ Init /\ PlatformInit
SessionNext ==
  \/ part = "owner" /\ Next /\ UNCHANGED <<platformVars, part>>
  \/ part = "platform" /\ PlatformNext /\ UNCHANGED <<vars, part>>

SessionFair ==
  /\ WF_vars(part = "owner" /\ OwnerStep) /\ WF_vars(part = "owner" /\ Receive)
  /\ SF_vars(part = "owner" /\ HandleEvent) /\ SF_vars(part = "owner" /\ HandleLag)
  /\ SF_vars(part = "owner" /\ TakeAction) /\ SF_vars(part = "owner" /\ AnswerExport)
  /\ WF_platformVars(part = "platform" /\ TaskStep)
  /\ WF_platformVars(part = "platform" /\ ScriptStep)

SessionSpec == SessionInit /\ [][SessionNext]_allVars /\ SessionFair
=============================================================================
