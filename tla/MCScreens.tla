----------------------------- MODULE MCScreens -----------------------------
(* What the screens show, where nothing has to be fair: the desktop session    *)
(* over model values and short channels, its Protocol Lab and its content page, *)
(* the messages surface of the phone, and the reducer of its state.  The parts  *)
(* share no state and are explored one by one.                                  *)
EXTENDS DesktopSession, ProtocolLab, PageContent, Composer, MobileReducer

VARIABLE part

screenVars == <<vars, labVars, contentVars, composerVars, reducerVars, part>>

OneCollection == <<"interfaces">>

AllOrNothing == {{}, Reviewable}
NoGrant == {{}}

ScreensInit ==
  /\ part \in {"session", "lab", "content", "messages", "reducer"}
  /\ Init /\ LabInit /\ ContentInit /\ ComposerInit /\ ReducerInit
  /\ part # "messages" => \A p \in Peers : outgoing[p] = 0 /\ drafts[p] = Unsaved
  /\ part # "reducer" => Len(history) = 1
ScreensNext ==
  \/ /\ part = "session" /\ Next
     /\ UNCHANGED <<labVars, contentVars, composerVars, reducerVars, part>>
  \/ /\ part = "lab" /\ LabNext
     /\ UNCHANGED <<vars, contentVars, composerVars, reducerVars, part>>
  \/ /\ part = "content" /\ ContentNext
     /\ UNCHANGED <<vars, labVars, composerVars, reducerVars, part>>
  \/ /\ part = "messages" /\ ComposerNext
     /\ UNCHANGED <<vars, labVars, contentVars, reducerVars, part>>
  \/ /\ part = "reducer" /\ ReducerNext
     /\ UNCHANGED <<vars, labVars, contentVars, composerVars, part>>

ScreensSpec == ScreensInit /\ [][ScreensNext]_screenVars
=============================================================================
