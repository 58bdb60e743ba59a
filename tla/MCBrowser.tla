------------------------------- MODULE MCBrowser -------------------------------
(* Two runs of a page, so that what a run leaves behind meets the next; two     *)
(* requests in flight and four sequences.  Or a session and the one created     *)
(* next, and two presses at once.  Or its forms: three images, and three faces chosen two at a time, so  *)
(* that a list can be longer or shorter than the one that is being sent.        *)
EXTENDS BrowserSessions, BrowserForms

MCSessions == 1..2
MCPresses == {"first", "second"}
MCExercises == {"stream", "sessions", "forms"}

MCInit == SessionsInit /\ FormsInit
MCNext ==
    \/ exercise # "forms" /\ PageNext /\ UNCHANGED formVars
    \/ exercise = "forms" /\ FormsNext /\ UNCHANGED pageVars

\* The actions that are asked to happen are enabled in their own exercise only.
MCSpec == MCInit /\ [][MCNext]_<<pageVars, formVars>> /\ PageFairness
=============================================================================
