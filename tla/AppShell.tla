--------------------------------- MODULE AppShell --------------------------------
(***************************************************************************)
(* The app's windows (lib.rs): what the setup starts and when, the tray    *)
(* popup with its two timers and its size in physical pixels, and the main *)
(* window, which is rebuilt when its webview dies.                         *)
(***************************************************************************)
EXTENDS Naturals

CONSTANTS
  Scales,        \* display scales
  MaxHold,       \* ticks of 100 ms a click on the tray icon lasts, at most
  MaxRebuilds    \* bound on webview crashes

ASSUME AppShellAssumption == Scales # {} /\ MaxHold \in Nat /\ MaxRebuilds \in Nat

Debounce == 3                       \* 300 ms since the blur hid the popup
BlurGrace == 5                          \* 500 ms since it was shown
Monitors == {"primary", "second"}
NoPress == [on |-> "primary", age |-> 0, shown |-> FALSE, held |-> FALSE]

VARIABLES
  setupDone,     \* how far the setup is: "none", "hook", "callbacks", "tray"
  dpi,           \* per monitor: its scale
  popup,         \* shown, focused, the monitor it is on; the scale of its size
  sinceShown, sinceHidden,  \* ticks since TRAY_SHOWN_AT_MS, TRAY_HIDDEN_AT_MS
  press,         \* a click on the icon that is not released: what it began on
  mainWindow,    \* "open", "destroyed", "rebuilding", "gone" after the exit
  rebuilds

shellVars == <<setupDone, dpi, popup, sinceShown, sinceHidden, press, mainWindow, rebuilds>>

AppShellTypeOK ==
  /\ setupDone \in {"none", "hook", "callbacks", "tray"} /\ dpi \in [Monitors -> Scales]
  /\ popup \in [shown : BOOLEAN, focused : BOOLEAN, at : Monitors,
                width : Scales, height : Scales \cup {0}]
  /\ sinceShown \in 0..BlurGrace /\ sinceHidden \in 0..Debounce
  /\ press \in [on : Monitors, age : 0..MaxHold, shown : BOOLEAN, held : BOOLEAN]
  /\ mainWindow \in {"open", "destroyed", "rebuilding", "gone"} /\ rebuilds \in 0..MaxRebuilds

\* The popup is created hidden, before it is ever rendered.
AppShellInit ==
  /\ setupDone = "none" /\ dpi \in [Monitors -> Scales]
  /\ popup = [shown |-> FALSE, focused |-> FALSE, at |-> "primary",
              width |-> dpi["primary"], height |-> 0]
  /\ sinceShown = BlurGrace /\ sinceHidden = Debounce /\ press = NoPress
  /\ mainWindow = "open" /\ rebuilds = 0

Alive == mainWindow # "gone"
ShellReady == setupDone = "tray" /\ Alive
Windows == <<setupDone, dpi, mainWindow, rebuilds>>

\* The key hook runs before the callbacks are there; the tray comes last.
SetupHook == setupDone = "none" /\ setupDone' = "hook"
             /\ UNCHANGED <<dpi, popup, sinceShown, sinceHidden, press, mainWindow, rebuilds>>
SetupRest ==
  /\ \/ setupDone = "hook" /\ setupDone' = "callbacks"
     \/ setupDone = "callbacks" /\ setupDone' = "tray"
  /\ UNCHANGED <<dpi, popup, sinceShown, sinceHidden, press, mainWindow, rebuilds>>

\* A popup put on a monitor: its width by that scale; a height it has is kept.
Placed(p, m, scale) ==
  [p EXCEPT !.at = m, !.width = scale, !.height = IF @ = 0 THEN scale ELSE @]

\* Placed, shown, and placed again by the scale of the monitor it is now on.
ShownAt(m, scale) ==
  /\ popup' = [Placed(Placed(popup, m, scale), m, dpi[m]) EXCEPT !.shown = TRUE, !.focused = TRUE]
  /\ sinceShown' = 0
Hidden == popup' = [popup EXCEPT !.shown = FALSE, !.focused = FALSE]

\* Mutant: a blur that hides does not keep its time.
BlurForgets ==
  IF popup.focused /\ sinceShown = BlurGrace THEN Hidden /\ UNCHANGED sinceHidden
  ELSE popup' = [popup EXCEPT !.focused = FALSE] /\ UNCHANGED sinceHidden
\* Focused(false): not in the grace time; else the popup hides and the time is kept.
Blur ==
  IF popup.focused /\ sinceShown = BlurGrace THEN Hidden /\ sinceHidden' = 0
  ELSE popup' = [popup EXCEPT !.focused = FALSE] /\ UNCHANGED sinceHidden

ClickElsewhere ==
  /\ ShellReady /\ popup.focused /\ ~press.held /\ Blur
  /\ UNCHANGED <<sinceShown, press, Windows>>

\* The button goes down on the icon, which takes the focus.
PressIcon(m) ==
  /\ ShellReady /\ ~press.held /\ Blur
  /\ press' = [on |-> m, age |-> 0, shown |-> popup.shown, held |-> TRUE]
  /\ UNCHANGED <<sinceShown, Windows>>

\* toggle_tray_popup, when the button goes up.
ReleaseIcon ==
  /\ ShellReady /\ press.held /\ press' = NoPress
  /\ \/ popup.shown /\ Hidden /\ UNCHANGED sinceShown
     \/ ~popup.shown /\ sinceHidden < Debounce /\ UNCHANGED <<popup, sinceShown>>
     \/ ~popup.shown /\ sinceHidden = Debounce /\ ShownAt(press.on, dpi[press.on])
  /\ UNCHANGED <<sinceHidden, Windows>>

\* The Copilot key: a toggle with no debounce, on the primary monitor, first by the
\* scale of the monitor the popup was on. Before the callbacks are set it is lost.
FocusKey ==
  /\ setupDone # "none" /\ Alive /\ ~press.held
  /\ \/ setupDone \in {"hook", "callbacks"} /\ UNCHANGED <<popup, sinceShown>>
     \/ setupDone = "tray" /\ popup.shown /\ Hidden /\ UNCHANGED sinceShown
     \/ setupDone = "tray" /\ ~popup.shown /\ ShownAt("primary", dpi[popup.at])
  /\ UNCHANGED <<sinceHidden, press, Windows>>

\* The page tells its height: the size is set anew by the scale of its monitor.
ResizePopup ==
  /\ ShellReady /\ popup' = [popup EXCEPT !.width = dpi[popup.at], !.height = dpi[popup.at]]
  /\ UNCHANGED <<sinceShown, sinceHidden, press, Windows>>

ShellTick ==
  /\ ShellReady /\ (press.held => press.age < MaxHold)
  /\ sinceShown' = IF sinceShown < BlurGrace THEN sinceShown + 1 ELSE BlurGrace
  /\ sinceHidden' = IF sinceHidden < Debounce THEN sinceHidden + 1 ELSE Debounce
  /\ press' = IF press.held THEN [press EXCEPT !.age = @ + 1] ELSE press
  /\ UNCHANGED <<popup, Windows>>

\* The user changes the scale of a monitor while the popup is hidden.
ChangeScale(m, s) ==
  /\ ShellReady /\ ~popup.shown /\ dpi[m] # s /\ dpi' = [dpi EXCEPT ![m] = s]
  /\ UNCHANGED <<setupDone, popup, sinceShown, sinceHidden, press, mainWindow, rebuilds>>

\* The webview of the main window dies: the window is to be built again.
MainDestroyed ==
  /\ ShellReady /\ mainWindow = "open" /\ rebuilds < MaxRebuilds /\ rebuilds' = rebuilds + 1
  /\ mainWindow' = "rebuilding"
  /\ UNCHANGED <<setupDone, dpi, popup, sinceShown, sinceHidden, press>>

\* open_window_sync, for the rebuild, the menu or a key: an open window is raised.
OpenMain ==
  /\ ShellReady
  /\ \/ mainWindow' = "open"
     \/ mainWindow = "rebuilding" /\ mainWindow' = "destroyed"
  /\ UNCHANGED <<setupDone, dpi, popup, sinceShown, sinceHidden, press, rebuilds>>

\* Quit in the menu, or the main window closed: the markers, the worker, the exit.
QuitApp ==
  /\ ShellReady /\ mainWindow' = "gone"
  /\ UNCHANGED <<setupDone, dpi, popup, sinceShown, sinceHidden, press, rebuilds>>

AppShellNext ==
  \/ SetupHook \/ SetupRest \/ ClickElsewhere \/ ReleaseIcon \/ FocusKey \/ ResizePopup
  \/ ShellTick \/ MainDestroyed \/ OpenMain \/ QuitApp
  \/ \E m \in Monitors : PressIcon(m) \/ \E s \in Scales : ChangeScale(m, s)

AppShellSpec == AppShellInit /\ [][AppShellNext]_shellVars

-----------------------------------------------------------------------------
(* Properties.                                                             *)

\* A click on the icon that began with the popup shown leaves it hidden, though the
\* press hides it first, by the blur, and the release is another event (toggle_tray_popup).
ClickCloses ==
  [][press.held /\ press.shown /\ ~press'.held => ~popup'.shown]_shellVars
==================================================================================
