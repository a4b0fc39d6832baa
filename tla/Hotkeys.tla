-------------------------------- MODULE Hotkeys --------------------------------
(***************************************************************************)
(* The hotkeys of the app (hw/hotkeys/mod.rs): the hook thread with its    *)
(* low-level keyboard hook and its message loop, the remapping of the      *)
(* Copilot key, the threads that release its target, the WMI listener, and *)
(* the detect mode in which the user finds out a key's code.               *)
(***************************************************************************)
EXTENDS Naturals

CONSTANTS HotKeys,      \* the keys the user touches
          ProbedKeys,   \* those pressed while detect mode awaits a key
          MaxPresses,   \* bound on key-downs, repeats included
          MaxDetects,   \* bound on detect modes, and so on their threads
          MaxRemaps     \* bound on threads of start_hotkey_remap

ASSUME HotkeysAssumption ==
  /\ HotKeys \subseteq {"copilot", "f23", "ai", "plain"} /\ ProbedKeys \subseteq HotKeys
  /\ MaxPresses \in Nat /\ MaxDetects \in Nat /\ MaxRemaps \in Nat

CopilotKeys == {"copilot", "f23"}      \* VK_COPILOT, and VK_F23 sent in its place
XiaomiKeys == {"copilot", "ai"}        \* is_xiaomi_key
Registered == {"copilot", "f23", "ai"} \* RegisterHotKey ids 101 to 105
NoKey == "none"

VARIABLES
  hookThread, \* run, or stuck on REMAP_STATE, which it holds
  llHook,     \* HOOK_HANDLE: the low-level hook is installed
  inHook,     \* the key-down the hook has captured and not yet judged
  posted,     \* WM_HOTKEY messages, by key
  remap,      \* the Copilot binding is RemapToKey; otherwise it is disabled
  source,     \* REMAP_SOURCE_VK
  targetDown, \* the injected key is down
  releasers,  \* threads of start_hotkey_remap: none, look, held, clear, up
  detect,     \* REMAP_STATE: idle, await (no key yet), captured
  detectors,  \* the number of detect threads
  listener,   \* the WMI listener: connect, wait (back-off), subscribed, ended
  keysDown, presses, detects

hotkeysVars == <<hookThread, llHook, inHook, posted, remap, source, targetDown, releasers,
                 detect, detectors, listener, keysDown, presses, detects>>

HotkeysTypeOK ==
  /\ hookThread \in {"run", "stuck"} /\ llHook \in BOOLEAN
  /\ inHook \in HotKeys \cup {NoKey} /\ posted \subseteq Registered
  /\ remap \in BOOLEAN /\ targetDown \in BOOLEAN
  \* start_hotkey_remap writes VK_COPILOT for any of the Copilot key's codes.
  /\ source \in (HotKeys \cap CopilotKeys) \cup {"copilot", NoKey}
  /\ releasers \in [1..MaxRemaps -> {"none", "look", "held", "clear", "up"}]
  /\ detect \in {"idle", "await", "captured"} /\ detectors \in 0..MaxDetects
  /\ listener \in {"connect", "wait", "subscribed", "ended"}
  /\ keysDown \subseteq HotKeys /\ presses \in 0..MaxPresses /\ detects \in 0..MaxDetects

\* start_hook, hook_thread_main: SetWindowsHookEx may fail, the loop runs anyway.
HotkeysInit ==
  /\ hookThread = "run" /\ llHook \in BOOLEAN /\ inHook = NoKey /\ posted = {}
  /\ remap = TRUE /\ source = NoKey /\ targetDown = FALSE
  /\ releasers = [r \in 1..MaxRemaps |-> "none"]
  /\ detect = "idle" /\ detectors = 0 /\ listener = "connect"
  /\ keysDown = {} /\ presses = 0 /\ detects = 0

HookRuns == hookThread = "run" /\ inHook = NoKey

\* REMAP_STATE is free: every other critical section on it is a single step.
StateIsFree == hookThread # "stuck"

\* capture_key: the first key counts.
Captured == IF detect = "await" THEN "captured" ELSE detect

\* Windows turns a key-down nobody swallowed into WM_HOTKEY, without repeats.
Post(k) == posted' = posted \cup ({k} \cap (Registered \ keysDown))

-----------------------------------------------------------------------------
(* The low-level hook.                                                     *)

\* keyboard_hook_proc, first part: a key-down, or its repeat, is captured. With no
\* hook, or one that does not answer in time, the key goes straight on.
KeyDown(k) ==
  /\ presses < MaxPresses /\ presses' = presses + 1
  /\ (detect # "idle" => k \in ProbedKeys)
  /\ keysDown' = keysDown \cup {k}
  /\ IF llHook /\ StateIsFree
     THEN /\ HookRuns /\ inHook' = k /\ detect' = Captured
          /\ UNCHANGED posted
     ELSE Post(k) /\ UNCHANGED <<inHook, detect>>
  /\ UNCHANGED <<hookThread, llHook, remap, source, targetDown, releasers, detectors,
                 listener, detects>>

\* Second part, under a new lock: pass it on in detect mode, remap it, swallow it,
\* or pass it on.
HookJudges ==
  /\ inHook # NoKey
  /\ inHook' = NoKey
  /\ \/ /\ detect # "idle"
        /\ posted' = posted \cup ({inHook} \cap Registered)
        /\ UNCHANGED <<source, targetDown>>
     \/ /\ detect = "idle" /\ inHook \in CopilotKeys /\ remap
        /\ source' = inHook /\ targetDown' = TRUE
        /\ UNCHANGED posted
     \/ /\ detect = "idle" /\ ~(inHook \in CopilotKeys /\ remap)
        /\ posted' = posted \cup ({inHook} \cap (Registered \ XiaomiKeys))
        /\ UNCHANGED <<source, targetDown>>
  /\ UNCHANGED <<hookThread, llHook, remap, releasers, detect, detectors, listener,
                 keysDown, presses, detects>>

\* Mutant: the key-up asks the binding of the moment.
KeyUpAsksBinding(k) ==
  /\ k \in keysDown /\ keysDown' = keysDown \ {k}
  /\ (llHook /\ StateIsFree => HookRuns)
  /\ IF llHook /\ StateIsFree /\ source = k /\ remap
     THEN source' = NoKey /\ targetDown' = FALSE
     ELSE UNCHANGED <<source, targetDown>>
  /\ UNCHANGED <<hookThread, llHook, inHook, posted, remap, releasers, detect, detectors,
                 listener, presses, detects>>

\* The key-up of the source releases the target, whatever the binding is by now.
KeyUp(k) ==
  /\ k \in keysDown /\ keysDown' = keysDown \ {k}
  /\ (llHook /\ StateIsFree => HookRuns)
  /\ IF llHook /\ StateIsFree /\ source = k
     THEN source' = NoKey /\ targetDown' = FALSE
     ELSE UNCHANGED <<source, targetDown>>
  /\ UNCHANGED <<hookThread, llHook, inHook, posted, remap, releasers, detect, detectors,
                 listener, presses, detects>>

-----------------------------------------------------------------------------
(* The message loop and the threads it starts.                             *)

\* handle_hotkey_message in detect mode: it holds the lock when it calls
\* capture_key, which takes it.
HotkeyWhileDetecting(k) ==
  /\ HookRuns /\ k \in posted /\ detect # "idle"
  /\ posted' = posted \ {k}
  /\ hookThread' = "stuck"
  /\ UNCHANGED <<llHook, inHook, remap, source, targetDown, releasers, detect, detectors,
                 listener, keysDown, presses, detects>>

\* dispatch_action runs in a thread of its own: it opens the window, a page or an
\* app, or changes a mode, and injects nothing for a RemapToKey binding.
DispatchAction == UNCHANGED <<source, targetDown, releasers>>

\* ... and otherwise: start_hotkey_remap for a Copilot key, dispatch_action for another.
HotkeyMessage(k) ==
  /\ HookRuns /\ k \in posted /\ detect = "idle"
  /\ posted' = posted \ {k}
  /\ IF k \in CopilotKeys /\ remap
     THEN \E r \in 1..MaxRemaps :
            /\ releasers[r] = "none" /\ releasers' = [releasers EXCEPT ![r] = "look"]
            /\ source' = "copilot" /\ targetDown' = TRUE
     ELSE DispatchAction
  /\ UNCHANGED <<hookThread, llHook, inHook, remap, detect, detectors, listener, keysDown,
                 presses, detects>>

\* WM_INPUT comes to the same message loop for every key-down, swallowed or not: it
\* is captured in detect mode, and its action is dispatched besides.
RawInput(k) ==
  /\ HookRuns /\ k \in keysDown /\ detect = "await"
  /\ detect' = Captured
  /\ DispatchAction
  /\ UNCHANGED <<hookThread, llHook, inHook, posted, remap, detectors, listener, keysDown,
                 presses, detects>>

\* The thread polls the key: it waits to see it, waits for its end, and gives up
\* after 40 ms without a press and after 5 s.
SourceIsDown == keysDown \cap CopilotKeys # {}
PollSource(r) ==
  /\ \/ /\ releasers[r] = "look" /\ SourceIsDown
        /\ releasers' = [releasers EXCEPT ![r] = "held"]
     \/ /\ releasers[r] \in {"look", "held"}
        /\ releasers' = [releasers EXCEPT ![r] = "clear"]
  /\ UNCHANGED <<hookThread, llHook, inHook, posted, remap, source, targetDown, detect,
                 detectors, listener, keysDown, presses, detects>>

\* compare_exchange on the source decides who releases the target.
ClearSource(r) ==
  /\ releasers[r] = "clear"
  /\ IF source = "copilot"
     THEN source' = NoKey /\ releasers' = [releasers EXCEPT ![r] = "up"]
     ELSE releasers' = [releasers EXCEPT ![r] = "none"] /\ UNCHANGED source
  /\ UNCHANGED <<hookThread, llHook, inHook, posted, remap, targetDown, detect, detectors,
                 listener, keysDown, presses, detects>>

ReleaseTarget(r) ==
  /\ releasers[r] = "up"
  /\ releasers' = [releasers EXCEPT ![r] = "none"]
  /\ targetDown' = FALSE
  /\ UNCHANGED <<hookThread, llHook, inHook, posted, remap, source, detect, detectors,
                 listener, keysDown, presses, detects>>

-----------------------------------------------------------------------------
(* Detect mode and the WMI listener.                                       *)

StartDetect ==
  /\ StateIsFree /\ detects < MaxDetects
  /\ detects' = detects + 1
  /\ detect' = "await" /\ detectors' = detectors + 1
  /\ UNCHANGED <<hookThread, llHook, inHook, posted, remap, source, targetDown, releasers,
                 listener, keysDown, presses>>

\* A detect thread ends within 100 ms of a capture, or after 10 s: also the detect
\* mode that another thread was started for.
EndDetect ==
  /\ StateIsFree /\ detectors > 0
  /\ detectors' = detectors - 1
  /\ detect' = "idle"
  /\ UNCHANGED <<hookThread, llHook, inHook, posted, remap, source, targetDown, releasers,
                 listener, keysDown, presses, detects>>

\* save_hotkeys: update_in_memory.
SetBinding ==
  /\ remap' = ~remap
  /\ UNCHANGED <<hookThread, llHook, inHook, posted, source, targetDown, releasers, detect,
                 detectors, listener, keysDown, presses, detects>>

\* run_wmi_listener_with_reconnect: only a failure to connect or to subscribe is
\* tried again; an iterator that ends is a normal end.
Listen ==
  /\ \/ listener = "connect" /\ listener' \in {"subscribed", "wait"}
     \/ listener = "wait" /\ listener' = "connect"
     \/ listener = "subscribed" /\ listener' = "ended"
  /\ UNCHANGED <<hookThread, llHook, inHook, posted, remap, source, targetDown, releasers,
                 detect, detectors, keysDown, presses, detects>>

\* handle_hid_wmi_event: an active event is captured in detect mode and dispatched
\* otherwise.
WmiEvent ==
  /\ listener = "subscribed" /\ StateIsFree /\ detect = "await"
  /\ detect' = Captured
  /\ UNCHANGED <<hookThread, llHook, inHook, posted, remap, source, targetDown, releasers,
                 detectors, listener, keysDown, presses, detects>>

HookSteps == HookJudges \/ \E k \in Registered : HotkeyWhileDetecting(k) \/ HotkeyMessage(k)
ReleaserSteps == \E r \in 1..MaxRemaps : PollSource(r) \/ ClearSource(r) \/ ReleaseTarget(r)

HotkeysNext ==
  \/ HookSteps \/ ReleaserSteps \/ StartDetect \/ EndDetect \/ SetBinding \/ Listen \/ WmiEvent
  \/ \E k \in HotKeys : KeyDown(k) \/ KeyUp(k) \/ RawInput(k)

HotkeysSpec == HotkeysInit /\ [][HotkeysNext]_hotkeysVars

\* The hook thread and the detect threads run.
FairHotkeysSpec == HotkeysSpec /\ WF_hotkeysVars(HookSteps) /\ WF_hotkeysVars(EndDetect)

-----------------------------------------------------------------------------
(* Properties.                                                             *)

\* Once every key is up and every key-down has been dealt with, the injected key is
\* up: by whichever of the hook and the releaser threads came first, and whatever
\* the binding has become (keyboard_hook_proc, start_hotkey_remap).
TargetIsReleased ==
  keysDown = {} /\ inHook = NoKey /\ posted = {} /\ hookThread = "run"
    /\ (\A r \in 1..MaxRemaps : releasers[r] = "none") => ~targetDown

\* Detect mode ends within its 10 seconds (start_detect_mode).
DetectModeEnds == detect # "idle" ~> detect = "idle"
===============================================================================
