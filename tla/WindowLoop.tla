------------------------------ MODULE WindowLoop -----------------------------
(***************************************************************************)
(* The windows of an entity, from their binding to handlers until          *)
(* RunWindowTask::execute() has shown each in turn: show() runs a message  *)
(* loop that serves every window of the thread and ends with the thread's  *)
(* quit message, whichever window posted it.                               *)
(*                                                                         *)
(* And what windowProc() makes of the messages of the windows, and what    *)
(* gets through the dispatcher of a window to its handlers: the mouse      *)
(* coming and going, buttons, characters that arrive as UTF-16 code units, *)
(* and the overlay that F3 switches on and off.                            *)
(*                                                                         *)
(* Windows' part is modelled by what the code uses of it: it reports once  *)
(* that the mouse has left, and only if asked to, and sends a button to    *)
(* the window under the mouse.  Messages that only pass through (wheel,    *)
(* focus, keys) are left out.                                              *)
(***************************************************************************)
EXTENDS Integers, Sequences, SequencesExt, FiniteSets

CONSTANTS
    Windows,
    MaxBinds,         \* bound of the model: calls of bindWindowEventHandler()
    Panes, NoPane,    \* the windows of the thread; none of them
    Handlers,
    Listeners,        \* [Panes -> the handlers in their dispatcher]
    MaxUnits          \* bound of the model: code units under way

ASSUME PaneAssumption ==
    NoPane \notin Panes /\ Listeners \in [Panes -> Seq(Handlers)]

VARIABLES
    windows,          \* _entityWindows of the entity, in the order of binding
    handlers,         \* how many handlers each window's dispatcher has
    native,           \* _windowHandle: "none", "hidden", "open", and "gone" once
                      \* the window is destroyed, which leaves the handle set
    at,               \* execute(): index of the window shown, 0 before
    came,             \* what execute() returned, "" until then
    quit,             \* the quit message of the thread is posted
    label,            \* _fpsLabelHandle: "none", and if the window shows
    visible,          \* _overlayVisible
    tracking,         \* _isMouseTracking
    armed,            \* Windows will report that the mouse leaves
    leaving,          \* WM_MOUSELEAVE is posted
    under,            \* the window under the mouse
    button,           \* a mouse button is down
    typed,            \* the code units on their way
    pending,          \* gPendingHighSurrogate
    entered,          \* history: onMouseEnter less onMouseLeave of each handler
    holding,          \* history: handlers that heard the button go down last
    elsewhere,        \* history: those that could not hear it go up
    before,           \* history: the unit decoded last
    torn              \* history: halves joined that did not follow each other

showVars == <<windows, handlers, native, at, came, quit>>

ShowInit ==
    /\ windows = <<>> /\ handlers = [w \in Windows |-> 0]
    /\ native = [w \in Windows |-> "none"]
    /\ at = 0 /\ came = "" /\ quit = FALSE

(* PlatformService::bindWindowEventHandler() binds the window to the       *)
(* entity again for each handler; the dispatcher is made only once.        *)
BindWindowEventHandler(w) ==
    /\ at = 0 /\ came = "" /\ Len(windows) < MaxBinds
    /\ windows' = Append(windows, w)
    /\ handlers' = [handlers EXCEPT ![w] = @ + 1]
    /\ UNCHANGED <<native, at, came, quit>>

(* createComponents(): a window without any handler                        *)
CreateComponents(w) ==
    /\ at = 0 /\ came = "" /\ Len(windows) < MaxBinds /\ w \notin ToSet(windows)
    /\ windows' = Append(windows, w)
    /\ UNCHANGED <<handlers, native, at, came, quit>>

(* nativeHandle(), for the surface of the renderer                         *)
Created(w) == IF native[w] = "none" THEN [native EXCEPT ![w] = "hidden"] ELSE native
NativeHandle ==
    /\ at = 0 /\ came = "" /\ windows # <<>>
    /\ native' = Created(windows[1])
    /\ UNCHANGED <<windows, handlers, at, came, quit>>

(* destroyComponents(): each window goes with its dispatcher, however      *)
(* often it is listed.                                                     *)
DestroyComponents ==
    /\ at = 0 /\ came = ""
    /\ windows' = <<>>
    /\ handlers' = [w \in Windows |-> IF w \in ToSet(windows) THEN 0 ELSE handlers[w]]
    /\ native' = [w \in Windows |-> IF w \in ToSet(windows) THEN "none" ELSE native[w]]
    /\ UNCHANGED <<at, came, quit>>

-----------------------------------------------------------------------------
(* execute() gives up where there is no window, or one without a handler.  *)
GoOnTo(n) ==
    IF n > Len(windows)
    THEN came' = (IF n = 1 THEN "error" ELSE "success") /\ UNCHANGED at
    ELSE IF handlers[windows[n]] = 0
    THEN came' = "error" /\ UNCHANGED at
    ELSE at' = n /\ UNCHANGED came

Execute ==
    /\ at = 0 /\ came = ""
    /\ GoOnTo(1)
    /\ UNCHANGED <<windows, handlers, native, quit>>

Running == at > 0 /\ came = ""

(* ShowWindow() does nothing with the handle of a window that is gone.     *)
Show ==
    /\ Running /\ native[windows[at]] \in {"none", "hidden"}
    /\ native' = [native EXCEPT ![windows[at]] = "open"]
    /\ UNCHANGED <<windows, handlers, at, came, quit>>

(* Mutant of UserCloses: only the window bound last ends the loop.         *)
ClosesLast(w) ==
    /\ Running /\ native[w] = "open"
    /\ native' = [native EXCEPT ![w] = "gone"]
    /\ quit' = (w = windows[Len(windows)])
    /\ UNCHANGED <<windows, handlers, at, came>>

(* WM_DESTROY, for whichever window of the thread                          *)
UserCloses(w) ==
    /\ Running /\ native[w] = "open"
    /\ native' = [native EXCEPT ![w] = "gone"]
    /\ quit' = TRUE
    /\ UNCHANGED <<windows, handlers, at, came>>

(* The loop takes the quit message; execute() goes on to the next window.  *)
LeaveLoop ==
    /\ Running /\ native[windows[at]] \in {"open", "gone"} /\ quit
    /\ quit' = FALSE
    /\ GoOnTo(at + 1)
    /\ UNCHANGED <<windows, handlers, native>>

ShowNext ==
    \/ \E w \in Windows : BindWindowEventHandler(w) \/ CreateComponents(w) \/ UserCloses(w)
    \/ NativeHandle \/ DestroyComponents \/ Execute \/ Show \/ LeaveLoop

(* The main thread goes on, and the user closes every window some day.     *)
ShowFairness ==
    /\ WF_showVars(Execute) /\ WF_showVars(Show) /\ WF_showVars(LeaveLoop)
    /\ \A w \in Windows : WF_showVars(UserCloses(w))

-----------------------------------------------------------------------------
(* Once the user has closed every window execute() comes back, after it    *)
(* has shown each: if no window is listed twice, as one with a second      *)
(* handler is, for then it is shown again and can never be closed.         *)
ExecuteReturns ==
    \/ <>[](came # "" /\ \A w \in ToSet(windows) : came = "success" => native[w] = "gone")
    \/ <>[](Cardinality(ToSet(windows)) < Len(windows))

ShowSpec == ShowInit /\ [][ShowNext]_showVars /\ ShowFairness

-----------------------------------------------------------------------------
(* The messages.                                                           *)

overlayVars == <<label, visible>>
mouseVars == <<tracking, armed, leaving, under, button, entered, holding, elsewhere>>
textVars == <<typed, pending, before, torn>>
paneVars == <<overlayVars, mouseVars, textVars>>

PaneInit ==
    /\ label = [p \in Panes |-> "none"] /\ visible = Panes
    /\ tracking = {} /\ armed = {} /\ leaving = {} /\ under = NoPane /\ button = FALSE
    /\ typed = <<>> /\ pending = FALSE
    /\ entered = [h \in Handlers |-> 0] /\ holding = {} /\ elsewhere = {}
    /\ before = "none" /\ torn = FALSE

There(p) == label[p] # "none"
On(p, h) == {i \in DOMAIN Listeners[p] : Listeners[p][i] = h}
Hearing(p) == {h \in Handlers : On(p, h) # {}}

(* Mutant of Dispatched: only the first handler hears of it.               *)
DispatchedToFirst(heard, p, d) ==
    [heard EXCEPT ![Listeners[p][1]] = @ + d]

(* WindowEventDispatcher: every handler, as often as it was added          *)
Dispatched(heard, p, d) ==
    [h \in Handlers |-> heard[h] + d * Cardinality(On(p, h))]

-----------------------------------------------------------------------------
(* The overlay: made with the window, and shown anew whenever it is put in *)
(* its place.                                                              *)
UpdateFpsOverlayPosition(p) == label' = [label EXCEPT ![p] = "shown"]

CreateFpsOverlay(p) ==
    /\ ~There(p) /\ label' = [label EXCEPT ![p] = "shown"]
    /\ UNCHANGED <<visible, mouseVars, textVars>>

(* The loop's frame, and that of WM_PAINT                                  *)
RunFrame(p) ==
    /\ There(p) /\ UpdateFpsOverlayPosition(p)
    /\ UNCHANGED <<visible, mouseVars, textVars>>

(* WM_SIZE, WM_MOVE                                                        *)
SizeOrMove(p) ==
    /\ There(p) /\ UpdateFpsOverlayPosition(p)
    /\ UNCHANGED <<visible, mouseVars, textVars>>

(* F3, unless it repeats: the handlers do not hear of it.                  *)
ToggleOverlayVisibility(p) ==
    /\ There(p)
    /\ visible' = IF p \in visible THEN visible \ {p} ELSE visible \cup {p}
    /\ label' = [label EXCEPT ![p] = IF p \in visible' THEN "shown" ELSE "hidden"]
    /\ UNCHANGED <<mouseVars, textVars>>

-----------------------------------------------------------------------------
(* The mouse goes from one window to another, or to none of the thread's.  *)
MouseGoes(to) ==
    /\ to # under /\ under' = to
    /\ leaving' = leaving \cup ({under} \cap armed)
    /\ armed' = armed \ {under}
    /\ UNCHANGED <<overlayVars, tracking, button, entered, holding, elsewhere, textVars>>

(* WM_MOUSEMOVE with ensureMouseLeaveTracking(): TrackMouseEvent() may     *)
(* fail, and is tried again at the next move.  What is posted comes first. *)
MouseMove(p, fails) ==
    /\ under = p /\ p \notin leaving
    /\ IF p \in tracking \/ fails
       THEN UNCHANGED <<tracking, armed, entered>>
       ELSE /\ tracking' = tracking \cup {p} /\ armed' = armed \cup {p}
            /\ entered' = Dispatched(entered, p, 1)
    /\ UNCHANGED <<overlayVars, leaving, under, button, holding, elsewhere, textVars>>

MouseLeave(p) ==
    /\ p \in leaving /\ leaving' = leaving \ {p}
    /\ tracking' = tracking \ {p}
    /\ entered' = Dispatched(entered, p, -1)
    /\ UNCHANGED <<overlayVars, armed, under, button, holding, elsewhere, textVars>>

(* dispatchMouseButtonDown(), dispatchMouseButtonUp(): the window does not *)
(* capture the mouse, so a button let go elsewhere is not heard of.        *)
HearingMouse == IF under = NoPane THEN {} ELSE Hearing(under)

MouseButtonDown ==
    /\ ~button /\ button' = TRUE
    /\ holding' = holding \cup HearingMouse
    /\ elsewhere' = elsewhere \ HearingMouse
    /\ UNCHANGED <<overlayVars, tracking, armed, leaving, under, entered, textVars>>

MouseButtonUp ==
    /\ button /\ button' = FALSE
    /\ holding' = holding \ HearingMouse
    /\ elsewhere' = elsewhere \cup (holding \ HearingMouse)
    /\ UNCHANGED <<overlayVars, tracking, armed, leaving, under, entered, textVars>>

-----------------------------------------------------------------------------
(* The keyboard posts a character as one unit or two; other programs may   *)
(* post half a pair.                                                       *)
Type(units) ==
    /\ Len(typed) + Len(units) <= MaxUnits
    /\ typed' = typed \o units
    /\ UNCHANGED <<overlayVars, mouseVars, pending, before, torn>>

(* Mutant of Remembers: a whole character does not clear it.               *)
RemembersOn(unit) == unit = "high" \/ (unit = "whole" /\ pending)

(* decodeUtf16CodeUnit(): what it leaves in gPendingHighSurrogate          *)
Remembers(unit) == unit = "high"

(* WM_CHAR, WM_DEADCHAR and their SYS twins: all decode with one pending   *)
(* half, whichever window they are for.                                    *)
DecodeUtf16CodeUnit ==
    LET unit == Head(typed) IN
    /\ typed # <<>> /\ typed' = Tail(typed)
    /\ pending' = Remembers(unit)
    /\ torn' = (torn \/ (unit = "low" /\ pending /\ before # "high"))
    /\ before' = unit
    /\ UNCHANGED <<overlayVars, mouseVars>>

MouseNext ==
    \/ \E p \in Panes :
          \/ CreateFpsOverlay(p) \/ RunFrame(p) \/ SizeOrMove(p) \/ ToggleOverlayVisibility(p)
          \/ \E fails \in BOOLEAN : MouseMove(p, fails)
          \/ MouseLeave(p)
    \/ \E to \in {p \in Panes : There(p)} \cup {NoPane} : MouseGoes(to)
    \/ MouseButtonDown \/ MouseButtonUp

TextNext ==
    \/ \E units \in {<<"whole">>, <<"high", "low">>, <<"high">>, <<"low">>} : Type(units)
    \/ DecodeUtf16CodeUnit

PaneNext == MouseNext \/ TextNext

-----------------------------------------------------------------------------
(* The places of a handler in the dispatchers of some windows              *)
Inside(panes, h) == UNION {{p} \X On(p, h) : p \in panes}

(* However the mouse wanders between the windows, and although the request *)
(* to be told of its leaving may fail, each handler hears onMouseEnter and *)
(* onMouseLeave in turn for each time it was added, and has heard the last *)
(* of them or will: it does not take a mouse for inside that has gone      *)
(* (ensureMouseLeaveTracking, WM_MOUSELEAVE, WindowEventDispatcher).  It   *)
(* takes a button for held that is not only if the button was let go       *)
(* where it does not listen.                                               *)
MouseIsFollowed ==
    /\ \A h \in Handlers : entered[h] = Cardinality(Inside(tracking, h))
    /\ \A p \in tracking : p \in leaving \/ (p \in armed /\ p = under)
    /\ ~button => holding \subseteq elsewhere

(* A character outside the basic plane is put together only from halves    *)
(* that came one right after the other (decodeUtf16CodeUnit).              *)
CharactersStayWhole == ~torn

MessagesAreHeard == MouseIsFollowed /\ CharactersStayWhole

(* Does not hold: what F3 hides the next frame shows again.                *)
OverlayIsAsToggled == \A p \in Panes : label[p] = "hidden" \/ p \in visible \/ ~There(p)

PaneSpec == PaneInit /\ [][PaneNext]_paneVars
=============================================================================
