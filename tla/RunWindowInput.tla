--------------------------- MODULE RunWindowInput ---------------------------
(***************************************************************************)
(* The input handlers of RunWindowTask: which entity has the focus, what   *)
(* is dragged, and whether a key moves the camera or edits the text.  What *)
(* the camera hears depends on the focus, Ctrl and the object drag at the  *)
(* time of each event, so the press and the release of one key may go      *)
(* different ways.  The text itself is TextEditor's.                       *)
(***************************************************************************)
EXTENDS Integers

CONSTANTS
    Things, Editor, Nothing,     \* entities that can be picked; the editor; none
    MoveKeys                     \* keys with a bit in _movementKeyMask

ASSUME InputAssumption ==
    /\ Editor \notin Things /\ Nothing \notin Things \cup {Editor}
    /\ MoveKeys \cap {"right", "ctrl", "alt", "escape"} = {}

VARIABLES
    focused,          \* _focusedEntity
    enlarged,         \* entities whose scale is 1.08 times their own
    frameShown,       \* TextEditorSystem::_focused
    dragged,          \* _dragEntity while _objectDragActive
    ctrlHeld,         \* _ctrlHeld
    moving,           \* _movementKeyMask, and with it the camera's flags
    cameraDrag,       \* Camera::_dragActive
    pressed,          \* the keys and buttons that are down
    opened,           \* history: move keys pressed last while something had focus
    lost              \* history: released when another window had the keyboard

focusVars == <<focused, enlarged, frameShown, dragged>>
inputVars == <<focusVars, ctrlHeld, moving, cameraDrag, pressed, opened, lost>>

Entities == Things \cup {Editor}

InputInit ==
    /\ focused = Nothing /\ enlarged = {} /\ frameShown = FALSE /\ dragged = Nothing
    /\ ctrlHeld = FALSE /\ moving = {} /\ cameraDrag = FALSE
    /\ pressed = {} /\ opened = {} /\ lost = {}

(* The camera may be moved: nothing has the focus, or Ctrl or a drag       *)
(* unlocks it.                                                             *)
Unlocked(ctrl) == focused = Nothing \/ ctrl \/ dragged # Nothing

(* isEditorEntity() for what is picked, and updateFocusFrameVisual(), which *)
(* puts the four bars of the frame around the panel or out of sight        *)
Framed(e) == e = Editor

(* setFocusedEntity()                                                      *)
SetFocusedEntity(e) ==
    IF e = focused THEN UNCHANGED focusVars
    ELSE /\ focused' = e
         /\ enlarged' = (enlarged \ {focused}) \cup ({e} \cap Things)
         /\ frameShown' = Framed(e)
         /\ dragged' = Nothing

(* Mutant of LeftDown: the camera is not stopped.                          *)
LeftDownMoving(picked) ==
    /\ IF ctrlHeld THEN UNCHANGED focusVars ELSE SetFocusedEntity(picked)
    /\ UNCHANGED <<moving, ctrlHeld, cameraDrag, pressed, opened, lost>>

(* onMouseButtonDown(), left: with Ctrl the focus stays where it is; an    *)
(* entity that is clicked stops the camera, whoever has the focus now.     *)
LeftDown(picked) ==
    /\ IF ctrlHeld THEN UNCHANGED <<focusVars, moving>>
       ELSE /\ SetFocusedEntity(picked)
            /\ moving' = IF picked # Nothing THEN {} ELSE moving
    /\ UNCHANGED <<ctrlHeld, cameraDrag, pressed, opened, lost>>

RightDown ==
    /\ "right" \notin pressed /\ pressed' = pressed \cup {"right"}
    /\ cameraDrag' = (cameraDrag \/ Unlocked(ctrlHeld))
    /\ UNCHANGED <<focusVars, ctrlHeld, moving, opened, lost>>

RightUp ==
    /\ "right" \in pressed /\ pressed' = pressed \ {"right"}
    /\ cameraDrag' = (cameraDrag /\ ~Unlocked(ctrlHeld))
    /\ UNCHANGED <<focusVars, ctrlHeld, moving, opened, lost>>

(* onKeyDown(): Alt begins or ends the drag of what has the focus, unless  *)
(* the ray misses; a move key goes to the camera if it is unlocked; Escape *)
(* gives up the focus.  A held key repeats.                                *)
Press(k) == pressed' = pressed \cup {k} /\ lost' = lost \ {k}

ControlDown ==
    /\ Press("ctrl") /\ ctrlHeld' = TRUE
    /\ UNCHANGED <<focusVars, moving, cameraDrag, opened>>

AltDown ==
    /\ "alt" \notin pressed /\ Press("alt")
    /\ \/ dragged # Nothing /\ dragged' = Nothing
       \/ dragged = Nothing /\ dragged' \in {focused, Nothing}
    /\ UNCHANGED <<focused, enlarged, frameShown, ctrlHeld, moving, cameraDrag, opened>>

MoveKeyDown(k) ==
    /\ Press(k)
    /\ moving' = IF Unlocked(ctrlHeld) THEN moving \cup {k} ELSE moving
    /\ opened' = IF focused # Nothing THEN opened \cup {k} ELSE opened \ {k}
    /\ UNCHANGED <<focusVars, ctrlHeld, cameraDrag>>

EscapeDown ==
    /\ Press("escape")
    /\ SetFocusedEntity(Nothing)
    /\ UNCHANGED <<ctrlHeld, moving, cameraDrag, opened>>

(* onKeyUp()                                                               *)
KeyUp(k) ==
    /\ k \in pressed \ {"right"} /\ pressed' = pressed \ {k}
    /\ ctrlHeld' = (ctrlHeld /\ k # "ctrl")
    /\ moving' = IF Unlocked(ctrlHeld') THEN moving \ {k} ELSE moving
    /\ UNCHANGED <<focusVars, cameraDrag, opened, lost>>

(* The window loses the keyboard: nobody tells the task, and what is       *)
(* released from now on is released elsewhere.                             *)
LoseKeyboard ==
    /\ pressed # {} /\ pressed' = {}
    /\ lost' = lost \cup pressed
    /\ UNCHANGED <<focusVars, ctrlHeld, moving, cameraDrag, opened>>

InputNext ==
    \/ \E e \in Entities \cup {Nothing} : LeftDown(e)
    \/ RightDown \/ RightUp
    \/ ControlDown \/ AltDown \/ EscapeDown
    \/ \E k \in MoveKeys : MoveKeyDown(k)
    \/ \E k \in pressed : KeyUp(k)
    \/ LoseKeyboard

-----------------------------------------------------------------------------
(* To give an entity the focus does not leave the camera moving, although  *)
(* its keys are not heard any more: a key that moves the camera is down,   *)
(* or was pressed through Ctrl or a drag while an entity had the focus, or *)
(* was released in another window.  So, without these, what is typed into  *)
(* the editor is not thrown away for a key that nobody holds (onChar).     *)
NoKeyIsStuck ==
    /\ moving \subseteq pressed \cup opened \cup lost
    /\ ctrlHeld => "ctrl" \in pressed \cup lost

(* Through clicks, Escape and drags in any order an entity is enlarged, or *)
(* the editor framed, exactly while it has the focus, and only what has    *)
(* the focus is dragged (setFocusedEntity).                                *)
FocusIsShown ==
    /\ enlarged = {focused} \cap Things
    /\ frameShown = (focused = Editor)
    /\ dragged \in {focused, Nothing}

(* What the handlers keep of the user's doings follows from the focus and  *)
(* the keys that are down (setFocusedEntity, onKeyDown, onKeyUp).          *)
InputFollowsFocus == NoKeyIsStuck /\ FocusIsShown

InputSpec == InputInit /\ [][InputNext]_inputVars
=============================================================================
