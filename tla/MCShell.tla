------------------------------ MODULE MCShell ------------------------------
(***************************************************************************)
(* What the window example puts on the screen and takes from the user, in  *)
(* one run: the frame loop with the swapchain and the GPU, the text editor *)
(* with the layout of its text, the input handlers, the loop that shows    *)
(* the windows and their messages, and the program as a whole with the     *)
(* scene it sets up.                                                       *)
(* Each module leaves open what it takes from the others, so one of them   *)
(* moves in each behaviour.                                                *)
(***************************************************************************)
EXTENDS FrameLoop, TextEditor, RunWindowInput, WindowLoop, RenderScene, TLC

CONSTANTS
    Parts,              \* the components that move in this run
    i1, i2, large, small, s1, cube, ball, editor, w, main, tool,
    h1, h2

VARIABLE part

shellVars == <<frameVars, editorVars, inputVars, showVars, sceneVars, paneVars,
               part>>

MCInputs == {<<"a">>, <<"n">>, <<"L", "C">>}
MCFirstText == <<"a", "n">>
MCListeners == (main :> <<h1, h2>>) @@ (tool :> <<h1>>)

Init ==
    /\ part \in Parts
    /\ FrameInit /\ EditorInit /\ InputInit /\ ShowInit /\ SceneInit
    /\ PaneInit
    /\ part # "frames" => surface = large

Next ==
    /\ part' = part
    /\ \/ /\ part = "frames" /\ FrameNext
          /\ UNCHANGED <<editorVars, inputVars, showVars, sceneVars, paneVars>>
       \/ /\ part = "editor" /\ EditorNext
          /\ UNCHANGED <<frameVars, inputVars, showVars, sceneVars, paneVars>>
       \/ /\ part = "input" /\ InputNext
          /\ UNCHANGED <<frameVars, editorVars, showVars, sceneVars, paneVars>>
       \/ /\ part = "windows" /\ ShowNext
          /\ UNCHANGED <<frameVars, editorVars, inputVars, sceneVars, paneVars>>
       \/ /\ part = "scene" /\ SceneNext
          /\ UNCHANGED <<frameVars, editorVars, inputVars, showVars, paneVars>>
       \/ /\ part = "messages" /\ MouseNext
          /\ UNCHANGED <<frameVars, editorVars, inputVars, showVars, sceneVars>>
       \/ /\ part = "characters" /\ TextNext
          /\ UNCHANGED <<frameVars, editorVars, inputVars, showVars, sceneVars>>

Spec ==
    /\ Init /\ [][Next]_shellVars
    /\ part = "frames" => FrameFairness
    /\ part = "windows" => ShowFairness

-----------------------------------------------------------------------------
(* What a frame draws is what there is: of the glyphs and pipelines, and   *)
(* of the shapes and images (RenderSystem::update, VulkanTextureStore).    *)
FramesAndSceneAreSound == FramesAreSound /\ SceneIsSound

(* What the user does arrives: the mouse and the characters at the         *)
(* handlers, and what they keep of it follows from focus and keys          *)
(* (windowProc, RunWindowTask::setFocusedEntity, onKeyDown, onKeyUp).      *)
InputArrives == MessagesAreHeard /\ InputFollowsFocus

(* Every edit gets to the screen as long as the driver does not fail and   *)
(* the window does not stay minimised (RenderSystem::update, drawFrame);   *)
(* and execute() comes back once the user has closed every window, unless  *)
(* one is listed twice (RunWindowTask::execute, WinAPIComponent::show).    *)
EditsAndWindowsGetThrough ==
    /\ part = "frames" => EditsReachTheScreen
    /\ part = "windows" => ExecuteReturns
=============================================================================
