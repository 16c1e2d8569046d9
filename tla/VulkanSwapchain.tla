--------------------------- MODULE VulkanSwapchain ---------------------------
(***************************************************************************)
(* VulkanSwapchain and VulkanAPI::drawFrame() on the main thread, against  *)
(* the GPU, which works through its queue at its own pace, and the         *)
(* surface, which changes its size under both.  The driver's calls are     *)
(* modelled by what the code sees of them.                                 *)
(*                                                                         *)
(* A frame in flight owns a fence and an acquire semaphore; an image owns  *)
(* a command buffer and the vertex buffers recorded into it.  The two are  *)
(* paired anew each frame, which is what _imagesInFlight is for.           *)
(***************************************************************************)
EXTENDS Integers, Sequences

CONSTANTS
    Images, NoImage,
    MaxFramesInFlight,   \* kMaxFramesInFlight
    NoFence,
    Sizes, Minimised,    \* the extents of the surface; Minimised is 0 x 0
    MaxFailures,         \* bound of the model: calls of the driver that fail
    MaxChanges           \* bound of the model: changes of the surface

ASSUME SwapchainAssumption ==
    /\ MaxFramesInFlight \in Nat \ {0}
    /\ NoFence \notin 0 .. MaxFramesInFlight - 1
    /\ NoImage \notin Images /\ Minimised \notin Sizes

VARIABLES
    built,               \* how many of the Stages of the swapchain exist
    extent,              \* _swapchainExtent
    generation,          \* _swapchainGeneration
    recreateRequested,   \* _swapchainRecreateRequested
    currentFrame,        \* _currentFrame
    fence,               \* _inFlightFences: "signaled", "reset" (nothing
                         \* submitted with it) or "pending"
    imagesInFlight,      \* _imagesInFlight: image -> frame
    held,                \* images acquired and not given back
    draw,                \* drawFrame(): where it is, its imageIndex, requestRecreate
    gpu,                 \* submissions the GPU has not completed, oldest first
    surface,             \* the extent the surface has
    failures, changes    \* counted for the bounds

chainVars == <<built, extent, generation, recreateRequested, currentFrame, fence,
               imagesInFlight, held>>
swapchainVars == <<chainVars, draw, gpu, surface, failures, changes>>

Frames == 0 .. MaxFramesInFlight - 1
Outside == [at |-> "out", image |-> NoImage, again |-> FALSE]

(* The steps of setup(), in their order: what is drawn on, what it is      *)
(* drawn through, and what keeps the CPU and the GPU apart.  The swapchain *)
(* handle, which is all isValid() looks at, comes with the first; the      *)
(* fences come with the last.                                              *)
Stages == <<"images", "depth, render pass, framebuffers, command buffers", "fences">>
IsValid == built > 0
HasSync == built = Len(Stages)

(* cleanup() waits for the GPU to be idle and drops everything, the        *)
(* request to recreate included; setup() then gets as far as n stages.  No *)
(* image can be made for a surface without an extent.                      *)
Rebuild(n) ==
    /\ gpu = <<>>
    /\ n \in 0 .. Len(Stages)
    /\ IF surface = Minimised
          THEN n = 0
          ELSE n < Len(Stages) => failures < MaxFailures
    /\ failures' = IF n < Len(Stages) THEN failures + 1 ELSE failures
    /\ built' = n
    /\ extent' = IF n > 0 THEN surface ELSE extent
    /\ generation' = generation + 1
    /\ recreateRequested' = FALSE
    /\ currentFrame' = 0
    /\ fence' = [f \in Frames |-> "signaled"]
    /\ imagesInFlight' = [i \in Images |-> NoFence]
    /\ held' = {}

SwapchainInit ==
    /\ surface \in Sizes
    /\ built = Len(Stages) /\ extent = surface /\ generation = 1
    /\ recreateRequested = FALSE /\ currentFrame = 0
    /\ fence = [f \in Frames |-> "signaled"]
    /\ imagesInFlight = [i \in Images |-> NoFence]
    /\ held = {} /\ draw = Outside /\ gpu = <<>>
    /\ failures = 0 /\ changes = 0

-----------------------------------------------------------------------------
(* drawFrame(), called once per tick of the main loop                      *)
Enter ==
    /\ draw.at = "out" /\ IsValid
    /\ draw' = [Outside EXCEPT !.at = "in"]
    /\ UNCHANGED <<chainVars, gpu, surface, failures, changes>>

(* recreateSwapchainFromSurfaceExtent(): a minimised window keeps the      *)
(* request, a set-up that fails has lost it.                               *)
Recreate(n) ==
    /\ draw.at = "in" /\ recreateRequested /\ surface # Minimised
    /\ Rebuild(n)
    /\ draw' = IF n = Len(Stages) THEN draw ELSE Outside
    /\ UNCHANGED <<gpu, surface, changes>>

StayMinimised ==
    /\ draw.at = "in" /\ recreateRequested /\ surface = Minimised
    /\ draw' = Outside
    /\ UNCHANGED <<chainVars, gpu, surface, failures, changes>>

(* acquireImage(), which never waits for the frame's own fence             *)
Acquiring == draw.at = "in" /\ ~recreateRequested
FrameIsFree == HasSync /\ fence[currentFrame] = "signaled"

(* A swapchain whose setup() stopped half-way has no fence to index.       *)
IndexNothing ==
    /\ Acquiring /\ ~HasSync
    /\ draw' = [draw EXCEPT !.at = "lost"]
    /\ UNCHANGED <<chainVars, gpu, surface, failures, changes>>

SkipFrame ==
    /\ Acquiring /\ HasSync
    /\ \/ fence[currentFrame] # "signaled"
       \/ FrameIsFree           \* and the surface has no image to give now
    /\ draw' = Outside
    /\ UNCHANGED <<chainVars, gpu, surface, failures, changes>>

FindOutOfDate ==
    /\ Acquiring /\ FrameIsFree /\ surface # extent
    /\ recreateRequested' = TRUE
    /\ draw' = Outside
    /\ UNCHANGED <<built, extent, generation, currentFrame, fence, imagesInFlight, held,
                   gpu, surface, failures, changes>>

(* The image may still be under way on the GPU in an earlier frame: only   *)
(* its presentation has to be over before the semaphore is signalled.  An  *)
(* image that no longer fits may be given as suboptimal.                   *)
Acquire(i) ==
    /\ Acquiring /\ FrameIsFree
    /\ i \in Images \ held
    /\ held' = held \cup {i}
    /\ \E suboptimal \in {FALSE, surface # extent} :
          draw' = [at |-> "waiting", image |-> i, again |-> suboptimal]
    /\ UNCHANGED <<built, extent, generation, recreateRequested, currentFrame, fence,
                   imagesInFlight, gpu, surface, failures, changes>>

(* Mutant of OwnImage: only the fence of the frame is looked at.           *)
OwnImageAtOnce ==
    /\ draw.at = "waiting"
    /\ fence' = [fence EXCEPT ![currentFrame] = "reset"]
    /\ imagesInFlight' = [imagesInFlight EXCEPT ![draw.image] = currentFrame]
    /\ draw' = [draw EXCEPT !.at = "recording"]
    /\ UNCHANGED <<built, extent, generation, recreateRequested, currentFrame, held,
                   gpu, surface, failures, changes>>

(* The one wait without a time limit, for the frame that last drew on the  *)
(* image; then the frame's own fence is reset and noted for the image.     *)
OwnImage ==
    /\ draw.at = "waiting"
    /\ imagesInFlight[draw.image] # NoFence =>
          fence[imagesInFlight[draw.image]] = "signaled"
    /\ fence' = [fence EXCEPT ![currentFrame] = "reset"]
    /\ imagesInFlight' = [imagesInFlight EXCEPT ![draw.image] = currentFrame]
    /\ draw' = [draw EXCEPT !.at = "recording"]
    /\ UNCHANGED <<built, extent, generation, recreateRequested, currentFrame, held,
                   gpu, surface, failures, changes>>

(* recordCommandBuffer() resets and fills the image's command buffer, its  *)
(* vertex buffers too.                                                     *)
Record ==
    /\ draw.at = "recording"
    /\ draw' = [draw EXCEPT !.at = "presenting"]
    /\ UNCHANGED <<chainVars, gpu, surface, failures, changes>>

(* An exception while recording, or a submission that is refused, ends     *)
(* drawFrame() with the fence reset and nothing to signal it.              *)
LoseFrame ==
    /\ draw.at \in {"recording", "presenting"}
    /\ failures < MaxFailures /\ failures' = failures + 1
    /\ draw' = Outside
    /\ UNCHANGED <<chainVars, gpu, surface, changes>>

(* present() submits; presentKHR then gives the image back.  Out of date   *)
(* is an exception, which skips advanceFrame().                            *)
Submission == [frame |-> currentFrame, image |-> draw.image]

Submit ==
    /\ draw.at = "presenting"
    /\ gpu' = Append(gpu, Submission)
    /\ fence' = [fence EXCEPT ![currentFrame] = "pending"]
    /\ held' = held \ {draw.image}
    /\ draw' = Outside
    /\ UNCHANGED <<built, extent, generation, imagesInFlight, surface, failures, changes>>

Present ==
    /\ Submit
    /\ currentFrame' = (currentFrame + 1) % MaxFramesInFlight
    /\ \E suboptimal \in {FALSE, surface # extent} :
          recreateRequested' = (draw.again \/ suboptimal)

PresentOutOfDate ==
    /\ surface # extent
    /\ Submit
    /\ recreateRequested' = TRUE
    /\ UNCHANGED currentFrame

-----------------------------------------------------------------------------
(* The application's own call: recreateSwapchain(), between two frames     *)
Resize(n) ==
    /\ draw.at = "out"
    /\ Rebuild(n)
    /\ UNCHANGED <<draw, gpu, surface, changes>>

(* The GPU completes its submissions in their order.                       *)
Complete ==
    /\ gpu # <<>>
    /\ fence' = [fence EXCEPT ![Head(gpu).frame] = "signaled"]
    /\ gpu' = Tail(gpu)
    /\ UNCHANGED <<built, extent, generation, recreateRequested, currentFrame,
                   imagesInFlight, held, draw, surface, failures, changes>>

(* The user resizes, minimises or restores the window.                     *)
SurfaceBecomes(s) ==
    /\ s # surface /\ changes < MaxChanges
    /\ changes' = changes + 1
    /\ surface' = s
    /\ UNCHANGED <<chainVars, draw, gpu, failures>>

SwapchainNext ==
    \/ Enter \/ StayMinimised \/ IndexNothing \/ SkipFrame \/ FindOutOfDate
    \/ OwnImage \/ Record \/ LoseFrame \/ Present \/ PresentOutOfDate \/ Complete
    \/ \E i \in Images : Acquire(i)
    \/ \E n \in 0 .. Len(Stages) : Recreate(n) \/ Resize(n)
    \/ \E s \in Sizes \cup {Minimised} : SurfaceBecomes(s)

-----------------------------------------------------------------------------
(* While the CPU rewrites an image's command and vertex buffers, and until *)
(* it has submitted them, the GPU is not using them, nor is anything under *)
(* way with the fence and the semaphore of the frame: whichever way the    *)
(* surface pairs frames with images (vulkanswapchain.cpp, acquireImage).   *)
(* And the wait without a time limit is never for a fence that no          *)
(* submission is going to signal.                                          *)
InFlight == {gpu[k] : k \in 1 .. Len(gpu)}

RecordingIsExclusive ==
    /\ draw.at \in {"recording", "presenting"} =>
          \A s \in InFlight : s.image # draw.image /\ s.frame # currentFrame
    /\ draw.at = "waiting" =>
          \A f \in Frames : imagesInFlight[draw.image] = f => fence[f] # "reset"

SwapchainSpec == SwapchainInit /\ [][SwapchainNext]_swapchainVars
=============================================================================
