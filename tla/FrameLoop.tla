------------------------------ MODULE FrameLoop ------------------------------
(***************************************************************************)
(* The frame callback of RunWindowTask: the delayed resize, then           *)
(* RenderSystem::update(), which refreshes the pipelines, hands over the   *)
(* draw groups and the glyphs of the text, and calls drawFrame().  With it *)
(* the state that VulkanFrameRenderer keeps for each swapchain image.      *)
(*                                                                         *)
(* A pipeline is the pair of its shader and the generation of the          *)
(* swapchain it was created for; a text is a version, of which the glyphs  *)
(* of some need pixels that the atlas texture did not have before.         *)
(***************************************************************************)
EXTENDS VulkanSwapchain

CONSTANTS
    Shaders,         \* shader configurations, the keys of PipelineCache
    MaxEvents,       \* bound of the model: changes of the text and of the surface
    Blank,           \* versions of the text without any glyph
    NoSize

ASSUME FrameLoopAssumption ==
    /\ MaxEvents \in Nat /\ Blank \subseteq 0 .. MaxEvents
    /\ NoSize \notin Sizes

VARIABLES
    pendingSize, appliedSize,    \* _pendingResize.. with _resizePending, _applied..
    cache,           \* PipelineCache: shader -> generation, 0 for none
    lastGeneration,  \* _lastSwapchainGeneration
    groups,          \* _entityDrawGroups: the pipelines to draw with
    text,            \* the text component: its version, its atlas generation
    glyphDirty,      \* _glyphDirty
    sent,            \* what setSdfGlyphData() received last
    uploaded,        \* atlas generation of the pixels uploaded last
    glyphBuffer,     \* _sdfGlyphBuffers: image -> version of the vertices
    uploadNeeded,    \* _sdfGlyphUploadNeeded; TRUE also where it has no entry
    recorded,        \* what the command buffer of each image has the GPU draw
    shown            \* history: version of the text presented last

windowVars == <<pendingSize, appliedSize>>
updateVars == <<cache, lastGeneration, groups, glyphDirty, sent, uploaded>>
rendererVars == <<glyphBuffer, uploadNeeded, recorded>>
frameVars == <<swapchainVars, windowVars, updateVars, rendererVars, text, shown>>

NothingRecorded == [pipelines |-> {}, glyphs |-> 0, on |-> 0]

FrameInit ==
    /\ SwapchainInit
    /\ pendingSize = NoSize /\ appliedSize = surface    \* what the window reports first
    /\ cache = [k \in Shaders |-> 0] /\ lastGeneration = 0 /\ groups = {}
    /\ text = [version |-> 0, atlas |-> 0] /\ sent = text
    /\ glyphDirty = FALSE /\ uploaded = 0
    /\ glyphBuffer = [i \in Images |-> 0] /\ uploadNeeded = [i \in Images |-> TRUE]
    /\ recorded = [i \in Images |-> NothingRecorded]
    /\ shown = 0

-----------------------------------------------------------------------------
(* VulkanFrameRenderer                                                     *)

(* cleanupSwapchainResources(), on every way into setup()                  *)
DropBuffers ==
    /\ glyphBuffer' = [i \in Images |-> 0]
    /\ uploadNeeded' = [i \in Images |-> TRUE]
    /\ UNCHANGED recorded

(* Mutant of SetGlyphs: the buffers of the images stay as they are.        *)
SetGlyphsQuietly(t) == sent' = t /\ UNCHANGED uploadNeeded

(* setSdfGlyphData()                                                       *)
SetGlyphs(t) ==
    /\ sent' = t
    /\ uploadNeeded' = [i \in Images |-> TRUE]

(* recordSdfDrawCalls() refreshes the image's buffer when it has to; a     *)
(* text without glyphs draws nothing and leaves the buffer alone.          *)
RecordGlyphs(i) ==
    IF sent.version \in Blank
    THEN UNCHANGED <<glyphBuffer, uploadNeeded>>
    ELSE /\ glyphBuffer' = [glyphBuffer EXCEPT ![i] =
                               IF uploadNeeded[i] THEN sent.version ELSE @]
         /\ uploadNeeded' = [uploadNeeded EXCEPT ![i] = FALSE]

(* VulkanPipelineStore: a pipeline is in the store until the cache gives   *)
(* it back (destroyPipeline, pipeline).                                    *)
InStore(p) == cache[p[1]] = p[2]

(* recordEntityDrawCalls() skips what the pipeline store no longer has.    *)
RecordFrame ==
    /\ Record
    /\ RecordGlyphs(draw.image)
    /\ recorded' = [recorded EXCEPT ![draw.image] =
          [pipelines |-> {p \in groups : InStore(p)},
           glyphs |-> IF sent.version \in Blank THEN sent.version
                                                ELSE glyphBuffer'[draw.image],
           on |-> generation]]
    /\ UNCHANGED <<windowVars, updateVars, text, shown>>

-----------------------------------------------------------------------------
(* RenderSystem::update()                                                  *)

(* createPipeline(): for the render pass and the size of the swapchain     *)
(* there is, and none without one; the driver is taken not to refuse it.   *)
CreatedPipeline == IF IsValid THEN generation ELSE 0

(* PipelineCache: invalidate() once the generation has moved on, then      *)
(* getOrCreate() for each shader.                                          *)
Refreshed ==
    [k \in Shaders |->
        IF lastGeneration = generation /\ cache[k] # 0 THEN cache[k] ELSE CreatedPipeline]

(* The atlas is uploaded before the glyphs that need it are handed over,   *)
(* and in the queue before the frame that draws them.                      *)
HandOverText ==
    IF glyphDirty
    THEN /\ SetGlyphs(text)
         /\ uploaded' = text.atlas
         /\ glyphDirty' = FALSE
    ELSE UNCHANGED <<sent, uploadNeeded, uploaded, glyphDirty>>

Update ==
    /\ draw.at = "out"
    /\ cache' = Refreshed
    /\ lastGeneration' = generation
    /\ groups' = {<<k, cache'[k]>> : k \in {k \in Shaders : cache'[k] # 0}}
    /\ HandOverText
    /\ IF IsValid THEN Enter ELSE UNCHANGED swapchainVars
    /\ UNCHANGED <<windowVars, glyphBuffer, recorded, text, shown>>

-----------------------------------------------------------------------------
(* The frame callback and the window events it works off                   *)

(* A resize that has been quiet for long enough is applied, unless it ends *)
(* where it began; whatever comes of it, it is done with.                  *)
ApplyResize(n) ==
    /\ pendingSize \notin {NoSize, appliedSize}
    /\ Resize(n)
    /\ appliedSize' = IF n = Len(Stages) THEN pendingSize ELSE appliedSize
    /\ pendingSize' = NoSize
    /\ DropBuffers
    /\ UNCHANGED <<updateVars, text, shown>>

IgnoreResize ==
    /\ draw.at = "out" /\ pendingSize # NoSize /\ pendingSize = appliedSize
    /\ pendingSize' = NoSize
    /\ UNCHANGED <<swapchainVars, appliedSize, updateVars, rendererVars, text, shown>>

MayHappen == text.version + changes < MaxEvents

(* onWindowResized() passes over an empty size.                            *)
WindowResized(s) ==
    /\ draw.at = "out"
    /\ SurfaceBecomes(s) /\ MayHappen
    /\ pendingSize' = IF s = Minimised THEN pendingSize ELSE s
    /\ UNCHANGED <<appliedSize, updateVars, rendererVars, text, shown>>

(* The editor lays its text out again and marks it.                        *)
Edit(newGlyphs) ==
    /\ draw.at = "out" /\ MayHappen
    /\ text' = [version |-> text.version + 1, atlas |-> text.atlas + newGlyphs]
    /\ glyphDirty' = TRUE
    /\ UNCHANGED <<swapchainVars, windowVars, cache, lastGeneration, groups, sent, uploaded,
                   rendererVars, shown>>

-----------------------------------------------------------------------------
(* drawFrame() with the renderer's part in it                              *)
RecreateInFrame(n) ==
    /\ Recreate(n)
    /\ DropBuffers
    /\ UNCHANGED <<windowVars, updateVars, text, shown>>

ShowFrame ==
    /\ Present
    /\ shown' = recorded[draw.image].glyphs
    /\ UNCHANGED <<windowVars, updateVars, rendererVars, text>>

DrawGoesOn ==
    /\ StayMinimised \/ IndexNothing \/ SkipFrame \/ FindOutOfDate \/ OwnImage
       \/ PresentOutOfDate
    /\ UNCHANGED <<windowVars, updateVars, rendererVars, text, shown>>

TakeImage(i) ==
    Acquire(i) /\ UNCHANGED <<windowVars, updateVars, rendererVars, text, shown>>
FailFrame ==
    LoseFrame /\ UNCHANGED <<windowVars, updateVars, rendererVars, text, shown>>
GpuWorks ==
    /\ Complete
    /\ recorded' = [recorded EXCEPT ![Head(gpu).image] = NothingRecorded]
    /\ UNCHANGED <<windowVars, updateVars, glyphBuffer, uploadNeeded, text, shown>>

FrameNext ==
    \/ Update \/ RecordFrame \/ ShowFrame \/ DrawGoesOn \/ FailFrame \/ GpuWorks
    \/ IgnoreResize
    \/ \E i \in Images : TakeImage(i)
    \/ \E n \in 0 .. Len(Stages) : ApplyResize(n) \/ RecreateInFrame(n)
    \/ \E s \in Sizes \cup {Minimised} : WindowResized(s)
    \/ \E newGlyphs \in {0, 1} : Edit(newGlyphs)

(* The main loop ticks, the GPU works, and the surface has an image to     *)
(* give if it is asked for one again and again.                            *)
FrameFairness ==
    /\ WF_frameVars(Update) /\ WF_frameVars(GpuWorks)
    /\ WF_frameVars(RecordFrame \/ ShowFrame \/ DrawGoesOn)
    /\ WF_frameVars(\E n \in 0 .. Len(Stages) : RecreateInFrame(n))
    /\ SF_frameVars(\E i \in Images : TakeImage(i))

-----------------------------------------------------------------------------
(* A frame about to be submitted draws every entity, draws the text as it  *)
(* was handed over last, and finds every pixel of it in the atlas: through *)
(* edits, lost frames and new swapchains, and although each image has a    *)
(* buffer of its own that is refreshed only when it is drawn on.           *)
FrameIsCurrent ==
    draw.at = "presenting" =>
        LET r == recorded[draw.image] IN
        /\ {p[1] : p \in r.pipelines} = Shaders
        /\ r.glyphs = sent.version /\ sent.atlas <= uploaded

(* A pipeline is destroyed while the GPU draws with it only if it belonged *)
(* to an earlier swapchain than the frame: drawFrame() may make a new      *)
(* swapchain after the draw groups were put together, and the next         *)
(* update() then destroys what that one frame still uses.                  *)
OnlyStalePipelinesDieInFlight ==
    \A s \in InFlight :
        \A p \in recorded[s.image].pipelines :
            InStore(p) \/ p[2] < recorded[s.image].on

(* Whatever came between, a frame is submitted only with what is current,  *)
(* and what it draws with outlives it but for the one stale frame.         *)
FramesAreSound == FrameIsCurrent /\ OnlyStalePipelinesDieInFlight

(* As long as the driver does not fail and the window does not stay        *)
(* minimised, every edit gets to the screen.                               *)
EditsReachTheScreen ==
    <>[](failures = 0 /\ surface # Minimised) => <>[](shown = text.version)
=============================================================================
