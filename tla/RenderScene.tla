----------------------------- MODULE RenderScene -----------------------------
(***************************************************************************)
(* The window example from its wiring to its end: the tasks of the init    *)
(* flow make the window, the device, the shapes and the textures, then     *)
(* RunWindowTask has RenderSystem draw all of it in every frame.           *)
(*                                                                         *)
(* Uploads and frames go to one queue of the GPU, nobody waits for them    *)
(* until the device goes.  What a texture holds is the number of its       *)
(* image, or the generation of the glyph atlas.                            *)
(***************************************************************************)
EXTENDS LegacyContext, FiniteSets, SequencesExt

CONSTANTS
    PoolSize,        \* descriptor sets of the textures: 32
    MaxImages,       \* bound of the model: images in the folder
    MaxAtlas         \* bound of the model: generations of the glyph atlas

ASSUME RenderSceneAssumption == PoolSize \in Nat /\ MaxImages \in Nat /\ MaxAtlas \in Nat

VARIABLES
    atStep,        \* how far the current task, or the end of the program, has come
    windowOf,      \* _entityWindows: the pairs of a window system and an entity
    device,        \* the render system whose device and swapchain are there, 0 for none
    shapes,        \* entity -> its render component, and the system that keeps it
    pictures,      \* entity -> its texture component
    store,         \* VulkanTextureStore: next handle, textures, sets, stagings
    gpuQueue,      \* submissions to the graphics queue that are not through
    texels,        \* texture -> what its memory holds
    atlas,         \* the glyph atlas: generation, the one uploaded last, texture
    toLoad,        \* images of the folder still to load, by number
    loaded,        \* history: the images that could be loaded
    stopped,       \* history: why the init flow ended early
    onScreen       \* history: what the last frame showed

storeVars == <<device, store, gpuQueue>>
sceneVars == <<contextVars, atStep, windowOf, shapes, pictures, storeVars, texels, atlas,
               toLoad, loaded, stopped, onScreen>>

-----------------------------------------------------------------------------
(* What the tasks are and make.                                            *)

SceneFlows ==
    [init |-> <<"initWindow", "initVulkan", "setupHelperGeometry", "setupCube", "setupText",
                "loadTextures", "setupTexturedPlanes", "setupTextEdit", "runWindow">>,
     work |-> <<"renderCube">>, error |-> <<>>, close |-> <<>>]
SceneExits == [init |-> "Success", work |-> "Success", error |-> "Error", close |-> "Success"]

Graphics == [id |-> "Graphics", how |-> "either"]
Platform == [id |-> "Platform", how |-> "either"]
SceneWants ==
    [t \in {SceneFlows.init[k] : k \in DOMAIN SceneFlows.init} \cup {"renderCube"} |->
        CASE t = "initWindow" -> <<[id |-> "Platform", how |-> "new"]>>
          [] t = "initVulkan" -> <<Graphics, Platform>>
          [] t = "runWindow"  -> <<Platform, Graphics>>
          [] t = "renderCube" -> <<>>
          [] OTHER            -> <<Graphics>>]

(* Alias, shader and vertices of the shapes a task makes, in its order.    *)
HelperShapes == << <<"PyramidEntity", "pyramid", 18>>, <<"GridEntity", "grid", 6>>,
                   <<"SunEntity", "sun", 768>> >>
CubeShapes == << <<"CubeEntity", "cube", 36>> >>
TextShapes == << <<"TextEntity", "textvoxel", 36>> >>
Panel(alias) == <<alias, "panel", 6>>
EditorShapes ==
    << Panel("TextEditBgEntity"), Panel("TextEditScrollbarTrackEntity"),
       Panel("TextEditScrollbarThumbEntity"), <<"TextEditEntity", "glyph", 6>>,
       Panel("TextEditFocusTopEntity"), Panel("TextEditFocusBottomEntity"),
       Panel("TextEditFocusLeftEntity"), Panel("TextEditFocusRightEntity") >>
Shapes == [setupHelperGeometry |-> HelperShapes, setupCube |-> CubeShapes,
           setupText |-> TextShapes, setupTextEdit |-> EditorShapes]
MouseShapes == << <<"MouseRayEntity", "cube", 36>>, <<"MouseClickSphereEntity", "sphere", 768>> >>

(* The font is not found, or the text cannot be built from it: the task    *)
(* has made this many of its shapes.                                       *)
FailsAfter == [setupHelperGeometry |-> {}, setupCube |-> {}, setupText |-> {0, 1},
               setupTextEdit |-> {0, 4}]

SceneInit ==
    /\ ContextInit
    /\ atStep = "start" /\ windowOf = {} /\ device = 0
    /\ shapes = << >> /\ pictures = << >>
    /\ store = [next |-> 1, textures |-> {}, sets |-> {}, stagings |-> {}]
    /\ gpuQueue = <<>> /\ texels = << >>
    /\ atlas = [generation |-> 1, tracked |-> 0, texture |-> 0]
    /\ toLoad = <<>> /\ loaded = <<>> /\ stopped = "no"
    /\ onScreen = [drawn |-> << >>, glyphs |-> 0, atlas |-> 0]

-----------------------------------------------------------------------------
(* VulkanTextureStore and the graphics queue                               *)

Upload(texture, texel) == [kind |-> "upload", texture |-> texture, texel |-> texel, done |-> FALSE]
Staging(submission) == <<submission.texture, submission.texel>>

(* A fence is signalled when its submission and all before it are through. *)
Signalled(staging) ==
    \A k \in DOMAIN gpuQueue : gpuQueue[k].kind = "upload" => Staging(gpuQueue[k]) # staging

(* Mutant of Unfinished: one upload is through, so all are.                *)
NoneIfOneIs(stagings) ==
    IF \E s \in stagings : Signalled(s) THEN {} ELSE stagings

(* cleanupCompletedTextureUploads()                                        *)
Unfinished(stagings) == {s \in stagings : ~Signalled(s)}

(* createTexture(); without a device there is no texture.                  *)
CreateTexture(st) == [st EXCEPT !.next = @ + 1, !.textures = @ \cup {st.next}]

(* uploadTexture()                                                         *)
Uploading(st, upload) ==
    [st EXCEPT !.stagings = Unfinished(@) \cup {Staging(upload)}]

(* createTextureDescriptorSet(); a pool with no set left throws.           *)
Full(st) == Cardinality(st.sets) = PoolSize
WithSet(st, texture) == IF Full(st) THEN st ELSE [st EXCEPT !.sets = @ \cup {texture}]

(* The GPU.  The barriers of an upload make the frames behind it wait, but *)
(* the upload itself waits for nothing.                                    *)
Through(queue) ==
    LET first == SelectInSeq(queue, LAMBDA s : ~s.done)
    IN IF first = 0 THEN <<>> ELSE SubSeq(queue, first, Len(queue))
Finish(k) == gpuQueue' = Through([gpuQueue EXCEPT ![k].done = TRUE])

GpuCopies(k) ==
    /\ gpuQueue[k].kind = "upload" /\ ~gpuQueue[k].done
    /\ texels' = (gpuQueue[k].texture :> gpuQueue[k].texel) @@ texels
    /\ Finish(k)
    /\ UNCHANGED <<contextVars, atStep, windowOf, shapes, pictures, device, store, atlas, toLoad,
                   loaded, stopped, onScreen>>

Texel(texture) == IF texture \in DOMAIN texels THEN texels[texture] ELSE 0

GpuDraws(k) ==
    /\ gpuQueue[k].kind = "frame" /\ ~gpuQueue[k].done
    /\ \A j \in 1 .. k - 1 : gpuQueue[j].done
    /\ onScreen' = [drawn  |-> [e \in DOMAIN gpuQueue[k].drawn |->
                                   [gpuQueue[k].drawn[e] EXCEPT !.texture = Texel(@)]],
                    glyphs |-> gpuQueue[k].generation,
                    atlas  |-> Texel(gpuQueue[k].atlas)]
    /\ Finish(k)
    /\ UNCHANGED <<contextVars, atStep, windowOf, shapes, pictures, device, store, texels, atlas,
                   toLoad, loaded, stopped>>

-----------------------------------------------------------------------------
(* The tasks of the init flow                                              *)

Renderer == SystemHeld(CurrentTask, "Graphics")
WindowKeeper == SystemHeld(CurrentTask, "Platform")
MainWindowIsThere == <<WindowKeeper, EntityByAlias("MainWindow")>> \in windowOf

Stop(why) == EndTask("Error") /\ stopped' = why
GoOn == EndTask("Success") /\ UNCHANGED stopped

RestOfContext == <<registry, serviceOf, wired, currState>>

InitWindow ==
    /\ CurrentTask = "initWindow"
    /\ windowOf' = windowOf \cup {<<WindowKeeper, entityCount + 1>>}
    /\ entityCount' = entityCount + 1
    /\ aliases' = ("MainWindow" :> entityCount + 1) @@ aliases
    /\ GoOn
    /\ UNCHANGED <<RestOfContext, atStep, shapes, pictures, storeVars, texels, atlas, toLoad,
                   loaded, onScreen>>

(* initialize(): instance, device, surface and swapchain, if all are made. *)
Initialize(works) == device' = IF works THEN Renderer ELSE device

InitVulkan(works) ==
    /\ CurrentTask = "initVulkan"
    /\ IF MainWindowIsThere
       THEN Initialize(works) /\ IF works THEN GoOn ELSE Stop("device")
       ELSE UNCHANGED device /\ Stop("lost")
    /\ UNCHANGED <<RestOfContext, entityCount, aliases, atStep, windowOf, shapes, pictures, store,
                   gpuQueue, texels, atlas, toLoad, loaded, onScreen>>

(* Each shape has an entity with an alias, and a render component that the *)
(* binding of the entity makes.                                            *)
Make(made) ==
    /\ entityCount' = entityCount + Len(made)
    /\ aliases' = [a \in {made[k][1] : k \in DOMAIN made} |->
                      entityCount + SelectInSeq(made, LAMBDA s : s[1] = a)] @@ aliases
    /\ shapes' = [e \in entityCount + 1 .. entityCount + Len(made) |->
                     [system |-> Renderer, shader |-> made[e - entityCount][2],
                      vertices |-> made[e - entityCount][3], texture |-> 0]] @@ shapes

SetUp(count, fails) ==
    /\ CurrentTask \in DOMAIN Shapes
    /\ LET all == Shapes[CurrentTask]
       IN /\ count \in IF fails THEN FailsAfter[CurrentTask] ELSE {Len(all)}
          /\ Make(SubSeq(all, 1, count))
    /\ IF fails THEN Stop("font") ELSE GoOn
    /\ UNCHANGED <<RestOfContext, atStep, windowOf, pictures, storeVars, texels, atlas, toLoad,
                   loaded, onScreen>>

(* LoadTexturesTask: the sorted files of the folder, then one at a time.   *)
OpenFolder(count) ==
    /\ CurrentTask = "loadTextures" /\ atStep = "start"
    /\ toLoad' = [k \in 1 .. count |-> k]
    /\ IF count = 0 THEN Stop("images") /\ UNCHANGED atStep
       ELSE atStep' = "loading" /\ UNCHANGED <<taskAt, stopped>>
    /\ UNCHANGED <<RestOfContext, entityCount, aliases, windowOf, shapes, pictures, storeVars,
                   texels, atlas, loaded, onScreen>>

LoadingGoesOn ==
    /\ CurrentTask = "loadTextures" /\ atStep = "loading" /\ toLoad # <<>>
    /\ toLoad' = Tail(toLoad)

(* A file that is no image is left out.                                    *)
SkipFile ==
    /\ LoadingGoesOn
    /\ UNCHANGED <<contextVars, atStep, windowOf, shapes, pictures, storeVars, texels, atlas,
                   loaded, stopped, onScreen>>

(* Mutant of LoadedIndex: numbered by file.                                *)
FileIndex == Head(toLoad) - 1

(* Numbered by the images that were loaded.                                *)
LoadedIndex == Len(loaded)

TextureAlias(k) == "TextureEntity_" \o ToString(k)
PlaneAlias(k) == "TexturedPlane" \o ToString(k)

(* uploadTextureToGpu(): texture, upload and descriptor set.  Nobody       *)
(* catches what the pool throws.                                           *)
UploadTextureToGpu(upload) ==
    IF upload.texture = 0
    THEN UNCHANGED <<store, gpuQueue, atStep, stopped>>
    ELSE /\ store' = WithSet(Uploading(CreateTexture(store), upload), upload.texture)
         /\ gpuQueue' = Append(gpuQueue, upload)
         /\ IF Full(store) THEN atStep' = "dead" /\ stopped' = "pool"
            ELSE UNCHANGED <<atStep, stopped>>

LoadImage ==
    /\ LoadingGoesOn
    /\ LET texture == IF device = Renderer THEN store.next ELSE 0
       IN /\ pictures' = (entityCount + 1 :> [system |-> Renderer, texture |-> texture]) @@ pictures
          /\ UploadTextureToGpu(Upload(texture, Head(toLoad)))
    /\ entityCount' = entityCount + 1
    /\ aliases' = (TextureAlias(LoadedIndex) :> entityCount + 1) @@ aliases
    /\ loaded' = Append(loaded, Head(toLoad))
    /\ UNCHANGED <<RestOfContext, taskAt, windowOf, shapes, device, texels, atlas, onScreen>>

FinishLoading ==
    /\ CurrentTask = "loadTextures" /\ atStep = "loading" /\ toLoad = <<>>
    /\ GoOn /\ atStep' = "start"
    /\ UNCHANGED <<RestOfContext, entityCount, aliases, windowOf, shapes, pictures, storeVars,
                   texels, atlas, toLoad, loaded, onScreen>>

(* SetupTexturedPlanesTask: a plane for each texture entity up to the      *)
(* first number without one, linked to a texture that is on the GPU.       *)
SetupTexturedPlanes ==
    /\ CurrentTask = "setupTexturedPlanes"
    /\ LET Has(k) == TextureAlias(k) \in DOMAIN aliases
           count == CHOOSE n \in 0 .. entityCount : ~Has(n) /\ \A k \in 0 .. n - 1 : Has(k)
           Picture(k) == pictures[aliases[TextureAlias(k)]]
           Texture(k) == IF Picture(k).system = Renderer THEN Picture(k).texture ELSE 0
       IN /\ entityCount' = entityCount + count
          /\ aliases' = [a \in {PlaneAlias(k) : k \in 0 .. count - 1} |->
                            entityCount + 1 + CHOOSE k \in 0 .. count - 1 : a = PlaneAlias(k)]
                        @@ aliases
          /\ shapes' = [e \in entityCount + 1 .. entityCount + count |->
                           [system |-> Renderer, shader |-> "textured_plane", vertices |-> 6,
                            texture |-> Texture(e - entityCount - 1)]] @@ shapes
    /\ GoOn
    /\ UNCHANGED <<RestOfContext, atStep, windowOf, pictures, storeVars, texels, atlas, toLoad,
                   loaded, onScreen>>

-----------------------------------------------------------------------------
(* RunWindowTask and RenderSystem::update()                                *)

OpenWindow ==
    /\ CurrentTask = "runWindow" /\ atStep = "start"
    /\ Make(MouseShapes)
    /\ IF MainWindowIsThere THEN atStep' = "showing" /\ UNCHANGED <<taskAt, stopped>>
       ELSE Stop("lost") /\ UNCHANGED atStep
    /\ UNCHANGED <<RestOfContext, windowOf, pictures, storeVars, texels, atlas, toLoad, loaded,
                   onScreen>>

(* The shapes with a shader, in groups of one pipeline and one texture.    *)
(* The group draws as many vertices as its member visited last has.        *)
SameGroup(c, d) == c.shader = d.shader /\ c.texture = d.texture
DrawGroups ==
    LET mine == {e \in DOMAIN shapes : shapes[e].system = Renderer}
    IN [e \in mine |->
           LET group == {f \in mine : SameGroup(shapes[e], shapes[f])}
           IN [shader |-> shapes[e].shader, texture |-> shapes[e].texture,
               vertices |-> {shapes[f].vertices : f \in group}]]

(* A texture without a descriptor set is not bound.                        *)
Bound(drawn) ==
    [e \in DOMAIN drawn |-> [drawn[e] EXCEPT !.texture = IF @ \in store.sets THEN @ ELSE 0]]

(* One frame.  The text may have brought new glyphs since the last one;    *)
(* then the atlas is uploaded again, from the first frame on into the same *)
(* texture.  The swapchain lets as many frames be on the way as has fences.*)
FramesOnTheWay == Cardinality({k \in DOMAIN gpuQueue : gpuQueue[k].kind = "frame"})

DrawScene(generation) ==
    /\ CurrentTask = "runWindow" /\ atStep = "showing"
    /\ device = Renderer /\ FramesOnTheWay < 2
    /\ generation \in {atlas.generation, atlas.generation + 1} /\ generation <= MaxAtlas
    /\ LET new == generation # atlas.tracked
           made == IF new /\ atlas.texture = 0 THEN CreateTexture(store) ELSE store
           texture == IF atlas.texture = 0 THEN store.next ELSE atlas.texture
           upload == Upload(texture, generation)
           frame == [kind |-> "frame", drawn |-> Bound(DrawGroups), atlas |-> texture,
                     generation |-> generation, done |-> FALSE]
       IN /\ atlas' = [generation |-> generation, tracked |-> generation, texture |-> texture]
          /\ store' = IF new THEN Uploading(made, upload) ELSE store
          /\ gpuQueue' = gpuQueue \o IF new THEN <<upload, frame>> ELSE <<frame>>
    /\ UNCHANGED <<contextVars, atStep, windowOf, device, shapes, pictures, texels, toLoad,
                   loaded, stopped, onScreen>>

CloseWindow ==
    /\ CurrentTask = "runWindow" /\ atStep = "showing"
    /\ GoOn /\ atStep' = "start"
    /\ UNCHANGED <<RestOfContext, entityCount, aliases, windowOf, shapes, pictures, storeVars,
                   texels, atlas, toLoad, loaded, onScreen>>

RenderCube ==
    /\ CurrentTask = "renderCube" /\ GoOn
    /\ UNCHANGED <<RestOfContext, entityCount, aliases, atStep, windowOf, shapes, pictures,
                   storeVars, texels, atlas, toLoad, loaded, onScreen>>

(* The machine has stopped: ~RenderSystem destroys the texture of the      *)
(* atlas, then the backend, which waits for the device first.              *)
DropAtlas ==
    /\ currState = NoState /\ wired > Len(Wiring) /\ atStep = "start"
    /\ atStep' = "leaving"
    /\ store' = [store EXCEPT !.textures = @ \ {atlas.texture}]
    /\ UNCHANGED <<contextVars, windowOf, device, shapes, pictures, gpuQueue, texels, atlas,
                   toLoad, loaded, stopped, onScreen>>

DropStore ==
    /\ atStep = "leaving" /\ gpuQueue = <<>>
    /\ atStep' = "gone"
    /\ store' = [store EXCEPT !.textures = {}, !.sets = {}, !.stagings = {}]
    /\ UNCHANGED <<contextVars, windowOf, device, shapes, pictures, gpuQueue, texels, atlas,
                   toLoad, loaded, stopped, onScreen>>

SceneNext ==
    \/ /\ SetTaskFlow \/ StartMachine \/ LeaveState
       /\ UNCHANGED <<atStep, windowOf, shapes, pictures, storeVars, texels, atlas, toLoad,
                      loaded, stopped, onScreen>>
    \/ InitWindow \/ \E works \in BOOLEAN : InitVulkan(works)
    \/ \E count \in 0 .. 8, fails \in BOOLEAN : SetUp(count, fails)
    \/ \E count \in 0 .. MaxImages : OpenFolder(count)
    \/ SkipFile \/ LoadImage \/ FinishLoading \/ SetupTexturedPlanes
    \/ OpenWindow \/ \E generation \in 1 .. MaxAtlas : DrawScene(generation)
    \/ CloseWindow \/ RenderCube \/ DropAtlas \/ DropStore
    \/ \E k \in DOMAIN gpuQueue : GpuCopies(k) \/ GpuDraws(k)

-----------------------------------------------------------------------------
(* However the services found their systems, the window of InitWindowTask  *)
(* is the one RunWindowTask shows, all shapes are in the system that has   *)
(* the device, and only what is really missing stops the flow.             *)
OneSceneForAll ==
    /\ stopped # "lost"
    /\ \A e \in DOMAIN shapes : device # 0 => shapes[e].system = device

(* A frame on the screen shows every shape with its own vertices, and each *)
(* image that could be loaded on the plane of its number, whole, although  *)
(* nothing ever waited for the uploads (LoadTexturesTask,                  *)
(* SetupTexturedPlanesTask, RenderSystem::update).                         *)
ImagesAreShown ==
    DOMAIN onScreen.drawn # {} =>
        /\ DOMAIN onScreen.drawn = DOMAIN shapes
        /\ \A e \in DOMAIN shapes : onScreen.drawn[e].vertices = {shapes[e].vertices}
        /\ \A k \in 1 .. Len(loaded) :
              /\ PlaneAlias(k - 1) \in DOMAIN aliases
              /\ onScreen.drawn[aliases[PlaneAlias(k - 1)]].texture = loaded[k]

(* What the GPU has still to read is there: the staging memory of uploads, *)
(* the textures of the shapes (~VulkanTextureStore, uploadTexture).        *)
WhatGpuReadsIsThere ==
    \A k \in DOMAIN gpuQueue : ~gpuQueue[k].done =>
        IF gpuQueue[k].kind = "upload" THEN Staging(gpuQueue[k]) \in store.stagings
        ELSE \A e \in DOMAIN gpuQueue[k].drawn :
                gpuQueue[k].drawn[e].texture \in store.textures \cup {0}

SceneIsSound == OneSceneForAll /\ ImagesAreShown /\ WhatGpuReadsIsThere

(* Three that do not hold.  A frame samples the atlas it was drawn with:   *)
(* the next upload does not wait for it (recordImageLayoutTransitions).    *)
FrameReadsItsAtlas == onScreen.atlas = onScreen.glyphs

(* The atlas outlives the frames: ~RenderSystem drops it too early.        *)
AtlasOutlivesFrames ==
    \A k \in DOMAIN gpuQueue : gpuQueue[k].kind = "frame" => gpuQueue[k].atlas \in store.textures

(* A failed init flow takes the error transition of main().                *)
FailureReachesError == stopped # "no" => currState # "work"
=============================================================================
