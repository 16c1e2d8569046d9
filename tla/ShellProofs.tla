----------------------------- MODULE ShellProofs -----------------------------
(***************************************************************************)
(* The window example.  The swapchain and the frame loop over it, for any  *)
(* number of images, frames in flight, shaders, sizes and failures: what   *)
(* is recorded is not on the GPU, and what is drawn is what the frame was  *)
(* made of.  The handlers of the input and the messages, for any entities, *)
(* keys, windows and listeners: what the user does arrives.  The GPU's     *)
(* queue, for any images and uploads: what it reads from is still there.   *)
(***************************************************************************)
EXTENDS MCShell, FiniteSetTheorems, WellFoundedInduction, TLAPS

DrawPlaces == {"out", "in", "waiting", "recording", "presenting", "lost"}

(* The shape of what the swapchain, the draw call and the GPU hold.        *)
Draws == [at : DrawPlaces, image : Images \cup {NoImage}, again : BOOLEAN]
Submissions == [frame : Frames, image : Images]

DrawType ==
    /\ draw \in Draws
    /\ draw.at \in {"waiting", "recording", "presenting"} => draw.image \in Images
GpuType == gpu \in Seq(Submissions)
FrameType ==
    /\ currentFrame \in Frames
    /\ fence \in [Frames -> {"signaled", "reset", "pending"}]
    /\ imagesInFlight \in [Images -> Frames \cup {NoFence}]
ChainTypes == DrawType /\ GpuType /\ FrameType

(* What is under way on the GPU has a pending fence, is the last that drew *)
(* on its image, and is alone with its frame.                              *)
GpuInv ==
    /\ \A k \in 1 .. Len(gpu) :
          /\ fence[gpu[k].frame] = "pending"
          /\ imagesInFlight[gpu[k].image] = gpu[k].frame
    /\ \A k, l \in 1 .. Len(gpu) : gpu[k].frame = gpu[l].frame => k = l

(* Only the frame that is being drawn, or that was lost and will be drawn  *)
(* again, has a fence that nothing is going to signal.                     *)
FenceInv ==
    /\ \A f \in Frames : fence[f] = "reset" => f = currentFrame
    /\ draw.at = "waiting" => fence[currentFrame] = "signaled"
    /\ draw.at \in {"recording", "presenting"} =>
          fence[currentFrame] = "reset" /\ imagesInFlight[draw.image] = currentFrame

SwapInv == ChainTypes /\ GpuInv /\ FenceInv

LEMMA NextFrame ==
    /\ 0 \in Frames
    /\ \A f \in Frames : (f + 1) % MaxFramesInFlight \in Frames
    /\ NoFence \notin Frames /\ NoImage \notin Images
BY SwapchainAssumption DEF Frames

LEMMA Submitted ==
    ASSUME ChainTypes, NEW k \in 1 .. Len(gpu)
    PROVE  gpu[k].frame \in Frames /\ gpu[k].image \in Images
<1>1. gpu[k] \in Submissions
  BY DEF ChainTypes, GpuType
<1>2. QED BY <1>1 DEF Submissions

(* The states drawFrame() goes through, as records.                        *)
LEMMA DrawsHold ==
    /\ Outside \in Draws /\ Outside.at = "out"
    /\ \A d \in Draws, p \in DrawPlaces :
          LET e == [d EXCEPT !.at = p]
          IN  e \in Draws /\ e.at = p /\ e.image = d.image /\ e.again = d.again
    /\ \A i \in Images, b \in BOOLEAN :
          LET e == [at |-> "waiting", image |-> i, again |-> b]
          IN  e \in Draws /\ e.at = "waiting" /\ e.image = i
BY DEF Draws, DrawPlaces, Outside

LEMMA SwapStarts == SwapchainInit => SwapInv
<1> SUFFICES ASSUME SwapchainInit PROVE SwapInv
  OBVIOUS
<1>1. ChainTypes
  <2>1. DrawType
    BY DrawsHold DEF SwapchainInit, DrawType
  <2>2. FrameType /\ GpuType
    BY NextFrame DEF SwapchainInit, GpuType, FrameType
  <2>3. QED BY <2>1, <2>2 DEF ChainTypes
<1>2. GpuInv /\ FenceInv
  BY DrawsHold DEF SwapchainInit, GpuInv, FenceInv
<1>3. QED BY <1>1, <1>2 DEF SwapInv

LEMMA RebuildKeeps ==
    ASSUME SwapInv, NEW n, Rebuild(n), gpu' = gpu,
           draw' = draw \/ draw' = Outside, draw.at \in {"out", "in"}
    PROVE  SwapInv'
<1>0. DrawType' /\ draw'.at \in {"out", "in"}
  BY DrawsHold DEF SwapInv, ChainTypes, DrawType
<1>1. FrameType' /\ GpuType'
  BY NextFrame DEF SwapInv, ChainTypes, FrameType, GpuType, Rebuild
<1>2. GpuInv' /\ FenceInv'
  BY <1>0 DEF GpuInv, FenceInv, Rebuild
<1>3. QED BY <1>0, <1>1, <1>2 DEF SwapInv, ChainTypes

(* Steps that change no fence and no queue.                                *)
LEMMA DrawKeeps ==
    ASSUME SwapInv, DrawType', UNCHANGED <<currentFrame, fence, imagesInFlight, gpu>>,
           draw'.at = "waiting" => fence[currentFrame] = "signaled",
           draw'.at \in {"recording", "presenting"} =>
              draw.at \in {"recording", "presenting"} /\ draw'.image = draw.image
    PROVE  SwapInv'
BY DEF SwapInv, ChainTypes, GpuType, FrameType, GpuInv, FenceInv

LEMMA OwnImageKeeps == SwapInv /\ OwnImage => SwapInv'
<1> SUFFICES ASSUME SwapInv, OwnImage PROVE SwapInv'
  OBVIOUS
<1> USE DEF SwapInv
<1>0. /\ draw.image \in Images /\ fence[currentFrame] = "signaled"
      /\ draw'.at = "recording" /\ draw'.image = draw.image
  BY DrawsHold DEF DrawPlaces, OwnImage, ChainTypes, DrawType, FenceInv
<1>1. ChainTypes'
  <2>1. DrawType'
    BY <1>0, DrawsHold DEF OwnImage, ChainTypes, SwapInv, DrawType, DrawPlaces
  <2>2. FrameType' /\ GpuType'
    BY <1>0 DEF OwnImage, ChainTypes, GpuType, FrameType
  <2>3. QED BY <2>1, <2>2 DEF ChainTypes
<1>2. ASSUME NEW k \in 1 .. Len(gpu)
      PROVE  gpu[k].image # draw.image /\ gpu[k].frame # currentFrame
  <2>1. /\ gpu[k].frame \in Frames
        /\ fence[gpu[k].frame] = "pending"
        /\ imagesInFlight[gpu[k].image] = gpu[k].frame
    BY Submitted DEF GpuInv
  <2>2. gpu[k].image # draw.image
    <3> SUFFICES ASSUME gpu[k].image = draw.image PROVE FALSE
      OBVIOUS
    <3>1. imagesInFlight[draw.image] \in Frames
      BY <2>1
    <3>2. fence[imagesInFlight[draw.image]] = "signaled"
      BY <3>1, NextFrame DEF OwnImage
    <3>3. QED BY <2>1, <3>2
  <2>3. QED BY <1>0, <2>1, <2>2
<1>3. GpuInv'
  BY <1>0, <1>2, Submitted DEF OwnImage, GpuInv, ChainTypes, FrameType
<1>4. FenceInv'
  BY <1>0 DEF OwnImage, FenceInv, ChainTypes, FrameType
<1>5. QED BY <1>1, <1>3, <1>4

LEMMA SubmitKeeps ==
    ASSUME SwapInv, Submit, currentFrame' \in Frames
    PROVE  SwapInv'
<1> USE DEF SwapInv
<1>0. /\ draw.image \in Images /\ currentFrame \in Frames
      /\ fence[currentFrame] = "reset" /\ imagesInFlight[draw.image] = currentFrame
      /\ draw' = Outside /\ UNCHANGED imagesInFlight
      /\ gpu' = Append(gpu, [frame |-> currentFrame, image |-> draw.image])
      /\ fence' = [fence EXCEPT ![currentFrame] = "pending"]
  BY DEF Submit, Submission, ChainTypes, DrawType, FrameType, FenceInv
<1>1. ChainTypes'
  <2>1. DrawType'
    BY <1>0, DrawsHold DEF DrawType
  <2>2. FrameType'
    BY <1>0 DEF ChainTypes, FrameType
  <2>3. GpuType'
    <3>1. [frame |-> currentFrame, image |-> draw.image] \in Submissions
      BY <1>0 DEF Submissions
    <3>2. QED BY <1>0, <3>1 DEF ChainTypes, GpuType
  <2>4. QED BY <2>1, <2>2, <2>3 DEF ChainTypes
<1>2. /\ Len(gpu') = Len(gpu) + 1
      /\ \A k \in 1 .. Len(gpu) : gpu'[k] = gpu[k]
      /\ gpu'[Len(gpu) + 1] = [frame |-> currentFrame, image |-> draw.image]
  BY <1>0 DEF ChainTypes, GpuType
<1>3. ASSUME NEW k \in 1 .. Len(gpu) PROVE gpu[k].frame # currentFrame
  BY <1>0 DEF GpuInv
<1>4. ASSUME NEW k \in 1 .. Len(gpu')
      PROVE  fence'[gpu'[k].frame] = "pending" /\ imagesInFlight'[gpu'[k].image] = gpu'[k].frame
  <2>1. CASE k = Len(gpu) + 1
    BY <1>0, <1>2, <2>1 DEF ChainTypes, FrameType
  <2>2. CASE k # Len(gpu) + 1
    <3>1. k \in 1 .. Len(gpu)
      BY <1>2, <2>2 DEF ChainTypes, GpuType
    <3>2. gpu[k].frame \in Frames
      BY <3>1, Submitted
    <3>3. QED BY <1>0, <1>2, <1>3, <3>1, <3>2 DEF GpuInv, ChainTypes, FrameType
  <2>3. QED BY <2>1, <2>2
<1>5. ASSUME NEW k \in 1 .. Len(gpu'), NEW l \in 1 .. Len(gpu'), gpu'[k].frame = gpu'[l].frame
      PROVE  k = l
  <2>1. /\ k = Len(gpu) + 1 \/ k \in 1 .. Len(gpu)
        /\ l = Len(gpu) + 1 \/ l \in 1 .. Len(gpu)
    BY <1>2 DEF ChainTypes, GpuType
  <2>2. QED BY <1>2, <1>3, <1>5, <2>1 DEF GpuInv
<1>6. FenceInv'
  BY <1>0 DEF FenceInv, ChainTypes, FrameType, Outside
<1>7. QED BY <1>1, <1>4, <1>5, <1>6 DEF GpuInv

LEMMA CompleteKeeps == SwapInv /\ Complete => SwapInv'
<1> SUFFICES ASSUME SwapInv, Complete PROVE SwapInv'
  OBVIOUS
<1> USE DEF SwapInv
<1>a. Len(gpu) \in Nat \ {0} /\ Head(gpu) = gpu[1] /\ 1 \in 1 .. Len(gpu)
  BY DEF Complete, ChainTypes, GpuType
<1>0. /\ gpu[1].frame \in Frames
      /\ Len(gpu') = Len(gpu) - 1
      /\ \A k \in 1 .. Len(gpu') : gpu'[k] = gpu[k + 1] /\ k + 1 \in 1 .. Len(gpu)
      /\ gpu' \in Seq(Submissions)
      /\ fence' = [fence EXCEPT ![gpu[1].frame] = "signaled"]
      /\ UNCHANGED <<currentFrame, imagesInFlight, draw>>
  <2>1. gpu \in Seq(Submissions) /\ gpu' = Tail(gpu)
    BY DEF Complete, ChainTypes, GpuType
  <2>2. /\ gpu' \in Seq(Submissions) /\ Len(gpu') = Len(gpu) - 1
        /\ \A k \in 1 .. Len(gpu') : gpu'[k] = gpu[k + 1]
    BY <1>a, <2>1
  <2>3. \A k \in 1 .. Len(gpu') : k + 1 \in 1 .. Len(gpu)
    BY <1>a, <2>2
  <2>4. gpu[1].frame \in Frames
    BY <1>a, Submitted
  <2>5. QED BY <1>a, <2>2, <2>3, <2>4 DEF Complete
<1>1. ChainTypes'
  BY <1>0 DEF ChainTypes, DrawType, GpuType, FrameType
<1>2. GpuInv'
  <2>1. ASSUME NEW k \in 1 .. Len(gpu')
        PROVE  /\ fence'[gpu'[k].frame] = "pending"
               /\ imagesInFlight'[gpu'[k].image] = gpu'[k].frame
    <3>1. gpu[k + 1].frame # gpu[1].frame
      BY <1>0, <1>a DEF GpuInv
    <3>2. gpu[k + 1].frame \in Frames
      BY <1>0, Submitted
    <3>3. QED BY <1>0, <3>1, <3>2 DEF GpuInv, ChainTypes, FrameType
  <2>2. ASSUME NEW k \in 1 .. Len(gpu'), NEW l \in 1 .. Len(gpu'),
               gpu'[k].frame = gpu'[l].frame
        PROVE  k = l
    <3>1. k + 1 = l + 1
      BY <1>0, <2>2 DEF GpuInv
    <3>2. QED BY <3>1, <1>0
  <2>3. QED BY <2>1, <2>2 DEF GpuInv
<1>3. FenceInv'
  <2>1. fence[gpu[1].frame] = "pending"
    BY <1>a DEF GpuInv
  <2>2. QED BY <1>0, <2>1 DEF FenceInv, ChainTypes, FrameType
<1>4. QED BY <1>1, <1>2, <1>3

LEMMA SwapStep == SwapInv /\ [SwapchainNext]_swapchainVars => SwapInv'
<1> SUFFICES ASSUME SwapInv, [SwapchainNext]_swapchainVars PROVE SwapInv'
  OBVIOUS
<1>0. DrawType /\ FrameType /\ FenceInv
  BY DEF SwapInv, ChainTypes
<1>1. CASE Enter \/ StayMinimised \/ IndexNothing \/ SkipFrame \/ FindOutOfDate
  <2>1. \/ draw' = Outside
        \/ draw' = [Outside EXCEPT !.at = "in"]
        \/ draw' = [draw EXCEPT !.at = "lost"]
    BY <1>1 DEF Enter, StayMinimised, IndexNothing, SkipFrame, FindOutOfDate
  <2>2. draw' \in Draws /\ draw'.at \in {"in", "out", "lost"}
    <3>1. Outside \in Draws /\ draw \in Draws /\ "in" \in DrawPlaces /\ "lost" \in DrawPlaces
      BY <1>0, DrawsHold DEF DrawType, DrawPlaces
    <3>2. CASE draw' = Outside
      BY <3>2, DrawsHold
    <3>3. CASE draw' = [Outside EXCEPT !.at = "in"]
      BY <3>1, <3>3, DrawsHold
    <3>4. CASE draw' = [draw EXCEPT !.at = "lost"]
      BY <3>1, <3>4, DrawsHold
    <3>5. QED BY <2>1, <3>2, <3>3, <3>4
  <2>3. UNCHANGED <<currentFrame, fence, imagesInFlight, gpu>>
    BY <1>1 DEF Enter, StayMinimised, IndexNothing, SkipFrame, FindOutOfDate, chainVars
  <2>4. QED BY <2>2, <2>3, DrawKeeps DEF DrawType
<1>2. ASSUME NEW i \in Images, Acquire(i) PROVE SwapInv'
  <2>1. PICK b \in BOOLEAN : draw' = [at |-> "waiting", image |-> i, again |-> b]
    BY <1>2 DEF Acquire
  <2>2. draw' \in Draws /\ draw'.at = "waiting" /\ draw'.image = i
    BY <2>1, DrawsHold
  <2>3. UNCHANGED <<currentFrame, fence, imagesInFlight, gpu>>
        /\ fence[currentFrame] = "signaled"
    BY <1>2 DEF Acquire, FrameIsFree
  <2>4. QED BY <2>2, <2>3, DrawKeeps DEF DrawType
<1>3. CASE Record \/ LoseFrame
  <2>1. UNCHANGED <<currentFrame, fence, imagesInFlight, gpu>>
    BY <1>3 DEF Record, LoseFrame, chainVars
  <2>2. CASE Record
    <3>1. /\ draw' \in Draws /\ draw'.at = "presenting" /\ draw'.image = draw.image
          /\ draw.at = "recording"
      BY <1>0, <2>2, DrawsHold DEF Record, DrawType, DrawPlaces
    <3>2. QED BY <1>0, <2>1, <3>1, DrawKeeps DEF DrawType
  <2>3. CASE LoseFrame
    <3>1. draw' \in Draws /\ draw'.at = "out"
      BY <2>3, DrawsHold DEF LoseFrame
    <3>2. QED BY <2>1, <3>1, DrawKeeps DEF DrawType
  <2>4. QED BY <1>3, <2>2, <2>3
<1>4. CASE OwnImage
  BY <1>4, OwnImageKeeps
<1>5. CASE Present
  BY <1>0, <1>5, SubmitKeeps, NextFrame DEF Present, FrameType
<1>6. CASE PresentOutOfDate
  BY <1>0, <1>6, SubmitKeeps DEF PresentOutOfDate, FrameType
<1>7. CASE Complete
  BY <1>7, CompleteKeeps
<1>8. ASSUME NEW n \in 0 .. Len(Stages), Recreate(n) \/ Resize(n) PROVE SwapInv'
  BY <1>8, RebuildKeeps DEF Recreate, Resize
<1>9. ASSUME NEW s, SurfaceBecomes(s) PROVE SwapInv'
  BY <1>9 DEF SurfaceBecomes, chainVars, SwapInv, ChainTypes, DrawType, GpuType, FrameType, GpuInv, FenceInv
<1>10. CASE UNCHANGED swapchainVars
  BY <1>10 DEF swapchainVars, chainVars, SwapInv, ChainTypes, DrawType, GpuType, FrameType, GpuInv, FenceInv
<1>11. QED BY <1>1, <1>2, <1>3, <1>4, <1>5, <1>6, <1>7, <1>8, <1>9, <1>10 DEF SwapchainNext

LEMMA SwapHolds == SwapInv => RecordingIsExclusive
<1> SUFFICES ASSUME SwapInv PROVE RecordingIsExclusive
  OBVIOUS
<1> USE DEF SwapInv
<1>1. ASSUME draw.at \in {"recording", "presenting"}, NEW s \in InFlight
      PROVE  s.image # draw.image /\ s.frame # currentFrame
  <2>1. PICK k \in 1 .. Len(gpu) : s = gpu[k]
    BY DEF InFlight
  <2>2. QED BY <1>1, <2>1 DEF GpuInv, FenceInv
<1>2. ASSUME draw.at = "waiting", NEW f \in Frames, imagesInFlight[draw.image] = f
      PROVE  fence[f] # "reset"
  BY <1>2 DEF FenceInv
<1>3. QED BY <1>1, <1>2 DEF RecordingIsExclusive

(* The CPU never rewrites what the GPU still reads                         *)
(* (vulkanswapchain.cpp, acquireImage, present).                           *)
THEOREM RecordingKeepsApart == SwapchainSpec => []RecordingIsExclusive
<1>1. SwapchainSpec => []SwapInv
  BY SwapStarts, SwapStep, PTL DEF SwapchainSpec
<1>2. QED BY <1>1, SwapHolds, PTL

-----------------------------------------------------------------------------
(* The frame loop: FramesAreSound                                          *)

FrameSpec == FrameInit /\ [][FrameNext]_frameVars

(* What the frame loop does to the swapchain is what the swapchain does.   *)
LEMMA StepOfSwapchain == [FrameNext]_frameVars => [SwapchainNext]_swapchainVars
<1> SUFFICES ASSUME [FrameNext]_frameVars PROVE [SwapchainNext]_swapchainVars
  OBVIOUS
<1>1. CASE Update
  BY <1>1 DEF Update, SwapchainNext
<1>2. CASE RecordFrame \/ ShowFrame \/ DrawGoesOn \/ FailFrame \/ GpuWorks \/ IgnoreResize
  BY <1>2 DEF RecordFrame, ShowFrame, DrawGoesOn, FailFrame, GpuWorks, IgnoreResize, SwapchainNext
<1>3. ASSUME NEW i \in Images, TakeImage(i) PROVE [SwapchainNext]_swapchainVars
  BY <1>3 DEF TakeImage, SwapchainNext
<1>4. ASSUME NEW n \in 0 .. Len(Stages), ApplyResize(n) \/ RecreateInFrame(n)
      PROVE  [SwapchainNext]_swapchainVars
  BY <1>4 DEF ApplyResize, RecreateInFrame, SwapchainNext
<1>5. ASSUME NEW s \in Sizes \cup {Minimised}, WindowResized(s)
      PROVE  [SwapchainNext]_swapchainVars
  BY <1>5 DEF WindowResized, SwapchainNext
<1>6. ASSUME NEW g \in {0, 1}, Edit(g) PROVE [SwapchainNext]_swapchainVars
  BY <1>6 DEF Edit
<1>7. CASE UNCHANGED frameVars
  BY <1>7 DEF frameVars
<1>8. QED BY <1>1, <1>2, <1>3, <1>4, <1>5, <1>6, <1>7 DEF FrameNext

(* A pipeline in the cache was made for the swapchain the last update()    *)
(* saw, which is not younger than the one there is.                        *)
CacheInv ==
    /\ generation \in Nat \ {0} /\ lastGeneration \in Nat /\ lastGeneration <= generation
    /\ cache \in [Shaders -> Nat]
    /\ \A k \in Shaders : cache[k] \in {0, lastGeneration}
(* Within drawFrame() the draw groups are one pipeline for each shader.    *)
GroupInv ==
    draw.at # "out" =>
        /\ groups = {<<k, cache[k]>> : k \in Shaders}
        /\ \A k \in Shaders : cache[k] # 0
(* An image whose buffer needs no upload has the glyphs handed over last,  *)
(* and all their pixels are in the atlas.                                  *)
GlyphInv ==
    /\ text.atlas \in Nat /\ uploaded \in Nat /\ sent.atlas = uploaded
    /\ DOMAIN glyphBuffer = Images /\ uploadNeeded \in [Images -> BOOLEAN]
    /\ \A i \in Images : ~uploadNeeded[i] => glyphBuffer[i] = sent.version
(* What is recorded was recorded for the swapchain there is; only          *)
(* pipelines of an earlier one may be gone.                                *)
Sound(r) ==
    /\ r.on = generation
    /\ \A p \in r.pipelines :
          /\ p[1] \in Shaders /\ p[2] \in Nat /\ p[2] <= generation
          /\ p[2] = generation => InStore(p)
RecordInv ==
    /\ \A k \in 1 .. Len(gpu) : Sound(recorded[gpu[k].image])
    /\ draw.at = "presenting" =>
          /\ Sound(recorded[draw.image])
          /\ {p[1] : p \in recorded[draw.image].pipelines} = Shaders
          /\ recorded[draw.image].glyphs = sent.version
FrameInv ==
    /\ SwapInv /\ CacheInv /\ GroupInv /\ GlyphInv /\ RecordInv
    /\ DOMAIN recorded = Images

-----------------------------------------------------------------------------
LEMMA FrameStarts == FrameInit => FrameInv
<1> SUFFICES ASSUME FrameInit PROVE FrameInv
  OBVIOUS
<1>1. SwapInv
  BY SwapStarts DEF FrameInit
<1>2. CacheInv
  BY DEF FrameInit, SwapchainInit, CacheInv
<1>3. GroupInv /\ RecordInv
  BY DrawsHold DEF FrameInit, SwapchainInit, GroupInv, RecordInv
<1>4. text.atlas = 0 /\ sent = text
  BY DEF FrameInit
<1>5. GlyphInv
  BY <1>4 DEF FrameInit, GlyphInv
<1>6. DOMAIN recorded = Images
  BY DEF FrameInit
<1>7. QED BY <1>1, <1>2, <1>3, <1>5, <1>6 DEF FrameInv

(* What a frame is put together from.                                      *)
Prepared == <<generation, cache, lastGeneration, groups, sent, uploaded, glyphBuffer,
              uploadNeeded, recorded>>

(* Steps that leave it alone: the frame goes on, is submitted or is over.  *)
LEMMA QuietKeeps ==
    ASSUME FrameInv, SwapInv', UNCHANGED Prepared, text'.atlas \in Nat,
           draw'.at # "out" => draw.at # "out",
           draw'.at = "presenting" => draw' = draw,
           gpu' = gpu \/ (draw.at = "presenting" /\ gpu' = Append(gpu, Submission))
    PROVE  FrameInv'
<1> USE DEF FrameInv, Prepared
<1>1. CacheInv' /\ GroupInv' /\ GlyphInv'
  BY DEF CacheInv, GroupInv, GlyphInv
<1>2. \A i : Sound(recorded[i]) => Sound(recorded[i])'
  BY DEF Sound, InStore
<1>3. ASSUME NEW k \in 1 .. Len(gpu') PROVE Sound(recorded[gpu[k].image])'
  <2>1. CASE gpu' = gpu
    BY <1>2, <1>3, <2>1 DEF RecordInv
  <2>2. CASE draw.at = "presenting" /\ gpu' = Append(gpu, Submission)
    <3>1. gpu \in Seq(Submissions)
      BY DEF SwapInv, ChainTypes, GpuType
    <3>2. (k \in 1 .. Len(gpu) /\ gpu'[k] = gpu[k]) \/ gpu'[k] = Submission
      BY <1>3, <2>2, <3>1
    <3>3. Sound(recorded[gpu'[k].image])
      BY <2>2, <3>2 DEF RecordInv, Submission
    <3>4. QED BY <1>2, <3>3
  <2>3. QED BY <2>1, <2>2
<1>4. RecordInv'
  BY <1>2, <1>3 DEF RecordInv
<1>5. QED BY <1>1, <1>4

(* A new swapchain is made only while the GPU has nothing to do.           *)
LEMMA RebuildKeepsFrame ==
    ASSUME FrameInv, SwapInv', NEW n, Rebuild(n), DropBuffers, gpu' = gpu,
           draw' = draw \/ draw' = Outside, draw.at \in {"out", "in"},
           UNCHANGED <<updateVars, text>>
    PROVE  FrameInv'
<1> USE DEF FrameInv
<1>1. CacheInv'
  BY DEF CacheInv, Rebuild, updateVars
<1>2. GroupInv' /\ RecordInv'
  BY DrawsHold DEF GroupInv, RecordInv, Rebuild, updateVars
<1>3. GlyphInv'
  BY DEF GlyphInv, DropBuffers, updateVars
<1>4. QED BY <1>1, <1>2, <1>3 DEF DropBuffers

LEMMA UpdateKeeps == FrameInv /\ Update /\ SwapInv' => FrameInv'
<1> SUFFICES ASSUME FrameInv, Update, SwapInv' PROVE FrameInv'
  OBVIOUS
<1> USE DEF FrameInv
<1>0. /\ UNCHANGED <<generation, gpu>> /\ draw'.at # "presenting"
      /\ draw'.at # "out" => IsValid
  BY DrawsHold DEF Update, Enter, chainVars, swapchainVars, Outside
<1>1. /\ cache' = Refreshed /\ lastGeneration' = generation
      /\ \A k \in Shaders : cache'[k] = (IF lastGeneration = generation /\ cache[k] # 0
                                         THEN cache[k] ELSE CreatedPipeline)
      /\ CreatedPipeline \in {0, generation}
      /\ IsValid => CreatedPipeline = generation
  BY DEF Update, Refreshed, CreatedPipeline
<1>2. CacheInv'
  <2>1. \A k \in Shaders : cache'[k] \in {0, generation}
    BY <1>1 DEF CacheInv
  <2>2. cache' \in [Shaders -> Nat]
    BY <1>1, <2>1 DEF CacheInv, Refreshed
  <2>3. QED BY <1>0, <1>1, <2>1, <2>2 DEF CacheInv
<1>3. GroupInv'
  <2> SUFFICES ASSUME draw'.at # "out"
               PROVE  /\ groups' = {<<k, cache'[k]>> : k \in Shaders}
                      /\ \A k \in Shaders : cache'[k] # 0
    BY DEF GroupInv
  <2>1. \A k \in Shaders : cache'[k] # 0
    BY <1>0, <1>1 DEF CacheInv
  <2>2. {k \in Shaders : cache'[k] # 0} = Shaders
    BY <2>1
  <2>3. groups' = {<<k, cache'[k]>> : k \in {k \in Shaders : cache'[k] # 0}}
    BY DEF Update
  <2>4. QED BY <2>1, <2>2, <2>3
<1>4. GlyphInv'
  <2>1. CASE glyphDirty
    BY <2>1 DEF GlyphInv, Update, HandOverText, SetGlyphs
  <2>2. CASE ~glyphDirty
    BY <2>2 DEF GlyphInv, Update, HandOverText
  <2>3. QED BY <2>1, <2>2
<1>5. \A r : Sound(r) => Sound(r)'
  <2> SUFFICES ASSUME NEW r, Sound(r), NEW p \in r.pipelines, p[2] = generation
               PROVE  InStore(p)'
    BY <1>0 DEF Sound
  <2>1. p[1] \in Shaders /\ cache[p[1]] = generation
    BY DEF Sound, InStore
  <2>2. lastGeneration = generation /\ cache[p[1]] # 0
    BY <2>1 DEF CacheInv
  <2>3. QED BY <1>1, <2>1, <2>2 DEF InStore
<1>6. RecordInv'
  BY <1>0, <1>5 DEF RecordInv, Update
<1>7. QED BY <1>2, <1>3, <1>4, <1>6 DEF Update

LEMMA RecordKeeps == FrameInv /\ RecordFrame /\ SwapInv' => FrameInv'
<1> SUFFICES ASSUME FrameInv, RecordFrame, SwapInv' PROVE FrameInv'
  OBVIOUS
<1> USE DEF FrameInv
<1> DEFINE i == draw.image
           g == IF sent.version \in Blank THEN sent.version ELSE glyphBuffer'[i]
           r == [pipelines |-> {p \in groups : InStore(p)}, glyphs |-> g, on |-> generation]
<1>0. /\ draw.at = "recording" /\ i \in Images
      /\ draw'.at = "presenting" /\ draw'.image = i
      /\ UNCHANGED <<generation, gpu>>
  BY DrawsHold DEF RecordFrame, Record, chainVars, SwapInv, ChainTypes, DrawType, DrawPlaces
<1>1. recorded' = [recorded EXCEPT ![i] = r] /\ UNCHANGED <<updateVars, text>>
  BY DEF RecordFrame
<1>2. CacheInv' /\ GroupInv'
  BY <1>0, <1>1 DEF CacheInv, GroupInv, updateVars
<1>3. GlyphInv' /\ g = sent.version
  <2>1. CASE sent.version \in Blank
    BY <1>0, <1>1, <2>1 DEF GlyphInv, updateVars, RecordFrame, RecordGlyphs
  <2>2. CASE sent.version \notin Blank
    <3>1. /\ glyphBuffer' = [glyphBuffer EXCEPT ![i] =
                               IF uploadNeeded[i] THEN sent.version ELSE @]
          /\ uploadNeeded' = [uploadNeeded EXCEPT ![i] = FALSE]
      BY <2>2 DEF RecordFrame, RecordGlyphs
    <3>2. glyphBuffer'[i] = sent.version
      BY <1>0, <3>1 DEF GlyphInv
    <3>3. GlyphInv'
      BY <1>0, <1>1, <3>1, <3>2 DEF GlyphInv, updateVars
    <3>4. QED BY <2>2, <3>2, <3>3
  <2>3. QED BY <2>1, <2>2
<1>4. /\ groups = {<<k, cache[k]>> : k \in Shaders}
      /\ \A k \in Shaders : InStore(<<k, cache[k]>>)
  BY <1>0 DEF GroupInv, InStore
<1>5. {p \in groups : InStore(p)} = {<<k, cache[k]>> : k \in Shaders}
  BY <1>4
<1>6. {p[1] : p \in r.pipelines} = Shaders
  <2>1. r.pipelines = {<<k, cache[k]>> : k \in Shaders}
    BY <1>5
  <2>2. \A k \in Shaders : <<k, cache[k]>>[1] = k
    OBVIOUS
  <2>3. ASSUME NEW k \in Shaders PROVE k \in {p[1] : p \in r.pipelines}
    <3>1. <<k, cache[k]>> \in r.pipelines
      BY <2>1
    <3>2. QED BY <2>2, <3>1
  <2>4. ASSUME NEW p \in r.pipelines PROVE p[1] \in Shaders
    <3>1. PICK k \in Shaders : p = <<k, cache[k]>>
      BY <2>1
    <3>2. QED BY <2>2, <3>1
  <2>5. QED BY <2>3, <2>4
<1>7. Sound(r)
  BY <1>4, <1>5 DEF Sound, CacheInv
<1>8. \A x : Sound(x) => Sound(x)'
  BY <1>0, <1>1 DEF Sound, InStore, updateVars
<1>9. ASSUME NEW k \in 1 .. Len(gpu) PROVE Sound(recorded[gpu[k].image])'
  <2>1. gpu[k].image # i
    BY <1>0, SwapHolds DEF RecordingIsExclusive, InFlight
  <2>2. recorded'[gpu[k].image] = recorded[gpu[k].image]
    BY <1>1, <2>1
  <2>3. QED BY <1>0, <1>8, <2>2 DEF RecordInv
<1>10. recorded'[i] = r /\ DOMAIN recorded' = Images
  BY <1>0, <1>1
<1>11. RecordInv'
  BY <1>0, <1>1, <1>3, <1>6, <1>7, <1>8, <1>9, <1>10 DEF RecordInv, updateVars
<1>12. QED BY <1>2, <1>3, <1>10, <1>11

LEMMA GpuKeeps == FrameInv /\ GpuWorks /\ SwapInv' => FrameInv'
<1> SUFFICES ASSUME FrameInv, GpuWorks, SwapInv' PROVE FrameInv'
  OBVIOUS
<1> USE DEF FrameInv
<1>0. /\ UNCHANGED <<generation, draw, updateVars, text, glyphBuffer, uploadNeeded>>
      /\ recorded' = [recorded EXCEPT ![Head(gpu).image] = NothingRecorded]
  BY DEF GpuWorks, Complete
<1>1. CacheInv' /\ GroupInv' /\ GlyphInv'
  BY <1>0 DEF CacheInv, GroupInv, GlyphInv, updateVars
<1>2. \A x : Sound(x) => Sound(x)'
  BY <1>0 DEF Sound, InStore, updateVars
<1>3. gpu \in Seq(Submissions) /\ gpu # <<>> /\ gpu' = Tail(gpu)
  BY DEF SwapInv, ChainTypes, GpuType, GpuWorks, Complete
<1>4. Len(gpu) \in Nat \ {0} /\ Head(gpu) = gpu[1] /\ 1 \in 1 .. Len(gpu)
  BY <1>3
<1>5. ASSUME NEW k \in 1 .. Len(gpu') PROVE Sound(recorded[gpu[k].image])'
  <2>1. gpu'[k] = gpu[k + 1] /\ k + 1 \in 1 .. Len(gpu) /\ k + 1 # 1
    BY <1>3, <1>4
  <2>2. gpu[k + 1].image # gpu[1].image
    BY <1>4, <2>1 DEF SwapInv, GpuInv
  <2>3. recorded'[gpu'[k].image] = recorded[gpu[k + 1].image]
    BY <1>0, <1>4, <2>1, <2>2
  <2>4. QED BY <1>2, <2>1, <2>3 DEF RecordInv
<1>6. draw.at = "presenting" => recorded'[draw.image] = recorded[draw.image]
  BY <1>0, <1>4, SwapHolds DEF RecordingIsExclusive, InFlight
<1>7. RecordInv'
  BY <1>0, <1>2, <1>5, <1>6 DEF RecordInv, updateVars
<1>8. QED BY <1>0, <1>1, <1>7

LEMMA FrameStep == FrameInv /\ [FrameNext]_frameVars => FrameInv'
<1> SUFFICES ASSUME FrameInv, [FrameNext]_frameVars PROVE FrameInv'
  OBVIOUS
<1>0. SwapInv' /\ DrawType /\ text.atlas \in Nat
  BY StepOfSwapchain, SwapStep DEF FrameInv, SwapInv, ChainTypes, GlyphInv
<1> USE DEF Prepared, updateVars, rendererVars, windowVars
<1>1. CASE Update
  BY <1>0, <1>1, UpdateKeeps
<1>2. CASE RecordFrame
  BY <1>0, <1>2, RecordKeeps
<1>3. CASE GpuWorks
  BY <1>0, <1>3, GpuKeeps
<1>4. CASE ShowFrame
  <2>1. /\ UNCHANGED Prepared /\ text' = text /\ draw.at = "presenting"
        /\ gpu' = Append(gpu, Submission) /\ draw' = Outside
    BY <1>4 DEF ShowFrame, Present, Submit
  <2>2. QED BY <1>0, <2>1, DrawsHold, QuietKeeps
<1>5. CASE DrawGoesOn
  <2>1. UNCHANGED Prepared /\ text' = text
    BY <1>5 DEF DrawGoesOn, StayMinimised, IndexNothing, SkipFrame, FindOutOfDate, OwnImage,
                PresentOutOfDate, Submit, chainVars
  <2>2. CASE StayMinimised \/ IndexNothing \/ SkipFrame \/ FindOutOfDate \/ OwnImage
    <3>1. /\ draw.at # "out" /\ gpu' = gpu
          /\ \/ draw' = Outside
             \/ draw' = [draw EXCEPT !.at = "lost"]
             \/ draw' = [draw EXCEPT !.at = "recording"]
      BY <2>2 DEF StayMinimised, IndexNothing, SkipFrame, FindOutOfDate, OwnImage, Acquiring
    <3>2. "lost" \in DrawPlaces /\ "recording" \in DrawPlaces
      BY DEF DrawPlaces
    <3>3. draw'.at \in {"out", "lost", "recording"}
      <4>1. draw \in Draws
        BY <1>0 DEF DrawType
      <4>2. CASE draw' = Outside
        BY <4>2, DrawsHold
      <4>3. CASE draw' = [draw EXCEPT !.at = "lost"]
        BY <3>2, <4>1, <4>3, DrawsHold
      <4>4. CASE draw' = [draw EXCEPT !.at = "recording"]
        BY <3>2, <4>1, <4>4, DrawsHold
      <4>5. QED BY <3>1, <4>2, <4>3, <4>4
    <3>4. QED BY <1>0, <2>1, <3>1, <3>3, QuietKeeps
  <2>3. CASE PresentOutOfDate
    <3>1. draw.at = "presenting" /\ gpu' = Append(gpu, Submission) /\ draw' = Outside
      BY <2>3 DEF PresentOutOfDate, Submit
    <3>2. QED BY <1>0, <2>1, <3>1, DrawsHold, QuietKeeps
  <2>4. QED BY <1>5, <2>2, <2>3 DEF DrawGoesOn
<1>6. CASE FailFrame
  <2>1. UNCHANGED Prepared /\ text' = text /\ gpu' = gpu /\ draw' = Outside
    BY <1>6 DEF FailFrame, LoseFrame, chainVars
  <2>2. QED BY <1>0, <2>1, DrawsHold, QuietKeeps
<1>7. ASSUME NEW i \in Images, TakeImage(i) PROVE FrameInv'
  <2>1. UNCHANGED Prepared /\ text' = text /\ gpu' = gpu /\ draw.at = "in"
    BY <1>7 DEF TakeImage, Acquire, Acquiring
  <2>2. PICK b \in BOOLEAN : draw' = [at |-> "waiting", image |-> i, again |-> b]
    BY <1>7 DEF TakeImage, Acquire
  <2>3. QED BY <1>0, <2>1, <2>2, DrawsHold, QuietKeeps
<1>8. ASSUME NEW n \in 0 .. Len(Stages), ApplyResize(n) \/ RecreateInFrame(n) PROVE FrameInv'
  BY <1>0, <1>8, RebuildKeepsFrame DEF ApplyResize, RecreateInFrame, Resize, Recreate
<1>9. CASE \/ IgnoreResize \/ UNCHANGED frameVars
           \/ \E s \in Sizes \cup {Minimised} : WindowResized(s)
           \/ \E g \in {0, 1} : Edit(g)
  <2>1. UNCHANGED Prepared /\ gpu' = gpu /\ draw' = draw
    BY <1>9 DEF IgnoreResize, frameVars, WindowResized, SurfaceBecomes, Edit, swapchainVars,
                chainVars
  <2>2. text'.atlas \in Nat
    BY <1>0, <1>9 DEF IgnoreResize, frameVars, WindowResized, Edit
  <2>3. QED BY <1>0, <2>1, <2>2, QuietKeeps
<1>10. QED BY <1>1, <1>2, <1>3, <1>4, <1>5, <1>6, <1>7, <1>8, <1>9 DEF FrameNext

LEMMA FrameHolds == FrameInv => FramesAreSound
<1> SUFFICES ASSUME FrameInv PROVE FramesAreSound
  OBVIOUS
<1>1. FrameIsCurrent
  BY DEF FrameInv, RecordInv, GlyphInv, FrameIsCurrent
<1>2. ASSUME NEW s \in InFlight, NEW p \in recorded[s.image].pipelines
      PROVE  InStore(p) \/ p[2] < recorded[s.image].on
  <2>1. PICK k \in 1 .. Len(gpu) : s = gpu[k]
    BY DEF InFlight
  <2>2. Sound(recorded[s.image])
    BY <2>1 DEF FrameInv, RecordInv
  <2>3. QED BY <2>2 DEF Sound, FrameInv, CacheInv
<1>3. QED BY <1>1, <1>2 DEF FramesAreSound, OnlyStalePipelinesDieInFlight

(* The frame loop keeps to the protocol of the swapchain: no event of the  *)
(* window and no update() comes between its steps in a way it does not     *)
(* provide for.                                                            *)
THEOREM FramesUseTheSwapchain == FrameSpec => SwapchainSpec
<1>1. FrameInit => SwapchainInit
  BY DEF FrameInit
<1>2. QED BY <1>1, StepOfSwapchain, PTL DEF FrameSpec, SwapchainSpec

(* Every frame that is submitted draws what is current, and loses under    *)
(* way at most pipelines of an earlier swapchain.                          *)
THEOREM FramesStaySound == FrameSpec => []FramesAreSound
<1>1. FrameSpec => []FrameInv
  BY FrameStarts, FrameStep, PTL DEF FrameSpec
<1>2. QED BY <1>1, FrameHolds, PTL

-----------------------------------------------------------------------------
(* The input handlers and the messages: InputArrives                       *)

(* While something has the focus, a key that moves the camera was pressed  *)
(* then or let go elsewhere: a click has stopped all others.               *)
KeysInv ==
    /\ moving \subseteq MoveKeys
    /\ focused # Nothing => moving \subseteq opened \cup lost
    /\ focused = Nothing => dragged = Nothing
    /\ focused \in Entities \cup {Nothing}
KeyboardInv == KeysInv /\ InputFollowsFocus

LEMMA InputStarts == InputInit => KeyboardInv
BY InputAssumption DEF InputInit, KeyboardInv, KeysInv, InputFollowsFocus, NoKeyIsStuck, FocusIsShown

LEMMA FocusStaysShown ==
    ASSUME KeyboardInv, NEW e \in Entities \cup {Nothing}, SetFocusedEntity(e)
    PROVE  /\ FocusIsShown' /\ focused' = e /\ focused' \in Entities \cup {Nothing}
           /\ focused' = Nothing => dragged' = Nothing
BY InputAssumption DEF KeyboardInv, KeysInv, InputFollowsFocus, FocusIsShown, SetFocusedEntity,
   focusVars, Framed, Entities

LEMMA InputSteps == KeyboardInv /\ [InputNext]_inputVars => KeyboardInv'
<1> SUFFICES ASSUME KeyboardInv, [InputNext]_inputVars PROVE KeyboardInv'
  OBVIOUS
<1> USE DEF KeyboardInv, KeysInv, InputFollowsFocus, NoKeyIsStuck
<1>1. ASSUME NEW e \in Entities \cup {Nothing}, LeftDown(e) PROVE KeyboardInv'
  <2>1. CASE ctrlHeld
    BY <1>1, <2>1 DEF LeftDown, focusVars, FocusIsShown
  <2>2. CASE ~ctrlHeld
    BY <1>1, <2>2, FocusStaysShown DEF LeftDown
  <2>3. QED BY <2>1, <2>2
<1>2. CASE EscapeDown
  <2>1. SetFocusedEntity(Nothing) /\ UNCHANGED <<ctrlHeld, moving, cameraDrag, opened>>
        /\ Press("escape")
    BY <1>2 DEF EscapeDown
  <2>2. QED BY <2>1, FocusStaysShown, InputAssumption DEF Press
<1>3. CASE RightDown \/ RightUp
  BY <1>3, InputAssumption DEF RightDown, RightUp, focusVars, FocusIsShown
<1>4. CASE ControlDown
  BY <1>4, InputAssumption DEF ControlDown, Press, focusVars, FocusIsShown
<1>5. CASE AltDown
  BY <1>5, InputAssumption DEF AltDown, Press, FocusIsShown
<1>6. ASSUME NEW k \in MoveKeys, MoveKeyDown(k) PROVE KeyboardInv'
  BY <1>6, InputAssumption DEF MoveKeyDown, Press, focusVars, FocusIsShown
<1>7. ASSUME NEW k \in pressed, KeyUp(k) PROVE KeyboardInv'
  BY <1>7, InputAssumption DEF KeyUp, Unlocked, focusVars, FocusIsShown
<1>8. CASE LoseKeyboard
  BY <1>8, InputAssumption DEF LoseKeyboard, focusVars, FocusIsShown
<1>9. CASE UNCHANGED inputVars
  BY <1>9 DEF inputVars, focusVars, FocusIsShown
<1>10. QED BY <1>1, <1>2, <1>3, <1>4, <1>5, <1>6, <1>7, <1>8, <1>9 DEF InputNext

-----------------------------------------------------------------------------
(* What windows are waited at for the mouse to leave, and the half of a    *)
(* character that is kept.                                                 *)
TrackInv ==
    /\ tracking \subseteq Panes
    /\ leaving \cup armed = tracking /\ leaving \cap armed = {}
    /\ armed \subseteq {under}
    /\ entered = [h \in Handlers |-> entered[h]]
    /\ \A h \in Handlers : IsFiniteSet(Inside(tracking, h))
HalfInv == (pending => before = "high") /\ CharactersStayWhole
MessageInv == TrackInv /\ MouseIsFollowed /\ HalfInv

LEMMA OnIsFinite ==
    ASSUME NEW p \in Panes, NEW h \in Handlers
    PROVE  /\ IsFiniteSet({p} \X On(p, h)) /\ Cardinality(On(p, h)) \in Nat
           /\ Cardinality({p} \X On(p, h)) = Cardinality(On(p, h))
<1>1. Listeners[p] \in Seq(Handlers)
  BY PaneAssumption
<1>2. IsFiniteSet(1 .. Len(Listeners[p]))
  BY <1>1, FS_Interval
<1>3. IsFiniteSet(On(p, h))
  BY <1>1, <1>2, FS_Subset DEF On
<1>4. IsFiniteSet({p}) /\ Cardinality({p}) = 1
  BY FS_Singleton
<1>5. Cardinality(On(p, h)) \in Nat
  BY <1>3, FS_CardinalityType
<1>6. QED BY <1>3, <1>4, <1>5, FS_Product

LEMMA OneMoreInside ==
    ASSUME NEW panes \in SUBSET Panes, NEW p \in Panes \ panes, NEW h \in Handlers,
           IsFiniteSet(Inside(panes, h)) \/ IsFiniteSet(Inside(panes \cup {p}, h))
    PROVE  /\ IsFiniteSet(Inside(panes, h)) /\ IsFiniteSet(Inside(panes \cup {p}, h))
           /\ Cardinality(Inside(panes, h)) \in Nat
           /\ Cardinality(Inside(panes \cup {p}, h)) =
                  Cardinality(Inside(panes, h)) + Cardinality(On(p, h))
<1> DEFINE A == Inside(panes, h)
           B == {p} \X On(p, h)
<1>1. Inside(panes \cup {p}, h) = A \cup B
  BY DEF Inside
<1>2. A \cap B = {}
  BY DEF Inside
<1>3. IsFiniteSet(B) /\ Cardinality(B) = Cardinality(On(p, h)) /\ Cardinality(B) \in Nat
  BY OnIsFinite
<1>4. IsFiniteSet(A)
  BY <1>1, FS_Subset
<1>5. IsFiniteSet(A \cup B) /\ Cardinality(A \cup B)
          = Cardinality(A) + Cardinality(B) - Cardinality(A \cap B)
  BY <1>3, <1>4, FS_Union
<1>6. Cardinality(A \cap B) = 0 /\ Cardinality(A) \in Nat
  BY <1>2, <1>4, FS_EmptySet, FS_CardinalityType
<1>7. Cardinality(A \cup B) = Cardinality(A) + Cardinality(On(p, h))
  <2> HIDE DEF A, B
  <2>1. QED BY <1>3, <1>5, <1>6
<1>8. QED BY <1>1, <1>4, <1>5, <1>6, <1>7, Zenon

LEMMA PanesStart == PaneInit => MessageInv
<1> SUFFICES ASSUME PaneInit PROVE MessageInv
  OBVIOUS
<1>1. \A h \in Handlers : Inside(tracking, h) = {}
  BY DEF PaneInit, Inside
<1>2. IsFiniteSet({}) /\ Cardinality({}) = 0
  BY FS_EmptySet
<1>3. TrackInv
  BY <1>1, <1>2 DEF PaneInit, TrackInv
<1>4. MouseIsFollowed
  BY <1>1, <1>2 DEF PaneInit, MouseIsFollowed
<1>5. QED BY <1>3, <1>4 DEF PaneInit, MessageInv, HalfInv, CharactersStayWhole

LEMMA PaneSteps == MessageInv /\ [PaneNext]_paneVars => MessageInv'
<1> SUFFICES ASSUME MessageInv, [PaneNext]_paneVars PROVE MessageInv'
  OBVIOUS
<1>1. CASE UNCHANGED <<tracking, armed, leaving, under, button, entered, holding, elsewhere>>
           /\ HalfInv'
  BY <1>1 DEF MessageInv, TrackInv, MouseIsFollowed
<1>2. CASE UNCHANGED mouseVars /\ UNCHANGED textVars
  BY <1>1, <1>2 DEF mouseVars, textVars, MessageInv, HalfInv, CharactersStayWhole
<1>3. ASSUME NEW p \in Panes,
             CreateFpsOverlay(p) \/ RunFrame(p) \/ SizeOrMove(p) \/ ToggleOverlayVisibility(p)
      PROVE  MessageInv'
  BY <1>2, <1>3 DEF CreateFpsOverlay, RunFrame, SizeOrMove, ToggleOverlayVisibility
<1>4. CASE UNCHANGED textVars
  <2>1. HalfInv'
    BY <1>4 DEF textVars, MessageInv, HalfInv, CharactersStayWhole
  <2>2. ASSUME NEW p \in Panes, NEW fails \in BOOLEAN, MouseMove(p, fails) PROVE MessageInv'
    <3>1. CASE p \in tracking \/ fails
      BY <1>1, <2>1, <2>2, <3>1 DEF MouseMove
    <3>2. CASE ~(p \in tracking \/ fails)
      <4>1. /\ under = p /\ p \notin leaving /\ tracking' = tracking \cup {p}
            /\ armed' = armed \cup {p} /\ entered' = Dispatched(entered, p, 1)
            /\ UNCHANGED <<leaving, under, button, holding, elsewhere>>
        BY <2>2, <3>2 DEF MouseMove
      <4>2. ASSUME NEW h \in Handlers
            PROVE  /\ IsFiniteSet(Inside(tracking', h))
                   /\ entered'[h] = Cardinality(Inside(tracking', h))
        <5>1. Cardinality(On(p, h)) \in Nat
          BY OnIsFinite
        <5>2. entered'[h] = entered[h] + 1 * Cardinality(On(p, h))
          BY <4>1 DEF Dispatched
        <5>3. /\ IsFiniteSet(Inside(tracking \cup {p}, h))
              /\ Cardinality(Inside(tracking \cup {p}, h)) =
                     Cardinality(Inside(tracking, h)) + Cardinality(On(p, h))
          BY <3>2, OneMoreInside DEF MessageInv, TrackInv
        <5>4. entered[h] = Cardinality(Inside(tracking, h)) /\ Cardinality(Inside(tracking, h)) \in Nat
          BY <3>2, OneMoreInside DEF MessageInv, TrackInv, MouseIsFollowed
        <5>5. QED BY <4>1, <5>1, <5>2, <5>3, <5>4
      <4>3. TrackInv'
        BY <3>2, <4>1, <4>2 DEF MessageInv, TrackInv, Dispatched
      <4>4. MouseIsFollowed'
        BY <4>1, <4>2 DEF MessageInv, TrackInv, MouseIsFollowed
      <4>5. QED BY <2>1, <4>3, <4>4 DEF MessageInv
    <3>3. QED BY <3>1, <3>2
  <2>3. ASSUME NEW p \in Panes, MouseLeave(p) PROVE MessageInv'
    <3>1. /\ p \in leaving /\ leaving' = leaving \ {p} /\ tracking' = tracking \ {p}
          /\ entered' = Dispatched(entered, p, -1)
          /\ UNCHANGED <<armed, under, button, holding, elsewhere>>
      BY <2>3 DEF MouseLeave
    <3>2. /\ tracking' \in SUBSET Panes /\ p \in Panes \ tracking' /\ tracking = tracking' \cup {p}
      BY <3>1 DEF MessageInv, TrackInv
    <3>3. ASSUME NEW h \in Handlers
          PROVE  /\ IsFiniteSet(Inside(tracking', h))
                 /\ entered'[h] = Cardinality(Inside(tracking', h))
      <4>1. /\ IsFiniteSet(Inside(tracking', h)) /\ Cardinality(Inside(tracking', h)) \in Nat
            /\ Cardinality(Inside(tracking, h)) =
                   Cardinality(Inside(tracking', h)) + Cardinality(On(p, h))
        <5>1. IsFiniteSet(Inside(tracking, h))
          BY DEF MessageInv, TrackInv
        <5>2. IsFiniteSet(Inside(tracking' \cup {p}, h))
          BY <3>2, <5>1, Zenon
        <5>3. /\ IsFiniteSet(Inside(tracking', h)) /\ Cardinality(Inside(tracking', h)) \in Nat
              /\ Cardinality(Inside(tracking' \cup {p}, h)) =
                     Cardinality(Inside(tracking', h)) + Cardinality(On(p, h))
          BY <3>2, <5>2, OneMoreInside
        <5>4. QED BY <3>2, <5>3, Zenon
      <4>2. Cardinality(On(p, h)) \in Nat
        BY OnIsFinite
      <4>3. entered'[h] = entered[h] + (-1) * Cardinality(On(p, h))
        BY <3>1 DEF Dispatched
      <4>4. QED BY <4>1, <4>2, <4>3 DEF MessageInv, MouseIsFollowed
    <3>4. TrackInv'
      BY <3>1, <3>2, <3>3 DEF MessageInv, TrackInv, Dispatched
    <3>5. MouseIsFollowed'
      BY <3>1, <3>3 DEF MessageInv, TrackInv, MouseIsFollowed
    <3>6. QED BY <2>1, <3>4, <3>5 DEF MessageInv
  <2>4. ASSUME NEW to, MouseGoes(to) PROVE MessageInv'
    <3>1. /\ under' = to /\ leaving' = leaving \cup ({under} \cap armed) /\ armed' = armed \ {under}
          /\ UNCHANGED <<tracking, button, entered, holding, elsewhere>>
      BY <2>4 DEF MouseGoes
    <3>2. armed' = {} /\ leaving' = tracking
      BY <3>1 DEF MessageInv, TrackInv
    <3>3. TrackInv' /\ MouseIsFollowed'
      BY <3>1, <3>2 DEF MessageInv, TrackInv, MouseIsFollowed
    <3>4. QED BY <2>1, <3>3 DEF MessageInv
  <2>5. CASE MouseButtonDown \/ MouseButtonUp
    <3>1. /\ UNCHANGED <<tracking, armed, leaving, under, entered>>
          /\ ~button' => holding' \subseteq elsewhere'
      BY <2>5 DEF MouseButtonDown, MouseButtonUp
    <3>2. TrackInv' /\ MouseIsFollowed'
      BY <3>1 DEF MessageInv, TrackInv, MouseIsFollowed
    <3>3. QED BY <2>1, <3>2 DEF MessageInv
  <2>6. CASE MouseNext
    BY <1>3, <2>2, <2>3, <2>4, <2>5, <2>6 DEF MouseNext
  <2>7. CASE UNCHANGED paneVars
    BY <1>2, <2>7 DEF paneVars
  <2>8. CASE TextNext
    <3>1. UNCHANGED mouseVars
      BY <2>8 DEF TextNext, Type, DecodeUtf16CodeUnit
    <3>2. QED BY <1>2, <1>4, <3>1
  <2>9. QED BY <2>6, <2>7, <2>8 DEF PaneNext
<1>5. CASE TextNext
  <2>1. UNCHANGED mouseVars
    BY <1>5 DEF TextNext, Type, DecodeUtf16CodeUnit
  <2>2. ASSUME NEW units, Type(units) PROVE HalfInv'
    <3>1. UNCHANGED <<pending, before, torn>>
      BY <2>2 DEF Type
    <3>2. QED BY <3>1 DEF MessageInv, HalfInv, CharactersStayWhole
  <2>3. ASSUME DecodeUtf16CodeUnit PROVE HalfInv'
    <3>1. PICK unit : /\ pending' = Remembers(unit) /\ before' = unit
                      /\ torn' = (torn \/ (unit = "low" /\ pending /\ before # "high"))
      BY <2>3, Zenon DEF DecodeUtf16CodeUnit
    <3>2. (pending => before = "high") /\ ~torn
      BY DEF MessageInv, HalfInv, CharactersStayWhole
    <3>3. QED BY <3>1, <3>2 DEF Remembers, HalfInv, CharactersStayWhole
  <2>4. HalfInv'
    BY <1>5, <2>2, <2>3 DEF TextNext
  <2>5. QED BY <1>1, <2>1, <2>4 DEF mouseVars
<1>6. CASE MouseNext \/ UNCHANGED paneVars
  <2>1. UNCHANGED textVars
    BY <1>6 DEF MouseNext, paneVars, CreateFpsOverlay, RunFrame, SizeOrMove,
       ToggleOverlayVisibility, MouseMove, MouseLeave, MouseGoes, MouseButtonDown, MouseButtonUp
  <2>2. QED BY <1>4, <2>1
<1>7. QED BY <1>5, <1>6 DEF PaneNext

-----------------------------------------------------------------------------
LEMMA HandlersStep ==
    [Next]_shellVars => [InputNext]_inputVars /\ [PaneNext]_paneVars
BY DEF Next, shellVars, PaneNext

(* RunWindowTask and WinAPIComponent: no key moves the camera for an       *)
(* entity that took the focus, the focus is shown where it is, and each    *)
(* handler follows the mouse and whole characters through any windows.     *)
THEOREM InputStaysTrue == Spec => []InputArrives
<1>1. Init => KeyboardInv /\ MessageInv
  BY InputStarts, PanesStart DEF Init
<1>2. KeyboardInv /\ MessageInv => InputArrives
  BY DEF KeyboardInv, MessageInv, HalfInv, InputArrives, MessagesAreHeard
<1>3. QED BY <1>1, <1>2, HandlersStep, InputSteps, PaneSteps, PTL DEF Spec

-----------------------------------------------------------------------------
(* The program as a whole.  What the GPU's queue holds is an upload or a   *)
(* frame; of the frame's shapes only their textures matter here.           *)
SentOf(S) ==
    [kind : {"upload"}, texture : S, texel : S, done : BOOLEAN]
        \cup [kind : {"frame"}, drawn : S, atlas : S, generation : S, done : BOOLEAN]
Sent(s) == \E S : s \in SentOf(S)

(* What is in the queue, done or not, has its memory: nothing an upload    *)
(* reads from is dropped before, and no texture with a descriptor set is.  *)
Supplied(st, s) ==
    IF s.kind = "upload" THEN Staging(s) \in st.stagings
    ELSE \A e \in DOMAIN s.drawn : s.drawn[e].texture \in st.sets \cup {0}
QueueHolds(queue, st) ==
    /\ \E S : queue \in Seq(S)
    /\ \A k \in DOMAIN queue : Sent(queue[k]) /\ Supplied(st, queue[k])

(* Handles are given out in order, so that the atlas, which has no set of  *)
(* its own in the store, is not a picture's texture.                       *)
StoreHolds(st, glyphs) ==
    /\ st = [next |-> st.next, textures |-> st.textures, sets |-> st.sets, stagings |-> st.stagings]
    /\ st.next \in Nat \ {0}
    /\ st.sets \subseteq st.textures \cap (1 .. st.next - 1)
    /\ glyphs \in (0 .. st.next - 1) \ st.sets
SceneInv ==
    /\ QueueHolds(gpuQueue, store) /\ StoreHolds(store, atlas.texture)
    /\ atlas.texture = 0 => atlas.tracked = 0

LEMMA LeastIndex == ASSUME NEW I \in SUBSET Nat, I # {} PROVE Min(I) \in I
<1>1. PICK i \in I : \A j \in I : ~(<<j, i>> \in OpToRel(<, Nat))
  BY NatLessThanWellFounded, WFMin, Zenon
<1>2. \A j \in I : ~(j < i)
  BY <1>1 DEF OpToRel
<1>3. \A j \in I : i <= j
  BY <1>2
<1> QED BY <1>3 DEF Min

(* What is done stays what it was, and what leaves the queue is done.      *)
LEMMA MarkedDone ==
    ASSUME NEW s, Sent(s), NEW t, t = [s EXCEPT !.done = TRUE]
    PROVE  /\ Sent(t) /\ t.kind = s.kind
           /\ s.kind = "upload" => t.texture = s.texture /\ t.texel = s.texel
           /\ s.kind # "upload" => t.drawn = s.drawn
<1>1. PICK S : s \in SentOf(S)
  BY DEF Sent
<1>2. CASE s \in [kind : {"upload"}, texture : S, texel : S, done : BOOLEAN]
  <2>1. /\ t \in [kind : {"upload"}, texture : S, texel : S, done : BOOLEAN]
        /\ t.kind = s.kind /\ t.texture = s.texture /\ t.texel = s.texel /\ s.kind = "upload"
    BY <1>2
  <2> QED BY <2>1 DEF Sent, SentOf
<1>3. CASE s \in [kind : {"frame"}, drawn : S, atlas : S, generation : S, done : BOOLEAN]
  <2>1. /\ t \in [kind : {"frame"}, drawn : S, atlas : S, generation : S, done : BOOLEAN]
        /\ t.kind = s.kind /\ t.drawn = s.drawn /\ s.kind = "frame"
    BY <1>3
  <2> QED BY <2>1 DEF Sent, SentOf
<1> QED BY <1>1, <1>2, <1>3 DEF SentOf

LEMMA ThroughIs ==
    ASSUME NEW S, NEW queue \in Seq(S)
    PROVE  /\ Through(queue) \in Seq(S)
           /\ \A k \in DOMAIN Through(queue) : \E j \in DOMAIN queue : Through(queue)[k] = queue[j]
<1> DEFINE I == {i \in 1 .. Len(queue) : ~queue[i].done}
           first == Min(I)
<1>1. I \in SUBSET Nat /\ I \subseteq 1 .. Len(queue)
  OBVIOUS
<1>2. I # {} => first \in 1 .. Len(queue)
  <2> HIDE DEF I
  <2> QED BY <1>1, LeastIndex
<1>3. Through(queue) = IF I = {} THEN <<>> ELSE SubSeq(queue, first, Len(queue))
  <2>1. SelectInSeq(queue, LAMBDA s : ~s.done) = IF I # {} THEN first ELSE 0
    BY DEF SelectInSeq
  <2> HIDE DEF I, first
  <2> QED BY <1>2, <2>1 DEF Through
<1>4. CASE I = {}
  BY <1>3, <1>4
<1>5. CASE I # {}
  <2>1. first \in 1 .. Len(queue)
    BY <1>2, <1>5
  <2> HIDE DEF first, I
  <2>2. Through(queue) = SubSeq(queue, first, Len(queue))
    BY <1>3, <1>5
  <2>3. SubSeq(queue, first, Len(queue)) \in Seq(S)
    BY <2>1
  <2>4. /\ DOMAIN Through(queue) = 1 .. Len(queue) - first + 1
        /\ \A k \in DOMAIN Through(queue) : Through(queue)[k] = queue[first + k - 1]
    BY <2>1, <2>2, <2>3
  <2> QED BY <2>1, <2>2, <2>3, <2>4
<1> QED BY <1>4, <1>5

LEMMA FinishKeeps ==
    ASSUME SceneInv, NEW k \in DOMAIN gpuQueue, Finish(k), UNCHANGED <<store, atlas>>
    PROVE  SceneInv'
<1> DEFINE marked == [gpuQueue EXCEPT ![k].done = TRUE]
<1>1. PICK S : gpuQueue \in Seq(S)
  BY DEF SceneInv, QueueHolds
<1>2. /\ marked \in Seq(S \cup {[gpuQueue[k] EXCEPT !.done = TRUE]})
      /\ DOMAIN marked = DOMAIN gpuQueue
      /\ \A j \in DOMAIN gpuQueue : marked[j] = IF j = k THEN [gpuQueue[k] EXCEPT !.done = TRUE] ELSE gpuQueue[j]
  BY <1>1
<1>3. gpuQueue' = Through(marked)
  BY DEF Finish
<1>4. ASSUME NEW j \in DOMAIN marked PROVE Sent(marked[j]) /\ Supplied(store, marked[j])
  <2>1. CASE j = k
    <3> DEFINE t == [gpuQueue[k] EXCEPT !.done = TRUE]
    <3>1. Sent(gpuQueue[k]) /\ Supplied(store, gpuQueue[k]) /\ marked[j] = t
      BY <1>2, <2>1 DEF SceneInv, QueueHolds
    <3>2. /\ Sent(t) /\ t.kind = gpuQueue[k].kind
          /\ gpuQueue[k].kind = "upload" => t.texture = gpuQueue[k].texture /\ t.texel = gpuQueue[k].texel
          /\ gpuQueue[k].kind # "upload" => t.drawn = gpuQueue[k].drawn
      BY <3>1, MarkedDone
    <3> HIDE DEF t, marked
    <3> QED BY <3>1, <3>2 DEF Supplied, Staging
  <2>2. CASE j # k
    BY <1>2, <2>2 DEF SceneInv, QueueHolds
  <2> QED BY <2>1, <2>2
<1> HIDE DEF marked
<1>5. /\ gpuQueue' \in Seq(S \cup {[gpuQueue[k] EXCEPT !.done = TRUE]})
      /\ \A i \in DOMAIN gpuQueue' : \E j \in DOMAIN marked : gpuQueue'[i] = marked[j]
  BY <1>2, <1>3, ThroughIs
<1>6. QueueHolds(gpuQueue', store')
  BY <1>4, <1>5 DEF QueueHolds
<1> QED BY <1>6 DEF SceneInv

LEMMA CreateKeeps ==
    ASSUME NEW st, NEW glyphs, StoreHolds(st, glyphs)
    PROVE  LET made == CreateTexture(st) IN
           /\ StoreHolds(made, glyphs) /\ made.next = st.next + 1 /\ made.sets = st.sets
           /\ made.stagings = st.stagings /\ st.next \in made.textures
<1>1. CreateTexture(st) = [next |-> st.next + 1, textures |-> st.textures \cup {st.next},
                           sets |-> st.sets, stagings |-> st.stagings]
  <2>1. PICK n, T, D, G : st = [next |-> n, textures |-> T, sets |-> D, stagings |-> G]
    BY DEF StoreHolds
  <2>2. st.next = n /\ st.textures = T /\ st.sets = D /\ st.stagings = G /\ n \in Nat
    BY <2>1 DEF StoreHolds
  <2>3. CreateTexture(st) = [next |-> n + 1, textures |-> T \cup {n}, sets |-> D, stagings |-> G]
    <3> DEFINE m == [st EXCEPT !.next = n + 1]
    <3>1. m = [next |-> n + 1, textures |-> T, sets |-> D, stagings |-> G]
      BY <2>1
    <3> HIDE DEF m
    <3>2. CreateTexture(st) = [m EXCEPT !.textures = m.textures \cup {n}]
      BY <2>2 DEF CreateTexture, m
    <3>3. m.textures = T
      BY <3>1
    <3> QED BY <3>1, <3>2, <3>3
  <2> QED BY <2>2, <2>3
<1> QED BY <1>1 DEF StoreHolds

(* uploadTexture() drops a staging buffer only when its fence says so.     *)
LEMMA UploadKeeps ==
    ASSUME NEW st, NEW glyphs, StoreHolds(st, glyphs), QueueHolds(gpuQueue, st), NEW texture, NEW texel
    PROVE  LET u == Upload(texture, texel)
               given == Uploading(st, u)
           IN /\ StoreHolds(given, glyphs) /\ QueueHolds(Append(gpuQueue, u), given)
              /\ given.next = st.next /\ given.sets = st.sets /\ given.textures = st.textures
<1> DEFINE u == Upload(texture, texel)
           given == Uploading(st, u)
<1>1. given = [next |-> st.next, textures |-> st.textures, sets |-> st.sets,
               stagings |-> Unfinished(st.stagings) \cup {Staging(u)}]
  BY DEF StoreHolds, Uploading
<1>2. Sent(u) /\ u.kind = "upload"
  <2>1. u \in SentOf({texture, texel})
    BY DEF Upload, SentOf
  <2> QED BY <2>1 DEF Sent, Upload
<1> HIDE DEF u, given
<1>3. PICK S : gpuQueue \in Seq(S)
  BY DEF QueueHolds
<1>4. /\ Append(gpuQueue, u) \in Seq(S \cup {u})
      /\ \A k \in DOMAIN Append(gpuQueue, u) :
            (k \in DOMAIN gpuQueue /\ Append(gpuQueue, u)[k] = gpuQueue[k]) \/ Append(gpuQueue, u)[k] = u
  BY <1>3
<1>5. ASSUME NEW k \in DOMAIN gpuQueue PROVE Supplied(given, gpuQueue[k])
  <2>1. Supplied(st, gpuQueue[k]) /\ given.sets = st.sets
    BY <1>1 DEF QueueHolds
  <2>2. gpuQueue[k].kind = "upload" => Staging(gpuQueue[k]) \in Unfinished(st.stagings)
    BY <2>1 DEF Supplied, Unfinished, Signalled
  <2> QED BY <1>1, <2>1, <2>2 DEF Supplied
<1>6. QueueHolds(Append(gpuQueue, u), given)
  <2>1. Supplied(given, u)
    BY <1>1, <1>2 DEF Supplied
  <2> QED BY <1>2, <1>4, <1>5, <2>1 DEF QueueHolds
<1>7. StoreHolds(given, glyphs)
  BY <1>1 DEF StoreHolds
<1> QED BY <1>1, <1>6, <1>7 DEF u, given

LEMMA SetKeeps ==
    ASSUME NEW st, NEW glyphs, StoreHolds(st, glyphs), NEW queue, QueueHolds(queue, st),
           NEW texture \in st.textures, texture \in 1 .. st.next - 1, texture # glyphs
    PROVE  StoreHolds(WithSet(st, texture), glyphs) /\ QueueHolds(queue, WithSet(st, texture))
<1>1. CASE Full(st)
  BY <1>1 DEF WithSet
<1>2. CASE ~Full(st)
  <2>1. WithSet(st, texture) = [next |-> st.next, textures |-> st.textures,
                                sets |-> st.sets \cup {texture}, stagings |-> st.stagings]
    BY <1>2 DEF WithSet, StoreHolds
  <2> QED BY <2>1 DEF StoreHolds, QueueHolds, Supplied
<1> QED BY <1>1, <1>2

LEMMA ImageKeeps == SceneInv /\ LoadImage => SceneInv'
<1> SUFFICES ASSUME SceneInv, LoadImage PROVE SceneInv'
  OBVIOUS
<1> DEFINE texture == IF device = Renderer THEN store.next ELSE 0
           u == Upload(texture, Head(toLoad))
<1>1. UploadTextureToGpu(u) /\ atlas' = atlas
  BY DEF LoadImage
<1>2. u.texture = texture
  BY DEF Upload
<1>3. QueueHolds(gpuQueue, store) /\ StoreHolds(store, atlas.texture)
  BY DEF SceneInv
<1>4. CASE texture = 0
  <2>1. UNCHANGED <<store, gpuQueue>>
    BY <1>1, <1>2, <1>4 DEF UploadTextureToGpu
  <2> QED BY <1>1, <2>1 DEF SceneInv
<1>5. CASE texture # 0
  <2> DEFINE made == CreateTexture(store)
             given == Uploading(made, u)
  <2>1. /\ texture = store.next /\ store' = WithSet(given, texture)
        /\ gpuQueue' = Append(gpuQueue, u)
    BY <1>1, <1>2, <1>5 DEF UploadTextureToGpu
  <2>2. /\ StoreHolds(made, atlas.texture) /\ made.next = store.next + 1
        /\ made.sets = store.sets /\ made.stagings = store.stagings /\ store.next \in made.textures
    BY <1>3, CreateKeeps
  <2> HIDE DEF made
  <2>3. QueueHolds(gpuQueue, made)
    BY <1>3, <2>2 DEF QueueHolds, Supplied
  <2>4. /\ StoreHolds(given, atlas.texture) /\ QueueHolds(Append(gpuQueue, u), given)
        /\ given.next = made.next /\ given.textures = made.textures
    BY <2>2, <2>3, UploadKeeps
  <2> HIDE DEF given, u, texture
  <2>5. /\ texture \in given.textures /\ texture \in 1 .. given.next - 1 /\ texture # atlas.texture
    BY <1>3, <2>1, <2>2, <2>4 DEF StoreHolds
  <2>6. StoreHolds(store', atlas.texture) /\ QueueHolds(gpuQueue', store')
    BY <2>1, <2>4, <2>5, SetKeeps
  <2> QED BY <1>1, <2>6 DEF SceneInv
<1> QED BY <1>4, <1>5

LEMMA FrameKeeps ==
    ASSUME NEW st, NEW queue, QueueHolds(queue, st), NEW frame, Sent(frame), Supplied(st, frame)
    PROVE  QueueHolds(Append(queue, frame), st)
<1>1. PICK S : queue \in Seq(S)
  BY DEF QueueHolds
<1>2. /\ Append(queue, frame) \in Seq(S \cup {frame})
      /\ \A k \in DOMAIN Append(queue, frame) :
            (k \in DOMAIN queue /\ Append(queue, frame)[k] = queue[k]) \/ Append(queue, frame)[k] = frame
  BY <1>1
<1> QED BY <1>2 DEF QueueHolds

LEMMA DrawingKeeps == ASSUME SceneInv, NEW version \in 1 .. MaxAtlas, DrawScene(version) PROVE SceneInv'
<1> DEFINE new == version # atlas.tracked
           made == IF new /\ atlas.texture = 0 THEN CreateTexture(store) ELSE store
           texture == IF atlas.texture = 0 THEN store.next ELSE atlas.texture
           upload == Upload(texture, version)
           frame == [kind |-> "frame", drawn |-> Bound(DrawGroups), atlas |-> texture,
                     generation |-> version, done |-> FALSE]
           given == IF new THEN Uploading(made, upload) ELSE store
           queue == IF new THEN Append(gpuQueue, upload) ELSE gpuQueue
<1>1. /\ atlas'.texture = texture /\ atlas'.tracked = version /\ store' = given
      /\ gpuQueue' = gpuQueue \o (IF new THEN <<upload, frame>> ELSE <<frame>>)
  BY DEF DrawScene
<1>2. /\ QueueHolds(gpuQueue, store) /\ StoreHolds(store, atlas.texture)
      /\ atlas.texture = 0 => atlas.tracked = 0
  BY DEF SceneInv
<1>3. Sent(frame) /\ frame.kind = "frame" /\ frame.drawn = Bound(DrawGroups)
  <2>1. frame \in SentOf({Bound(DrawGroups), texture, version})
    BY DEF SentOf
  <2> QED BY <2>1 DEF Sent
<1>4. \A e \in DOMAIN Bound(DrawGroups) : Bound(DrawGroups)[e].texture \in store.sets \cup {0}
  BY DEF Bound, DrawGroups
<1>5. gpuQueue' = Append(queue, frame)
  <2>1. PICK S : gpuQueue \in Seq(S)
    BY <1>2 DEF QueueHolds
  <2> HIDE DEF upload, frame, new
  <2> QED BY <1>1, <2>1
<1> HIDE DEF frame
<1>6. /\ StoreHolds(made, texture) /\ QueueHolds(gpuQueue, made) /\ made.sets = store.sets
      /\ texture # 0 /\ version # 0
  <2>1. CASE atlas.texture = 0
    <3>1. new
      BY <1>2, <2>1
    <3>2. made = CreateTexture(store) /\ texture = store.next
      BY <2>1, <3>1
    <3>3. /\ StoreHolds(made, atlas.texture) /\ made.next = store.next + 1 /\ made.sets = store.sets
          /\ made.stagings = store.stagings
      BY <1>2, <3>2, CreateKeeps
    <3> HIDE DEF made, texture, new
    <3>4. QueueHolds(gpuQueue, made)
      BY <1>2, <3>3 DEF QueueHolds, Supplied
    <3>5. StoreHolds(made, texture)
      BY <1>2, <3>2, <3>3 DEF StoreHolds
    <3> QED BY <1>2, <3>2, <3>3, <3>4, <3>5 DEF StoreHolds
  <2>2. CASE atlas.texture # 0
    <3>1. made = store /\ texture = atlas.texture
      BY <2>2
    <3> QED BY <1>2, <2>2, <3>1
  <2> QED BY <2>1, <2>2
<1>7. StoreHolds(given, texture) /\ QueueHolds(queue, given) /\ given.sets = store.sets
  <2>1. CASE new
    <3>1. given = Uploading(made, upload) /\ queue = Append(gpuQueue, upload)
      BY <2>1
    <3> HIDE DEF made, texture, given, queue
    <3> QED BY <1>6, <3>1, UploadKeeps
  <2>2. CASE ~new
    <3>1. given = made /\ queue = gpuQueue
      BY <2>2
    <3> QED BY <1>6, <3>1
  <2> QED BY <2>1, <2>2
<1> HIDE DEF given, queue, texture
<1>8. Supplied(given, frame)
  BY <1>3, <1>4, <1>7 DEF Supplied
<1>9. QueueHolds(gpuQueue', store')
  BY <1>1, <1>3, <1>5, <1>7, <1>8, FrameKeeps
<1> QED BY <1>1, <1>6, <1>7, <1>9 DEF SceneInv

LEMMA EndKeeps == SceneInv /\ (DropAtlas \/ DropStore) => SceneInv'
<1> SUFFICES ASSUME SceneInv, DropAtlas \/ DropStore PROVE SceneInv'
  OBVIOUS
<1>1. QueueHolds(gpuQueue, store) /\ StoreHolds(store, atlas.texture)
  BY DEF SceneInv
<1>2. CASE DropAtlas
  <2>1. /\ store' = [next |-> store.next, textures |-> store.textures \ {atlas.texture},
                     sets |-> store.sets, stagings |-> store.stagings]
        /\ UNCHANGED <<gpuQueue, atlas>>
    BY <1>1, <1>2 DEF DropAtlas, StoreHolds
  <2>2. StoreHolds(store', atlas.texture) /\ QueueHolds(gpuQueue, store')
    BY <1>1, <2>1 DEF StoreHolds, QueueHolds, Supplied
  <2> QED BY <2>1, <2>2 DEF SceneInv
<1>3. CASE DropStore
  <2>1. /\ store' = [next |-> store.next, textures |-> {}, sets |-> {}, stagings |-> {}]
        /\ gpuQueue = <<>> /\ UNCHANGED <<gpuQueue, atlas>>
    BY <1>1, <1>3 DEF DropStore, StoreHolds
  <2>2. StoreHolds(store', atlas.texture) /\ QueueHolds(gpuQueue, store')
    BY <1>1, <2>1 DEF StoreHolds, QueueHolds
  <2> QED BY <2>1, <2>2 DEF SceneInv
<1> QED BY <1>2, <1>3

LEMMA SceneStarts == SceneInit => SceneInv
<1> SUFFICES ASSUME SceneInit PROVE SceneInv
  OBVIOUS
<1>1. /\ store = [next |-> 1, textures |-> {}, sets |-> {}, stagings |-> {}]
      /\ gpuQueue = <<>> /\ atlas.texture = 0 /\ atlas.tracked = 0
  BY DEF SceneInit
<1>2. <<>> \in Seq({}) /\ DOMAIN <<>> = {}
  OBVIOUS
<1> QED BY <1>1, <1>2 DEF SceneInv, QueueHolds, StoreHolds

LEMMA SceneStep == SceneInv /\ [SceneNext]_sceneVars => SceneInv'
<1> SUFFICES ASSUME SceneInv, [SceneNext]_sceneVars PROVE SceneInv'
  OBVIOUS
<1>1. UNCHANGED <<store, gpuQueue, atlas>> => SceneInv'
  BY DEF SceneInv
<1>2. CASE UNCHANGED sceneVars
  BY <1>1, <1>2 DEF sceneVars, storeVars
<1>3. CASE SceneNext
  <2>1. CASE /\ SetTaskFlow \/ StartMachine \/ LeaveState
             /\ UNCHANGED <<atStep, windowOf, shapes, pictures, storeVars, texels, atlas, toLoad,
                            loaded, stopped, onScreen>>
    BY <1>1, <2>1 DEF storeVars
  <2>2. CASE InitWindow \/ \E works \in BOOLEAN : InitVulkan(works)
    BY <1>1, <2>2 DEF InitWindow, InitVulkan, storeVars
  <2>3. CASE \E count \in 0 .. 8, fails \in BOOLEAN : SetUp(count, fails)
    BY <1>1, <2>3 DEF SetUp, storeVars
  <2>4. CASE \/ \E count \in 0 .. MaxImages : OpenFolder(count)
             \/ SkipFile \/ FinishLoading \/ SetupTexturedPlanes
    BY <1>1, <2>4 DEF OpenFolder, SkipFile, FinishLoading, SetupTexturedPlanes, storeVars
  <2>5. CASE OpenWindow \/ CloseWindow \/ RenderCube
    BY <1>1, <2>5 DEF OpenWindow, CloseWindow, RenderCube, storeVars
  <2>6. CASE LoadImage
    BY <2>6, ImageKeeps
  <2>7. ASSUME NEW version \in 1 .. MaxAtlas, DrawScene(version) PROVE SceneInv'
    BY <2>7, DrawingKeeps
  <2>8. ASSUME NEW k \in DOMAIN gpuQueue, GpuCopies(k) \/ GpuDraws(k) PROVE SceneInv'
    <3>1. Finish(k) /\ UNCHANGED <<store, atlas>>
      BY <2>8 DEF GpuCopies, GpuDraws
    <3> QED BY <3>1, FinishKeeps
  <2> QED BY <1>3, <2>1, <2>2, <2>3, <2>4, <2>5, <2>6, <2>7, <2>8, EndKeeps DEF SceneNext
<1> QED BY <1>2, <1>3

(* RenderSystem, VulkanTextureStore: however uploads and frames come       *)
(* through the queue, whatever images there are and whichever way the      *)
(* program ends, no memory of an upload or of an image is given back       *)
(* while the GPU is going to read it.  (Of the atlas that is not so.)      *)
THEOREM GpuMemoryStays == Spec => []WhatGpuReadsIsThere
<1>1. SceneInv => WhatGpuReadsIsThere
  <2> SUFFICES ASSUME SceneInv, NEW k \in DOMAIN gpuQueue
               PROVE  IF gpuQueue[k].kind = "upload" THEN Staging(gpuQueue[k]) \in store.stagings
                      ELSE \A e \in DOMAIN gpuQueue[k].drawn :
                              gpuQueue[k].drawn[e].texture \in store.textures \cup {0}
    BY DEF WhatGpuReadsIsThere
  <2>1. Supplied(store, gpuQueue[k]) /\ store.sets \subseteq store.textures
    BY DEF SceneInv, QueueHolds, StoreHolds
  <2> QED BY <2>1 DEF Supplied
<1>2. Init => SceneInv
  BY SceneStarts DEF Init
<1>3. [Next]_shellVars => [SceneNext]_sceneVars
  BY DEF Next, shellVars
<1> QED BY <1>1, <1>2, <1>3, SceneStep, PTL DEF Spec
=============================================================================
