---------------------------- MODULE VideoProofs ----------------------------
(***************************************************************************)
(* Theorems about Video: no damage is lost, the splash is replaced whole,  *)
(* and the frame buffer outlives its readers.                              *)
(*                                                                         *)
(* DamagePending is not inductive: that a tile just drawn needs no further *)
(* damage rests on what the task holds during a batch (BatchOK): its mode  *)
(* and palette are current unless a redraw has been asked for, its look of *)
(* the overlay is current but for tiles that are marked, or yet to be.     *)
(***************************************************************************)
EXTENDS Video, TLAPS

\* A batch is under way.
InBatch == vpc \in {"drain", "collect", "gate", "begin", "draw"}

\* The task's place and cursor agree; the palette and the mode it took are the
\* guest's, and while it draws so is the look of the overlay, unless damage that
\* is still to be taken says otherwise.
BatchOK ==
  /\ vpc \notin {"drain", "collect", "draw"} => at = 0
  /\ ~InBatch => ~frame.full
  /\ local_palette = palette \/ force_full_update
  /\ palette_changed => force_full_update
  /\ local_palette = palette \/ palette_changed
  /\ InBatch => frame.mode = mode \/ force_full_update
  /\ vpc = "draw" =>
       \A t \in Tile : (t \in frame.keys) # (t \in published)
                         => t \in overlay_damage \union write_dirty_tiles

\* VideoExit: the request, the task's end, the clearing, the free.
ExitOrder ==
  /\ video_task_running <=> cpu = "guest"
  /\ cpu \in {"freeing", "exited"} => vpc = "stopped"
  /\ mac_frame_buffer <=> cpu # "exited"
  /\ cpu = "exited" => capture \notin Reading

\* Until the handoff the panel is all splash; from it on, splash is only on tiles
\* that are dirty and, in a batch, not drawn yet.  Only VideoExit, after the
\* task's last batch, clears the bitmap.
Painted ==
  /\ splash # "gone" =>
       (\A t \in Tile : panel[t] = Splash) /\ vpc \notin {"begin", "draw"}
  /\ splash = "gone" /\ vpc # "stopped" =>
       \A t \in Tile : panel[t] = Splash => t \in dirty_tiles /\ (vpc = "draw" => t >= at)
  /\ splash = "gone" /\ cpu \in {"guest", "stopping"} =>
       \A t \in Tile : panel[t] = Splash => t \in dirty_tiles

IInv == TypeOK /\ BatchOK /\ ExitOrder /\ Painted /\ DamagePending

-----------------------------------------------------------------------------
(* Types. *)

\* What a step leaves alone stays typed.
LEMMA Untouched ==
  ASSUME TypeOK
  PROVE  /\ UNCHANGED guestvars => GuestType'
         /\ UNCHANGED overlayvars => OverlayType'
         /\ UNCHANGED taskvars => TaskType'
         /\ UNCHANGED panelvars => PanelType'
         /\ UNCHANGED exitvars => ExitType'
<1>1. UNCHANGED guestvars => GuestType'
  BY DEF TypeOK, GuestType, guestvars
<1>2. UNCHANGED overlayvars => OverlayType'
  BY DEF TypeOK, OverlayType, overlayvars
<1>3. UNCHANGED taskvars => TaskType'
  BY DEF TypeOK, TaskType, taskvars, batchvars
<1>4. UNCHANGED panelvars => PanelType'
  BY DEF TypeOK, PanelType, panelvars
<1>5. UNCHANGED exitvars => ExitType'
  BY DEF TypeOK, ExitType, exitvars
<1> QED BY <1>1, <1>2, <1>3, <1>4, <1>5

LEMMA NoBatch == NoFrame \in Batch /\ NoFrame.full = FALSE
                 /\ \A full \in BOOLEAN, m \in Mode :
                      LET f == [NoFrame EXCEPT !.full = full, !.mode = m] IN
                      f \in Batch /\ f.full = full /\ f.mode = m /\ f.keys = {}
BY VideoAssumption DEF NoFrame, Batch

LEMMA TileNat == Tile \subseteq Nat
BY VideoAssumption DEF Tile

LEMMA TypeInit == Init => TypeOK
<1> SUFFICES ASSUME Init PROVE TypeOK
  OBVIOUS
<1>1. GuestType /\ OverlayType
  BY VideoAssumption DEF Init, GuestType, OverlayType
<1>2. TaskType
  BY NoBatch DEF Init, TaskType
<1>3. PanelType
  BY DEF Init, PanelType
<1>4. ExitType
  BY DEF Init, ExitType
<1> QED BY <1>1, <1>2, <1>3, <1>4 DEF TypeOK

LEMMA TypeStep == TypeOK /\ [Next]_vars => TypeOK'
<1> SUFFICES ASSUME TypeOK, [Next]_vars PROVE TypeOK'
  OBVIOUS
<1>1. ASSUME NEW lo \in 0..Size - 1, NEW hi \in 0..Size - 1, StorePixels(lo, hi)
      PROVE  TypeOK'
  <2>1. OverlayType' /\ TaskType' /\ ExitType'
    BY <1>1, Untouched DEF StorePixels, GuestOnly
  <2>2. GuestType'
    BY <1>1 DEF StorePixels, GuestOnly, Chunks, panelvars, TypeOK, GuestType
  <2>3. PanelType'
    BY <1>1 DEF StorePixels, GuestOnly, Chunks, panelvars, TypeOK, PanelType
  <2> QED BY <2>1, <2>2, <2>3 DEF TypeOK
<1>2. ASSUME NEW c \in Tile, MarkChunk(c) PROVE TypeOK'
  <2>1. OverlayType' /\ TaskType' /\ PanelType' /\ ExitType'
    BY <1>2, Untouched DEF MarkChunk, GuestOnly
  <2>2. GuestType'
    BY <1>2 DEF MarkChunk, GuestOnly, TypeOK, GuestType
  <2> QED BY <2>1, <2>2 DEF TypeOK
<1>3. ASSUME NEW p \in Palette, SetPalette(p) PROVE TypeOK'
  <2>1. OverlayType' /\ TaskType' /\ PanelType' /\ ExitType'
    BY <1>3, Untouched DEF SetPalette, GuestOnly
  <2>2. GuestType'
    BY <1>3 DEF SetPalette, GuestOnly, TypeOK, GuestType
  <2> QED BY <2>1, <2>2 DEF TypeOK
<1>4. ASSUME NEW m \in Mode, SwitchMode(m) PROVE TypeOK'
  <2>1. OverlayType' /\ TaskType' /\ PanelType' /\ ExitType'
    BY <1>4, Untouched DEF SwitchMode, GuestOnly
  <2>2. GuestType'
    BY <1>4, VideoAssumption DEF SwitchMode, GuestOnly, TypeOK, GuestType
  <2> QED BY <2>1, <2>2 DEF TypeOK
<1>5. ASSUME NEW keys \in SUBSET Overlaid, PublishOverlay(keys) PROVE TypeOK'
  <2>1. GuestType' /\ TaskType' /\ PanelType' /\ ExitType'
    BY <1>5, Untouched DEF PublishOverlay, OverlayOnly
  <2>2. OverlayType'
    BY <1>5, VideoAssumption DEF PublishOverlay, OverlayOnly, TypeOK, OverlayType
  <2> QED BY <2>1, <2>2 DEF TypeOK
<1>6. ASSUME NEW u \in Tile, MarkTile(u) PROVE TypeOK'
  <2>1. GuestType' /\ TaskType' /\ PanelType' /\ ExitType'
    BY <1>6, Untouched DEF MarkTile, OverlayOnly
  <2>2. OverlayType'
    BY <1>6 DEF MarkTile, OverlayOnly, TypeOK, OverlayType
  <2> QED BY <2>1, <2>2 DEF TypeOK
<1>7. CASE Wake
  <2>1. GuestType' /\ OverlayType' /\ PanelType' /\ ExitType'
    BY <1>7, Untouched DEF Wake, TaskOnly
  <2>2. TaskType'
    BY <1>7 DEF Wake, TaskOnly, batchvars, TypeOK, TaskType
  <2> QED BY <2>1, <2>2 DEF TypeOK
<1>8. CASE StopTask
  <2>1. GuestType' /\ OverlayType' /\ PanelType' /\ ExitType'
    BY <1>8, Untouched DEF StopTask, TaskOnly
  <2>2. TaskType'
    BY <1>8 DEF StopTask, TaskOnly, batchvars, TypeOK, TaskType
  <2> QED BY <2>1, <2>2 DEF TypeOK
<1>9. CASE Capture
  <2>1. OverlayType' /\ PanelType' /\ ExitType'
    BY <1>9, Untouched DEF Capture, TaskOnly
  <2>2. GuestType'
    BY <1>9 DEF Capture, TaskOnly, TypeOK, GuestType
  <2>3. frame' \in Batch
    BY <1>9, NoBatch DEF Capture, TypeOK, GuestType
  <2>4. TaskType'
    BY <1>9, <2>3 DEF Capture, TaskOnly, batchvars, GuestType, TypeOK, TaskType
  <2> QED BY <2>1, <2>2, <2>3, <2>4 DEF TypeOK
<1>10. CASE Drain
  <2>1. OverlayType' /\ PanelType' /\ ExitType'
    BY <1>10, Untouched DEF Drain, TaskOnly
  <2>2. GuestType'
    BY <1>10 DEF Drain, TaskOnly, NextWord, TypeOK, GuestType
  <2>3. TaskType'
    BY <1>10 DEF Drain, TaskOnly, NextWord, batchvars, GuestType, TypeOK, TaskType
  <2> QED BY <2>1, <2>2, <2>3 DEF TypeOK
<1>11. CASE Collect
  <2>1. GuestType' /\ PanelType' /\ ExitType'
    BY <1>11, Untouched DEF Collect, TaskOnly
  <2>2. OverlayType'
    BY <1>11 DEF Collect, TaskOnly, NextWord, TypeOK, OverlayType
  <2>3. TaskType'
    BY <1>11 DEF Collect, TaskOnly, NextWord, batchvars, OverlayType, TypeOK, TaskType
  <2> QED BY <2>1, <2>2, <2>3 DEF TypeOK
<1>12. CASE KeepSplash
  <2>1. GuestType' /\ OverlayType' /\ PanelType' /\ ExitType'
    BY <1>12, Untouched DEF KeepSplash, TaskOnly
  <2>2. TaskType'
    BY <1>12, NoBatch DEF KeepSplash, TaskOnly, batchvars, TypeOK, TaskType
  <2> QED BY <2>1, <2>2 DEF TypeOK
<1>13. CASE Handoff
  <2>1. GuestType' /\ OverlayType' /\ PanelType' /\ ExitType'
    BY <1>13, Untouched DEF Handoff, TaskOnly
  <2>2. TaskType'
    BY <1>13 DEF Handoff, TaskOnly, batchvars, TypeOK, TaskType
  <2> QED BY <2>1, <2>2 DEF TypeOK
<1>14. CASE StartFrame
  <2>1. GuestType' /\ OverlayType' /\ PanelType' /\ ExitType'
    BY <1>14, Untouched DEF StartFrame, TaskOnly
  <2>2. TaskType'
    BY <1>14, NoBatch DEF StartFrame, TaskOnly, batchvars, TypeOK, TaskType
  <2> QED BY <2>1, <2>2 DEF TypeOK
<1>15. CASE BeginFrame
  <2>1. GuestType' /\ OverlayType' /\ PanelType' /\ ExitType'
    BY <1>15, Untouched DEF BeginFrame, TaskOnly
  <2>2. frame' \in Batch
    BY <1>15 DEF BeginFrame, Batch, TypeOK, GuestType, TaskType, OverlayType
  <2>3. TaskType'
    BY <1>15, <2>2 DEF BeginFrame, TaskOnly, batchvars, TypeOK, TaskType
  <2> QED BY <2>1, <2>2, <2>3 DEF TypeOK
<1>16. ASSUME NEW u \in Tile, DrawTile(u) PROVE TypeOK'
  <2>1. GuestType' /\ OverlayType' /\ ExitType'
    BY <1>16, Untouched DEF DrawTile
  <2>2. TaskType'
    BY <1>16, TileNat DEF DrawTile, Batch, TypeOK, TaskType
  <2>3. PanelType'
    BY <1>16 DEF DrawTile, TaskType, Shown, Batch, TypeOK, PanelType
  <2> QED BY <2>1, <2>2, <2>3 DEF TypeOK
<1>17. ASSUME NEW ok \in BOOLEAN, EndTiles(ok) PROVE TypeOK'
  <2>1. GuestType' /\ OverlayType' /\ ExitType'
    BY <1>17, Untouched DEF EndTiles
  <2>2. TaskType'
    BY <1>17, NoBatch DEF EndTiles, TypeOK, TaskType
  <2>3. PanelType'
    BY <1>17 DEF EndTiles, NotWritten, panelvars, TypeOK, PanelType
  <2> QED BY <2>1, <2>2, <2>3 DEF TypeOK
<1>18. CASE SplashTimeout
  <2>1. GuestType' /\ OverlayType' /\ PanelType' /\ ExitType'
    BY <1>18, Untouched DEF SplashTimeout, TaskOnly
  <2>2. TaskType'
    BY <1>18 DEF SplashTimeout, TaskOnly, batchvars, TypeOK, TaskType
  <2> QED BY <2>1, <2>2 DEF TypeOK
<1>19. CASE ExitStop
  <2>1. GuestType' /\ OverlayType' /\ TaskType' /\ PanelType'
    BY <1>19, Untouched DEF ExitStop
  <2>2. ExitType'
    BY <1>19 DEF ExitStop, TypeOK, ExitType
  <2> QED BY <2>1, <2>2 DEF TypeOK
<1>20. CASE ExitClear
  <2>1. PanelType'
    BY <1>20, Untouched DEF ExitClear
  <2>2. GuestType'
    BY <1>20 DEF ExitClear, TypeOK, GuestType
  <2>3. OverlayType'
    BY <1>20 DEF ExitClear, TypeOK, OverlayType
  <2>4. TaskType'
    BY <1>20 DEF ExitClear, batchvars, TypeOK, TaskType
  <2>5. ExitType'
    BY <1>20 DEF ExitClear, TypeOK, ExitType
  <2> QED BY <2>1, <2>2, <2>3, <2>4, <2>5 DEF TypeOK
<1>21. CASE ExitFree
  <2>1. GuestType' /\ OverlayType' /\ TaskType' /\ PanelType'
    BY <1>21, Untouched DEF ExitFree
  <2>2. ExitType'
    BY <1>21 DEF ExitFree, TypeOK, ExitType
  <2> QED BY <2>1, <2>2 DEF TypeOK
<1>22. CASE CaptureBusy
  <2>1. GuestType' /\ OverlayType' /\ TaskType' /\ PanelType'
    BY <1>22, Untouched DEF CaptureBusy, CaptureStep
  <2>2. ExitType'
    BY <1>22 DEF CaptureBusy, CaptureStep, TypeOK, ExitType
  <2> QED BY <2>1, <2>2 DEF TypeOK
<1>23. CASE CaptureRead
  <2>1. GuestType' /\ OverlayType' /\ TaskType' /\ PanelType'
    BY <1>23, Untouched DEF CaptureRead, CaptureStep
  <2>2. ExitType'
    BY <1>23 DEF CaptureRead, CaptureStep, TypeOK, ExitType
  <2> QED BY <2>1, <2>2 DEF TypeOK
<1>24. CASE CaptureDone
  <2>1. GuestType' /\ OverlayType' /\ TaskType' /\ PanelType'
    BY <1>24, Untouched DEF CaptureDone, CaptureStep
  <2>2. ExitType'
    BY <1>24 DEF CaptureDone, CaptureStep, TypeOK, ExitType
  <2> QED BY <2>1, <2>2 DEF TypeOK
<1>25. CASE UNCHANGED vars
  <2>1. GuestType' /\ OverlayType' /\ TaskType' /\ PanelType' /\ ExitType'
    BY <1>25, Untouched DEF vars
  <2> QED BY <2>1 DEF TypeOK
<1> QED
  BY <1>1, <1>2, <1>3, <1>4, <1>5, <1>6, <1>7, <1>8, <1>9, <1>10, <1>11, <1>12, <1>13,
     <1>14, <1>15, <1>16, <1>17, <1>18, <1>19, <1>20, <1>21, <1>22, <1>23, <1>24,
     <1>25 DEF Next, Guest, Store, Mark, Overlay, VideoTask, Draw

-----------------------------------------------------------------------------
(* The order of VideoExit. *)

LEMMA ExitOrderStep == IInv /\ [Next]_vars => ExitOrder'
<1> SUFFICES ASSUME IInv, [Next]_vars PROVE ExitOrder'
  OBVIOUS
<1>1. ASSUME NEW lo \in 0..Size - 1, NEW hi \in 0..Size - 1, StorePixels(lo, hi)
      PROVE  ExitOrder'
  BY <1>1 DEF StorePixels, GuestOnly, IInv, ExitOrder, exitvars, taskvars
<1>2. ASSUME NEW c \in Tile, MarkChunk(c) PROVE ExitOrder'
  BY <1>2 DEF MarkChunk, GuestOnly, IInv, ExitOrder, exitvars, taskvars
<1>3. ASSUME NEW p \in Palette, SetPalette(p) PROVE ExitOrder'
  BY <1>3 DEF SetPalette, GuestOnly, IInv, ExitOrder, exitvars, taskvars
<1>4. ASSUME NEW m \in Mode, SwitchMode(m) PROVE ExitOrder'
  BY <1>4 DEF SwitchMode, GuestOnly, IInv, ExitOrder, exitvars, taskvars
<1>5. ASSUME NEW keys \in SUBSET Overlaid, PublishOverlay(keys) PROVE ExitOrder'
  BY <1>5 DEF PublishOverlay, OverlayOnly, IInv, ExitOrder, exitvars, taskvars
<1>6. ASSUME NEW u \in Tile, MarkTile(u) PROVE ExitOrder'
  BY <1>6 DEF MarkTile, OverlayOnly, IInv, ExitOrder, exitvars, taskvars
<1>7. CASE Wake
  BY <1>7 DEF Wake, TaskOnly, IInv, ExitOrder, exitvars, taskvars
<1>8. CASE StopTask
  BY <1>8 DEF StopTask, TaskOnly, IInv, ExitOrder, exitvars, taskvars
<1>9. CASE Capture
  BY <1>9 DEF Capture, TaskOnly, IInv, ExitOrder, exitvars, taskvars
<1>10. CASE Drain
  BY <1>10 DEF Drain, TaskOnly, NextWord, IInv, ExitOrder, exitvars, taskvars
<1>11. CASE Collect
  BY <1>11 DEF Collect, TaskOnly, NextWord, IInv, ExitOrder, exitvars, taskvars
<1>12. CASE KeepSplash
  BY <1>12 DEF KeepSplash, TaskOnly, IInv, ExitOrder, exitvars, taskvars
<1>13. CASE Handoff
  BY <1>13 DEF Handoff, TaskOnly, IInv, ExitOrder, exitvars, taskvars
<1>14. CASE StartFrame
  BY <1>14 DEF StartFrame, TaskOnly, IInv, ExitOrder, exitvars, taskvars
<1>15. CASE BeginFrame
  BY <1>15 DEF BeginFrame, TaskOnly, IInv, ExitOrder, exitvars, taskvars
<1>16. ASSUME NEW u \in Tile, DrawTile(u) PROVE ExitOrder'
  BY <1>16 DEF DrawTile, IInv, ExitOrder, exitvars, taskvars
<1>17. ASSUME NEW ok \in BOOLEAN, EndTiles(ok) PROVE ExitOrder'
  BY <1>17 DEF EndTiles, IInv, ExitOrder, exitvars, taskvars
<1>18. CASE SplashTimeout
  BY <1>18 DEF SplashTimeout, TaskOnly, IInv, ExitOrder, exitvars, taskvars
<1>19. CASE ExitStop
  BY <1>19 DEF ExitStop, IInv, ExitOrder, exitvars, taskvars, InGuest
<1>20. CASE ExitClear
  BY <1>20 DEF ExitClear, IInv, ExitOrder, exitvars, taskvars, TypeOK, ExitType
<1>21. CASE ExitFree
  BY <1>21 DEF ExitFree, IInv, ExitOrder, exitvars, taskvars, Reading
<1>22. CASE CaptureBusy
  BY <1>22 DEF CaptureBusy, CaptureStep, IInv, ExitOrder, exitvars, taskvars, Reading
<1>23. CASE CaptureRead
  <2>1. mac_frame_buffer /\ UNCHANGED <<taskvars, cpu, video_task_running, mac_frame_buffer>>
    BY <1>23 DEF CaptureRead, CaptureStep
  <2> QED BY <2>1 DEF IInv, ExitOrder, taskvars
<1>24. CASE CaptureDone
  BY <1>24 DEF CaptureDone, CaptureStep, IInv, ExitOrder, exitvars, taskvars, Reading
<1>25. CASE UNCHANGED vars
  BY <1>25 DEF vars, guestvars, overlayvars, taskvars, batchvars, panelvars, exitvars,
     IInv, ExitOrder, exitvars, taskvars
<1> QED
  BY <1>1, <1>2, <1>3, <1>4, <1>5, <1>6, <1>7, <1>8, <1>9, <1>10, <1>11, <1>12, <1>13,
     <1>14, <1>15, <1>16, <1>17, <1>18, <1>19, <1>20, <1>21, <1>22, <1>23, <1>24,
     <1>25 DEF Next, Guest, Store, Mark, Overlay, VideoTask, Draw

-----------------------------------------------------------------------------
(* What the task holds during a batch. *)

LEMMA BatchOKStep == IInv /\ [Next]_vars => BatchOK'
<1> SUFFICES ASSUME IInv, [Next]_vars PROVE BatchOK'
  OBVIOUS
<1>1. ASSUME NEW lo \in 0..Size - 1, NEW hi \in 0..Size - 1, StorePixels(lo, hi)
      PROVE  BatchOK'
  BY <1>1 DEF StorePixels, GuestOnly, IInv, BatchOK, InBatch, guestvars, overlayvars,
     taskvars, batchvars
<1>2. ASSUME NEW c \in Tile, MarkChunk(c) PROVE BatchOK'
  BY <1>2 DEF MarkChunk, GuestOnly, IInv, BatchOK, InBatch, guestvars, overlayvars,
     taskvars, batchvars
<1>3. ASSUME NEW p \in Palette, SetPalette(p) PROVE BatchOK'
  BY <1>3 DEF SetPalette, GuestOnly, IInv, BatchOK, InBatch, guestvars, overlayvars,
     taskvars, batchvars
<1>4. ASSUME NEW m \in Mode, SwitchMode(m) PROVE BatchOK'
  BY <1>4 DEF SwitchMode, GuestOnly, IInv, BatchOK, InBatch, guestvars, overlayvars,
     taskvars, batchvars
<1>5. ASSUME NEW keys \in SUBSET Overlaid, PublishOverlay(keys) PROVE BatchOK'
  BY <1>5 DEF PublishOverlay, OverlayOnly, IInv, BatchOK, InBatch, guestvars,
     overlayvars, taskvars, batchvars
<1>6. ASSUME NEW u \in Tile, MarkTile(u) PROVE BatchOK'
  BY <1>6 DEF MarkTile, OverlayOnly, IInv, BatchOK, InBatch, guestvars, overlayvars,
     taskvars, batchvars
<1>7. CASE Wake
  BY <1>7 DEF Wake, TaskOnly, IInv, BatchOK, InBatch, guestvars, overlayvars,
     taskvars, batchvars
<1>8. CASE StopTask
  BY <1>8 DEF StopTask, TaskOnly, IInv, BatchOK, InBatch, guestvars, overlayvars,
     taskvars, batchvars
<1>9. CASE Capture
  BY <1>9 DEF Capture, TaskOnly, IInv, BatchOK, InBatch, guestvars, overlayvars,
     taskvars, batchvars
<1>10. CASE Drain
  BY <1>10 DEF Drain, TaskOnly, NextWord, IInv, BatchOK, InBatch, guestvars,
     overlayvars, taskvars, batchvars
<1>11. CASE Collect
  BY <1>11 DEF Collect, TaskOnly, NextWord, IInv, BatchOK, InBatch, guestvars,
     overlayvars, taskvars, batchvars
<1>12. CASE KeepSplash
  BY <1>12, NoBatch DEF KeepSplash, TaskOnly, IInv, BatchOK, InBatch, guestvars,
     overlayvars, taskvars, batchvars
<1>13. CASE Handoff
  BY <1>13 DEF Handoff, TaskOnly, IInv, BatchOK, InBatch, guestvars, overlayvars,
     taskvars, batchvars
<1>14. CASE StartFrame
  BY <1>14, NoBatch DEF StartFrame, TaskOnly, IInv, BatchOK, InBatch, guestvars,
     overlayvars, taskvars, batchvars
<1>15. CASE BeginFrame
  BY <1>15 DEF BeginFrame, TaskOnly, IInv, BatchOK, InBatch, guestvars, overlayvars,
     taskvars, batchvars
<1>16. ASSUME NEW u \in Tile, DrawTile(u) PROVE BatchOK'
  BY <1>16 DEF DrawTile, IInv, BatchOK, InBatch, guestvars, overlayvars, taskvars,
     batchvars
<1>17. ASSUME NEW ok \in BOOLEAN, EndTiles(ok) PROVE BatchOK'
  BY <1>17, NoBatch DEF EndTiles, IInv, BatchOK, InBatch, guestvars, overlayvars,
     taskvars, batchvars
<1>18. CASE SplashTimeout
  BY <1>18 DEF SplashTimeout, TaskOnly, IInv, BatchOK, InBatch, guestvars,
     overlayvars, taskvars, batchvars
<1>19. CASE ExitStop
  BY <1>19 DEF ExitStop, IInv, BatchOK, InBatch, guestvars, overlayvars, taskvars,
     batchvars
<1>20. CASE ExitClear
  BY <1>20 DEF ExitClear, IInv, BatchOK, InBatch, guestvars, overlayvars, taskvars,
     batchvars
<1>21. CASE ExitFree
  BY <1>21 DEF ExitFree, IInv, BatchOK, InBatch, guestvars, overlayvars, taskvars,
     batchvars
<1>22. CASE CaptureBusy
  BY <1>22 DEF CaptureBusy, CaptureStep, IInv, BatchOK, InBatch, guestvars,
     overlayvars, taskvars, batchvars
<1>23. CASE CaptureRead
  <2>1. UNCHANGED <<guestvars, overlayvars, taskvars>>
    BY <1>23 DEF CaptureRead, CaptureStep
  <2> QED BY <2>1 DEF IInv, BatchOK, InBatch, guestvars, overlayvars, taskvars, batchvars
<1>24. CASE CaptureDone
  BY <1>24 DEF CaptureDone, CaptureStep, IInv, BatchOK, InBatch, guestvars,
     overlayvars, taskvars, batchvars
<1>25. CASE UNCHANGED vars
  BY <1>25 DEF vars, guestvars, overlayvars, taskvars, batchvars, panelvars, exitvars,
     IInv, BatchOK, InBatch, guestvars, overlayvars, taskvars, batchvars
<1> QED
  BY <1>1, <1>2, <1>3, <1>4, <1>5, <1>6, <1>7, <1>8, <1>9, <1>10, <1>11, <1>12, <1>13,
     <1>14, <1>15, <1>16, <1>17, <1>18, <1>19, <1>20, <1>21, <1>22, <1>23, <1>24,
     <1>25 DEF Next, Guest, Store, Mark, Overlay, VideoTask, Draw

-----------------------------------------------------------------------------
(* The splash. *)

LEMMA PaintedStep == IInv /\ [Next]_vars => Painted'
<1> SUFFICES ASSUME IInv, [Next]_vars PROVE Painted'
  OBVIOUS
<1>1. ASSUME NEW lo \in 0..Size - 1, NEW hi \in 0..Size - 1, StorePixels(lo, hi)
      PROVE  Painted'
  BY <1>1 DEF StorePixels, GuestOnly, IInv, Painted, taskvars, panelvars, exitvars
<1>2. ASSUME NEW c \in Tile, MarkChunk(c) PROVE Painted'
  BY <1>2 DEF MarkChunk, GuestOnly, IInv, Painted, taskvars, panelvars, exitvars
<1>3. ASSUME NEW p \in Palette, SetPalette(p) PROVE Painted'
  BY <1>3 DEF SetPalette, GuestOnly, IInv, Painted, taskvars, panelvars, exitvars
<1>4. ASSUME NEW m \in Mode, SwitchMode(m) PROVE Painted'
  BY <1>4 DEF SwitchMode, GuestOnly, IInv, Painted, taskvars, panelvars, exitvars
<1>5. ASSUME NEW keys \in SUBSET Overlaid, PublishOverlay(keys) PROVE Painted'
  BY <1>5 DEF PublishOverlay, OverlayOnly, IInv, Painted, taskvars, panelvars, exitvars
<1>6. ASSUME NEW u \in Tile, MarkTile(u) PROVE Painted'
  BY <1>6 DEF MarkTile, OverlayOnly, IInv, Painted, taskvars, panelvars, exitvars
<1>7. CASE Wake
  BY <1>7 DEF Wake, TaskOnly, IInv, Painted, taskvars, panelvars, exitvars
<1>8. CASE StopTask
  BY <1>8 DEF StopTask, TaskOnly, IInv, Painted, taskvars, panelvars, exitvars
<1>9. CASE Capture
  BY <1>9 DEF Capture, TaskOnly, IInv, Painted, taskvars, panelvars, exitvars
<1>10. CASE Drain
  BY <1>10 DEF Drain, TaskOnly, NextWord, IInv, Painted, taskvars, panelvars, exitvars
<1>11. CASE Collect
  BY <1>11 DEF Collect, TaskOnly, NextWord, IInv, Painted, taskvars, panelvars, exitvars
<1>12. CASE KeepSplash
  BY <1>12 DEF KeepSplash, TaskOnly, IInv, Painted, taskvars, panelvars, exitvars
<1>13. CASE Handoff
  BY <1>13 DEF Handoff, TaskOnly, IInv, Painted, taskvars, panelvars, exitvars
<1>14. CASE StartFrame
  BY <1>14 DEF StartFrame, TaskOnly, IInv, Painted, taskvars, panelvars, exitvars
<1>15. CASE BeginFrame
  BY <1>15, TileNat DEF BeginFrame, TaskOnly, IInv, Painted, taskvars, panelvars, exitvars,
     BatchOK
<1>16. ASSUME NEW u \in Tile, DrawTile(u) PROVE Painted'
  <2>1. panel'[u] # Splash /\ \A t \in Tile : t # u => panel'[t] = panel[t]
    <3>1. /\ panel \in [Tile -> Shown \union {Splash, Torn}]
          /\ [mode |-> frame.mode, palette |-> local_palette, key |-> u \in frame.keys] \in Shown
      BY DEF IInv, TypeOK, PanelType, TaskType, Batch, Shown
    <3> QED BY <3>1, <1>16, VideoAssumption DEF DrawTile
  <2>2. UNCHANGED <<vpc, splash, dirty_tiles, cpu>> /\ vpc = "draw" /\ at' = u + 1
    BY <1>16 DEF DrawTile, exitvars
  <2>3. splash = "gone" /\ \A t \in Tile : panel[t] = Splash => t \in dirty_tiles /\ t >= at
    BY <2>2 DEF IInv, Painted
  <2>4. ASSUME NEW t \in Tile, panel'[t] = Splash PROVE t \in dirty_tiles /\ t >= u + 1
    <3>1. t # u /\ panel[t] = Splash
      BY <2>1, <2>4
    <3>2. t \in dirty_tiles /\ u <= t
      BY <3>1, <2>3, <1>16 DEF DrawTile
    <3> QED BY <3>1, <3>2, TileNat
  <2> QED BY <2>2, <2>3, <2>4 DEF Painted
<1>17. ASSUME NEW ok \in BOOLEAN, EndTiles(ok) PROVE Painted'
  <2>1. /\ UNCHANGED <<splash, cpu>> /\ vpc = "draw" /\ vpc' = "wait"
        /\ \A t \in dirty_tiles : t < at
    BY <1>17 DEF EndTiles, exitvars
  <2>2. splash = "gone" /\ \A t \in Tile : panel[t] = Splash => t \in dirty_tiles /\ t >= at
    BY <2>1 DEF IInv, Painted
  <2>3. \A t \in Tile : panel[t] # Splash
    BY <2>1, <2>2, TileNat DEF IInv, TypeOK, TaskType
  <2>4. \A t \in Tile : panel'[t] = Splash => t \in dirty_tiles'
    BY <1>17, <2>3 DEF EndTiles, NotWritten, panelvars
  <2> QED BY <2>1, <2>2, <2>4 DEF Painted
<1>18. CASE SplashTimeout
  BY <1>18 DEF SplashTimeout, TaskOnly, IInv, Painted, taskvars, panelvars, exitvars
<1>19. CASE ExitStop
  BY <1>19 DEF ExitStop, InGuest, IInv, Painted, taskvars, panelvars, exitvars
<1>20. CASE ExitClear
  BY <1>20 DEF ExitClear, IInv, Painted, taskvars, panelvars, exitvars
<1>21. CASE ExitFree
  BY <1>21 DEF ExitFree, IInv, Painted, taskvars, panelvars, exitvars
<1>22. CASE CaptureBusy
  BY <1>22 DEF CaptureBusy, CaptureStep, IInv, Painted, taskvars, panelvars, exitvars
<1>23. CASE CaptureRead
  <2>1. UNCHANGED <<taskvars, panelvars, cpu>>
    BY <1>23 DEF CaptureRead, CaptureStep
  <2> QED BY <2>1 DEF IInv, Painted, taskvars, panelvars
<1>24. CASE CaptureDone
  BY <1>24 DEF CaptureDone, CaptureStep, IInv, Painted, taskvars, panelvars, exitvars
<1>25. CASE UNCHANGED vars
  BY <1>25 DEF vars, guestvars, overlayvars, taskvars, batchvars, panelvars, exitvars,
     IInv, Painted, taskvars, panelvars, exitvars
<1> QED
  BY <1>1, <1>2, <1>3, <1>4, <1>5, <1>6, <1>7, <1>8, <1>9, <1>10, <1>11, <1>12, <1>13,
     <1>14, <1>15, <1>16, <1>17, <1>18, <1>19, <1>20, <1>21, <1>22, <1>23, <1>24,
     <1>25 DEF Next, Guest, Store, Mark, Overlay, VideoTask, Draw

-----------------------------------------------------------------------------
(* No damage is lost. *)

LEMMA DamageStep == IInv /\ [Next]_vars => DamagePending'
<1> SUFFICES ASSUME IInv, [Next]_vars, cpu' = "guest", NEW t \in Tile, Stale(t)'
             PROVE  Pending(t)'
  BY DEF DamagePending
<1>a. cpu = "guest" => (Stale(t) => Pending(t))
  BY DEF IInv, DamagePending
<1>b. TypeOK /\ BatchOK /\ ExitOrder /\ Painted
  BY DEF IInv
<1>1. ASSUME NEW lo \in 0..Size - 1, NEW hi \in 0..Size - 1, StorePixels(lo, hi)
      PROVE  Pending(t)'
  <2>1. CASE Stale(t)
    BY <1>1, <1>a, <2>1 DEF StorePixels, InGuest, GuestOnly, Pending, overlayvars,
       taskvars, batchvars
  <2>2. CASE ~Stale(t)
    <3>1. t \in behind' /\ t \notin behind /\ panel[t] = Picture(t)
      BY <1>1, <2>2 DEF StorePixels, GuestOnly, Stale, Picture, overlayvars
    <3>2. panel[t].mode = mode /\ lo..hi \intersect Span(panel[t].mode, t) # {}
      BY <1>1, <3>1 DEF StorePixels, Picture
    <3> QED BY <1>1, <3>2 DEF StorePixels, Chunks, Pending
  <2> QED BY <2>1, <2>2
<1>2. ASSUME NEW c \in Tile, MarkChunk(c) PROVE Pending(t)'
  BY <1>2, <1>a DEF MarkChunk, GuestOnly, Stale, Picture, Pending, guestvars,
     overlayvars, taskvars, batchvars, panelvars, exitvars
<1>3. ASSUME NEW p \in Palette, SetPalette(p) PROVE Pending(t)'
  BY <1>3 DEF SetPalette, Pending
<1>4. ASSUME NEW m \in Mode, SwitchMode(m) PROVE Pending(t)'
  BY <1>4 DEF SwitchMode, Pending
<1>5. ASSUME NEW keys \in SUBSET Overlaid, PublishOverlay(keys) PROVE Pending(t)'
  <2>1. CASE Stale(t)
    BY <1>5, <1>a, <2>1 DEF PublishOverlay, OverlayOnly, Pending, guestvars, taskvars,
       batchvars, exitvars
  <2>2. CASE ~Stale(t)
    <3>1. (t \in published) # (t \in keys)
      BY <1>5, <2>2 DEF PublishOverlay, OverlayOnly, Stale, Picture, guestvars, panelvars
    <3> QED BY <1>5, <3>1 DEF PublishOverlay, Pending
  <2> QED BY <2>1, <2>2
<1>6. ASSUME NEW u \in Tile, MarkTile(u) PROVE Pending(t)'
  BY <1>6, <1>a DEF MarkTile, OverlayOnly, Stale, Picture, Pending, guestvars,
     overlayvars, taskvars, batchvars, panelvars, exitvars
<1>7. CASE Wake
  BY <1>7, <1>a DEF Wake, TaskOnly, Stale, Picture, Pending, guestvars, overlayvars,
     taskvars, batchvars, panelvars, exitvars
<1>8. CASE StopTask
  BY <1>8, <1>b DEF StopTask, TaskOnly, ExitOrder, exitvars
<1>9. CASE Capture
  <2>1. UNCHANGED <<mode, palette, marking, video_dirty_chunks, overlayvars, splash,
                    dirty_tiles, panelvars, cpu>>
    BY <1>9 DEF Capture, TaskOnly, exitvars
  <2>2. Pending(t)
    BY <2>1, <1>a DEF Stale, Picture, overlayvars, panelvars
  <2>3. vpc = "capture" /\ vpc' = "drain" /\ frame'.full = force_full_update
    BY <1>9 DEF Capture
  <2> QED BY <2>1, <2>2, <2>3 DEF Pending, overlayvars
<1>10. CASE Drain
  <2>1. UNCHANGED <<mode, palette, force_full_update, marking, overlayvars, splash, panelvars, frame, cpu>>
    BY <1>10 DEF Drain, TaskOnly, batchvars, exitvars
  <2>2. Pending(t)
    BY <2>1, <1>a DEF Stale, Picture, guestvars, overlayvars, panelvars
  <2>3. /\ vpc' \in {"drain", "collect"}
        /\ t \in dirty_tiles \union video_dirty_chunks => t \in dirty_tiles' \union video_dirty_chunks'
    BY <1>10 DEF Drain, NextWord
  <2> QED BY <2>1, <2>2, <2>3 DEF Pending, guestvars, overlayvars
<1>11. CASE Collect
  <2>1. UNCHANGED <<guestvars, published, overlay_damage, splash, panelvars, frame, cpu>>
    BY <1>11 DEF Collect, TaskOnly, batchvars, exitvars
  <2>2. Pending(t)
    BY <2>1, <1>a DEF Stale, Picture, guestvars, overlayvars, panelvars
  <2>3. /\ vpc' \in {"collect", "gate"}
        /\ t \in dirty_tiles \union write_dirty_tiles => t \in dirty_tiles' \union write_dirty_tiles'
    BY <1>11 DEF Collect, NextWord
  <2> QED BY <2>1, <2>2, <2>3 DEF Pending, guestvars, overlayvars
<1>12. CASE KeepSplash
  BY <1>12 DEF KeepSplash, Pending
<1>13. CASE Handoff
  BY <1>13 DEF Handoff, Pending
<1>14. CASE StartFrame
  <2>1. UNCHANGED <<guestvars, overlayvars, splash, panelvars, cpu>>
    BY <1>14 DEF StartFrame, TaskOnly, exitvars
  <2>2. Pending(t)
    BY <2>1, <1>a DEF Stale, Picture, guestvars, overlayvars, panelvars
  <2>3. vpc' # "draw" /\ (frame.full \/ t \in dirty_tiles => t \in dirty_tiles')
    BY <1>14 DEF StartFrame
  <2> QED BY <2>1, <2>2, <2>3 DEF Pending, guestvars, overlayvars
<1>15. CASE BeginFrame
  <2>1. UNCHANGED <<guestvars, overlayvars, splash, at, dirty_tiles, panelvars, cpu>>
    BY <1>15 DEF BeginFrame, TaskOnly, exitvars
  <2>2. Pending(t)
    BY <2>1, <1>a DEF Stale, Picture, guestvars, overlayvars, panelvars
  <2>3. vpc = "begin" /\ at = 0 /\ ~(t < at)
    BY <1>15, <1>b, TileNat DEF BeginFrame, BatchOK
  <2> QED BY <2>1, <2>2, <2>3 DEF Pending, guestvars, overlayvars
<1>16. ASSUME NEW u \in Tile, DrawTile(u) PROVE Pending(t)'
  <2>0. frame' = [frame EXCEPT !.under = IF panel[u] = Splash THEN @ \union {u} ELSE @]
    BY <1>16 DEF DrawTile
  <2>1. /\ UNCHANGED <<guestvars, overlayvars, splash, vpc, local_palette, dirty_tiles, cpu>>
        /\ frame'.full = frame.full
        /\ vpc = "draw" /\ at' = u + 1 /\ u \in dirty_tiles
        /\ \A v \in dirty_tiles : v >= at => u <= v
        /\ u \in Tile /\ u \in Nat /\ t \in Nat /\ at \in Nat
    BY <1>16, <1>b, <2>0, TileNat DEF DrawTile, exitvars, TypeOK, TaskType, Batch
  <2>2. CASE t # u
    <3>1. Stale(t)
      <4>1. panel'[t] = panel[t] /\ (t \in behind' <=> t \in behind)
        BY <1>16, <1>b, <2>2 DEF DrawTile, TypeOK, PanelType
      <4> QED BY <4>1, <2>1 DEF Stale, Picture, guestvars, overlayvars
    <3>2. Pending(t)
      BY <3>1, <1>a, <2>1
    <3>3. t \in dirty_tiles /\ ~(t < at) => ~(t < u + 1)
      BY <2>1, <2>2
    <3> QED BY <3>2, <3>3, <2>1 DEF Pending, guestvars, overlayvars
  <2>3. CASE t = u
    <3>1. /\ panel'[t] = [mode |-> frame.mode, palette |-> local_palette,
                          key |-> t \in frame.keys]
          /\ t \notin behind'
      BY <1>16, <1>b, <2>3 DEF DrawTile, TypeOK, PanelType
    <3>2. \/ frame.mode # mode \/ local_palette # palette
          \/ (t \in frame.keys) # (t \in published)
      BY <3>1, <2>1 DEF Stale, Picture, guestvars, overlayvars
    <3>3. force_full_update \/ t \in overlay_damage \union write_dirty_tiles
      BY <3>2, <2>1, <1>b DEF BatchOK, InBatch
    <3> QED BY <3>3, <2>1 DEF Pending, guestvars, overlayvars
  <2> QED BY <2>2, <2>3
<1>17. ASSUME NEW ok \in BOOLEAN, EndTiles(ok) PROVE Pending(t)'
  <2>1. /\ UNCHANGED <<guestvars, overlayvars, splash, cpu>>
        /\ vpc = "draw" /\ vpc' = "wait" /\ \A v \in dirty_tiles : v < at
    BY <1>17 DEF EndTiles, exitvars
  <2>2. CASE t \in dirty_tiles'
    BY <2>1, <2>2 DEF Pending
  <2>3. CASE t \notin dirty_tiles'
    <3>1. (t \in behind' <=> t \in behind) /\ panel'[t] = panel[t]
      BY <1>17, <2>3 DEF EndTiles, NotWritten, panelvars
    <3>2. Stale(t)
      BY <3>1, <2>1 DEF Stale, Picture, guestvars, overlayvars
    <3> QED BY <3>2, <1>a, <2>1 DEF Pending, guestvars, overlayvars
  <2> QED BY <2>2, <2>3
<1>18. CASE SplashTimeout
  BY <1>18 DEF SplashTimeout, Pending
<1>19. CASE ExitStop
  BY <1>19 DEF ExitStop
<1>20. CASE ExitClear
  BY <1>20 DEF ExitClear
<1>21. CASE ExitFree
  BY <1>21 DEF ExitFree
<1>22. CASE CaptureBusy
  <2>1. UNCHANGED <<guestvars, overlayvars, taskvars, panelvars, cpu>>
    BY <1>22 DEF CaptureBusy, CaptureStep
  <2> QED BY <2>1, <1>a DEF Stale, Picture, Pending, guestvars, overlayvars, taskvars, batchvars, panelvars
<1>23. CASE CaptureRead
  <2>1. UNCHANGED <<guestvars, overlayvars, taskvars, panelvars, cpu>>
    BY <1>23 DEF CaptureRead, CaptureStep
  <2> QED BY <2>1, <1>a DEF Stale, Picture, Pending, guestvars, overlayvars, taskvars, batchvars, panelvars
<1>24. CASE CaptureDone
  <2>1. UNCHANGED <<guestvars, overlayvars, taskvars, panelvars, cpu>>
    BY <1>24 DEF CaptureDone, CaptureStep
  <2> QED BY <2>1, <1>a DEF Stale, Picture, Pending, guestvars, overlayvars, taskvars, batchvars, panelvars
<1>25. CASE UNCHANGED vars
  BY <1>25, <1>a DEF vars, Stale, Picture, Pending, guestvars, overlayvars, taskvars,
     batchvars, panelvars, exitvars
<1> QED
  BY <1>1, <1>2, <1>3, <1>4, <1>5, <1>6, <1>7, <1>8, <1>9, <1>10, <1>11, <1>12, <1>13,
     <1>14, <1>15, <1>16, <1>17, <1>18, <1>19, <1>20, <1>21, <1>22, <1>23, <1>24,
     <1>25 DEF Next, Guest, Store, Mark, Overlay, VideoTask, Draw

LEMMA IInvInit == Init => IInv
<1> SUFFICES ASSUME Init PROVE IInv
  OBVIOUS
<1>1. BatchOK
  BY NoBatch DEF Init, BatchOK, InBatch
<1>2. ExitOrder
  BY DEF Init, ExitOrder
<1>3. Painted
  BY DEF Init, Painted
<1>4. DamagePending
  BY DEF Init, DamagePending, Pending
<1> QED BY <1>1, <1>2, <1>3, <1>4, TypeInit DEF IInv

\* The inductive invariant: types, the batch, the order of VideoExit, the splash
\* and the damage together.
THEOREM Invariance == Spec => []IInv
<1>1. IInv /\ [Next]_vars => IInv'
  BY TypeStep, ExitOrderStep, BatchOKStep, PaintedStep, DamageStep DEF IInv
<1> QED BY IInvInit, <1>1, PTL DEF Spec

\* Every variable keeps its type, for every geometry, palette and overlay.
THEOREM TypeCorrect == Spec => []TypeOK
<1>1. IInv => TypeOK
  BY DEF IInv
<1> QED BY Invariance, <1>1, PTL

\* No store, palette, mode or key of the overlay is lost by the renderer,
\* wherever it stands when they happen: markDirtyChunks, set_palette,
\* publish_overlay_state against collectWriteDirtyTiles and the batch.
THEOREM NoDamageLost == Spec => []DamagePending
<1>1. IInv => DamagePending
  BY DEF IInv
<1> QED BY Invariance, <1>1, PTL

\* Outside a batch the panel shows the whole splash until the handoff of
\* preserve_splash_until_first_write; from then on it shows splash only where the
\* next batch draws again, however many batches fail to be written back.
THEOREM SplashWhole == Spec => []HandoffWhole
<1>1. IInv => HandoffWhole
  BY DEF IInv, Painted, HandoffWhole
<1> QED BY Invariance, <1>1, PTL

\* VideoExit frees the frame buffer after its last reader: stopVideoTask's wait
\* for the renderer, video_capture_mutex for the automation task.
THEOREM NoUseAfterFree == Spec => []BufferLive
<1>1. IInv => BufferLive
  BY DEF IInv, ExitOrder, BufferLive
<1> QED BY Invariance, <1>1, PTL
=============================================================================
