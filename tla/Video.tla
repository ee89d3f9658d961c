------------------------------- MODULE Video -------------------------------
(***************************************************************************)
(* The display pipeline: the panel follows the guest's frame buffer.       *)
(*                                                                         *)
(* The guest stores pixels and then raises one damage flag per span of     *)
(* pixels; the touch overlay publishes its look and then marks tiles; a    *)
(* change of mode or palette asks for a full redraw.  The video task takes *)
(* mode and palette, then the flags word by word, then the look of the     *)
(* overlay, and redraws the dirty tiles from the live frame buffer.  A     *)
(* serial capture holds the task back, VideoExit stops it and frees the    *)
(* frame buffer.  A span of pixels is exactly one tile wide at every depth,*)
(* so the model has one flag per tile; a deeper mode has more bytes to it. *)
(* Pixels are not modelled: behind is the set of tiles whose picture is    *)
(* older than a byte they show.  When writing the rows back fails, nothing  *)
(* is known of the tiles of the batch: they show the new picture, the old  *)
(* one, or parts of both (Torn), and any of them may still be splash.      *)
(***************************************************************************)
EXTENDS Integers, FiniteSets

CONSTANTS
  TOTAL_TILES,
  PerWord,         \* flags in one word of a bitmap
  Mode,            \* video depths
  SpanBytes,       \* bytes to a span of pixels in a mode
  Size,            \* frame_buffer_size
  StartMode,       \* MAC_SCREEN_DEPTH
  Palette,
  DefaultPalette,  \* the palette initDefaultPalette sets up for a mode
  Overlaid,        \* the tiles the overlay's keys may cover
  Splash,          \* the picture painted before the emulator starts
  Torn             \* a picture that may be new, old or parts of both

Tile  == 0..TOTAL_TILES - 1
Shown == [mode: Mode, palette: Palette, key: BOOLEAN]
Batch == [full: BOOLEAN, mode: Mode, keys: SUBSET Overlaid, under: SUBSET Tile]

ASSUME VideoAssumption ==
  /\ TOTAL_TILES \in Nat \ {0} /\ PerWord \in Nat \ {0} /\ Size \in Nat
  /\ SpanBytes \in [Mode -> Nat \ {0}]
  /\ StartMode \in Mode
  /\ DefaultPalette \in [Mode -> Palette]
  /\ Overlaid \subseteq Tile
  /\ Splash \notin Shown /\ Torn \notin Shown /\ Splash # Torn

VARIABLES
  mode, palette,            \* current_depth with its geometry; palette_rgb565
  palette_changed, force_full_update,
  marking,                  \* flags the guest's latest store has yet to raise
  video_dirty_chunks,       \* flags that are up
  published,                \* tiles on which the overlay shows a key
  overlay_damage,           \* tiles it has yet to mark
  write_dirty_tiles,
  splash,                   \* preserve_splash_until_first_write, and its timeout
  vpc, at,                  \* where the video task is, and at which word or tile
  frame,                    \* what it took for this batch, and the tiles it has
                            \*   drawn over the splash
  local_palette,
  dirty_tiles,
  panel, behind,            \* what the panel shows
  cpu,                      \* the emulation task: the guest, or VideoExit
  video_task_running,
  mac_frame_buffer,         \* it is allocated
  capture                   \* the automation task: s_serial_capture_busy, reading
                            \*   the frame buffer meanwhile, or for VideoVerifyPanel

guestvars   == <<mode, palette, palette_changed, force_full_update, marking,
                 video_dirty_chunks>>
overlayvars == <<published, overlay_damage, write_dirty_tiles>>
batchvars   == <<frame, local_palette>>
panelvars   == <<panel, behind>>
taskvars    == <<splash, vpc, at, batchvars, dirty_tiles>>
exitvars    == <<cpu, video_task_running, mac_frame_buffer, capture>>
vars == <<guestvars, overlayvars, taskvars, panelvars, exitvars>>

Span(m, t) == t * SpanBytes[m] .. (t + 1) * SpanBytes[m] - 1
Word(w)    == {t \in Tile : t \div PerWord = w}
LastWord   == (TOTAL_TILES - 1) \div PerWord
Reading    == {"reading", "verify"}
NoFrame    == [full |-> FALSE, mode |-> StartMode, keys |-> {}, under |-> {}]

GuestType ==
  /\ mode \in Mode /\ palette \in Palette
  /\ palette_changed \in BOOLEAN /\ force_full_update \in BOOLEAN
  /\ marking \subseteq Tile /\ video_dirty_chunks \subseteq Tile
OverlayType ==
  /\ published \subseteq Overlaid /\ overlay_damage \subseteq Tile
  /\ write_dirty_tiles \subseteq Tile
TaskType ==
  /\ splash \in {"kept", "timed_out", "gone"}
  /\ vpc \in {"wait", "capture", "drain", "collect", "gate", "begin", "draw", "stopped"}
  /\ at \in Nat
  /\ frame \in Batch
  /\ local_palette \in Palette
  /\ dirty_tiles \subseteq Tile
PanelType ==
  panel \in [Tile -> Shown \union {Splash, Torn}] /\ behind \subseteq Tile
ExitType ==
  /\ cpu \in {"guest", "stopping", "freeing", "exited"}
  /\ video_task_running \in BOOLEAN /\ mac_frame_buffer \in BOOLEAN
  /\ capture \in {"none", "busy", "reading", "verify"}
TypeOK == GuestType /\ OverlayType /\ TaskType /\ PanelType /\ ExitType

\* VideoInit, after the splash was painted.
Init ==
  /\ mode = StartMode /\ palette = DefaultPalette[StartMode]
  /\ palette_changed = TRUE /\ force_full_update = TRUE
  /\ marking = {} /\ video_dirty_chunks = {}
  /\ published = {} /\ overlay_damage = {} /\ write_dirty_tiles = {}
  /\ splash = "kept"
  /\ vpc = "wait" /\ at = 0
  /\ frame = NoFrame /\ local_palette \in Palette
  /\ dirty_tiles = {}
  /\ panel = [t \in Tile |-> Splash] /\ behind = {}
  /\ cpu = "guest" /\ video_task_running = TRUE /\ mac_frame_buffer = TRUE
  /\ capture = "none"

-----------------------------------------------------------------------------
(* The guest. *)

InGuest == cpu = "guest" /\ marking = {}
GuestOnly == UNCHANGED <<overlayvars, taskvars, exitvars>>

\* Mutant: the bytes past the displayed rows are flagged too.
Chunks_NoLimit(lo, hi) ==
  {c \in 0..Size : lo..hi \intersect Span(mode, c) # {}}

\* The spans of a store; bytes at or past video_dirty_limit have none.
Chunks(lo, hi) == {c \in Tile : lo..hi \intersect Span(mode, c) # {}}

\* A CPU store, or a block that EmulOp or QuickDraw fills: all its pixels come
\* before the first flag.
StorePixels(lo, hi) ==
  /\ InGuest
  /\ behind' = behind \union
       {t \in Tile : panel[t] \in Shown /\ lo..hi \intersect Span(panel[t].mode, t) # {}}
  /\ marking' = Chunks(lo, hi)
  /\ UNCHANGED <<mode, palette, palette_changed, force_full_update,
                 video_dirty_chunks, panel>>
  /\ GuestOnly

\* markDirtyChunks: plain byte stores, in the order of the spans.
MarkChunk(c) ==
  /\ c \in marking /\ \A d \in marking : c <= d
  /\ video_dirty_chunks' = video_dirty_chunks \union {c}
  /\ marking' = marking \ {c}
  /\ UNCHANGED <<mode, palette, palette_changed, force_full_update, panelvars>>
  /\ GuestOnly

\* set_palette, under frame_spinlock.
SetPalette(p) ==
  /\ InGuest
  /\ palette' = p
  /\ palette_changed' = TRUE /\ force_full_update' = TRUE
  /\ UNCHANGED <<mode, marking, video_dirty_chunks, panelvars>>
  /\ GuestOnly

\* Mutant: the mode is published without asking for a redraw.
SwitchMode_NoRedraw(m) ==
  /\ InGuest
  /\ mode' = m /\ palette' = DefaultPalette[m]
  /\ palette_changed' = TRUE
  /\ UNCHANGED <<force_full_update, marking, video_dirty_chunks, panelvars>>
  /\ GuestOnly

\* switch_to_current_mode: initDefaultPalette publishes depth, geometry and
\* palette together.
SwitchMode(m) ==
  /\ InGuest
  /\ mode' = m /\ palette' = DefaultPalette[m]
  /\ palette_changed' = TRUE /\ force_full_update' = TRUE
  /\ UNCHANGED <<marking, video_dirty_chunks, panelvars>>
  /\ GuestOnly

Store == \E lo, hi \in 0..Size - 1 : lo <= hi /\ StorePixels(lo, hi)
Mark  == \E c \in Tile : MarkChunk(c)
Guest == Store \/ Mark \/ (\E p \in Palette : SetPalette(p))
               \/ (\E m \in Mode : SwitchMode(m))

-----------------------------------------------------------------------------
(* The touch overlay, under its input mutex. *)

OverlayOnly ==
  UNCHANGED <<guestvars, taskvars, panelvars, exitvars>>

\* publish_overlay_state: the look first, with the damage that goes with it.
PublishOverlay(keys) ==
  /\ overlay_damage = {} /\ keys # published
  /\ published' = keys
  /\ overlay_damage' = (keys \ published) \union (published \ keys)
  /\ UNCHANGED write_dirty_tiles
  /\ OverlayOnly

\* VideoMarkTilesDirtyRect: one atomic or per tile.
MarkTile(t) ==
  /\ t \in overlay_damage /\ \A u \in overlay_damage : t <= u
  /\ write_dirty_tiles' = write_dirty_tiles \union {t}
  /\ overlay_damage' = overlay_damage \ {t}
  /\ UNCHANGED published
  /\ OverlayOnly

Overlay == (\E keys \in SUBSET Overlaid : PublishOverlay(keys))
           \/ (\E t \in Tile : MarkTile(t))

-----------------------------------------------------------------------------
(* The video task. *)

TaskOnly == UNCHANGED <<panelvars, exitvars>>

\* A notification or the timeout of the frame interval.  A capture over serial
\* sends the task back to wait.
Wake ==
  /\ vpc = "wait" /\ video_task_running /\ capture \in {"none", "verify"}
  /\ vpc' = "capture"
  /\ UNCHANGED <<guestvars, overlayvars, splash, at, batchvars, dirty_tiles>>
  /\ TaskOnly

\* Mutant: the task leaves only once nothing is dirty.
StopTask_WhenClean ==
  /\ vpc = "wait" /\ ~video_task_running /\ dirty_tiles = {}
  /\ vpc' = "stopped"
  /\ UNCHANGED <<guestvars, overlayvars, splash, at, batchvars, dirty_tiles>>
  /\ TaskOnly

\* The task gives video_task_stopped and deletes itself.
StopTask ==
  /\ vpc = "wait" /\ ~video_task_running
  /\ vpc' = "stopped"
  /\ UNCHANGED <<guestvars, overlayvars, splash, at, batchvars, dirty_tiles>>
  /\ TaskOnly

\* Under frame_spinlock: the redraw request, the mode and the palette.
Capture ==
  /\ vpc = "capture"
  /\ frame' = [NoFrame EXCEPT !.full = force_full_update, !.mode = mode]
  /\ local_palette' = IF palette_changed THEN palette ELSE local_palette
  /\ force_full_update' = FALSE /\ palette_changed' = FALSE
  /\ vpc' = "drain"
  /\ UNCHANGED <<mode, palette, marking, video_dirty_chunks, overlayvars, splash, at,
                 dirty_tiles>>
  /\ TaskOnly

NextWord(to) ==
  IF at = LastWord THEN vpc' = to /\ at' = 0 ELSE at' = at + 1 /\ UNCHANGED vpc

\* collectWriteDirtyTiles swaps a word of flags for 0.
Drain ==
  /\ vpc = "drain"
  /\ dirty_tiles' = dirty_tiles \union (video_dirty_chunks \intersect Word(at))
  /\ video_dirty_chunks' = video_dirty_chunks \ Word(at)
  /\ NextWord("collect")
  /\ UNCHANGED <<mode, palette, palette_changed, force_full_update, marking,
                 overlayvars, splash, batchvars>>
  /\ TaskOnly

\* Then a word of the tiles marked by the overlay.
Collect ==
  /\ vpc = "collect"
  /\ dirty_tiles' = dirty_tiles \union (write_dirty_tiles \intersect Word(at))
  /\ write_dirty_tiles' = write_dirty_tiles \ Word(at)
  /\ NextWord("gate")
  /\ UNCHANGED <<guestvars, published, overlay_damage, splash, batchvars>>
  /\ TaskOnly

\* The splash stays while nothing was drawn or the frame has one colour.
KeepSplash ==
  /\ vpc = "gate" /\ splash = "kept"
  /\ vpc' = "wait" /\ frame' = NoFrame
  /\ UNCHANGED <<guestvars, overlayvars, splash, at, local_palette, dirty_tiles>>
  /\ TaskOnly

\* Mutant: the handoff leaves the whole redraw to the next frame.
Handoff_NextFrame ==
  /\ vpc = "gate" /\ splash # "gone"
  /\ splash = "timed_out" \/ dirty_tiles # {}
  /\ splash' = "gone"
  /\ force_full_update' = TRUE
  /\ vpc' = "begin"
  /\ UNCHANGED <<mode, palette, palette_changed, marking, video_dirty_chunks,
                 overlayvars, at, batchvars, dirty_tiles>>
  /\ TaskOnly

\* Otherwise the whole screen is redrawn, once.
Handoff ==
  /\ vpc = "gate" /\ splash # "gone"
  /\ splash = "timed_out" \/ dirty_tiles # {}
  /\ splash' = "gone"
  /\ dirty_tiles' = Tile
  /\ vpc' = "begin"
  /\ UNCHANGED <<guestvars, overlayvars, at, batchvars>>
  /\ TaskOnly

StartFrame ==
  /\ vpc = "gate" /\ splash = "gone"
  /\ dirty_tiles' = IF frame.full THEN Tile ELSE dirty_tiles
  /\ IF dirty_tiles' = {} THEN vpc' = "wait" /\ frame' = NoFrame
                          ELSE vpc' = "begin" /\ UNCHANGED frame
  /\ UNCHANGED <<guestvars, overlayvars, splash, at, local_palette>>
  /\ TaskOnly

\* TouchOverlay_BeginFrame and BoardDisplay_BeginTiles.  (The latter fails only
\* without the surface, and then BoardDisplay_Init failed and setup halted.)
BeginFrame ==
  /\ vpc = "begin"
  /\ frame' = [frame EXCEPT !.keys = published]
  /\ vpc' = "draw"
  /\ UNCHANGED <<guestvars, overlayvars, splash, at, local_palette, dirty_tiles>>
  /\ TaskOnly

\* One tile, from the frame buffer as it is now, in the mode, the palette and
\* the look of the batch.
DrawTile(t) ==
  /\ vpc = "draw" /\ t \in dirty_tiles /\ t >= at
  /\ \A u \in dirty_tiles : u >= at => t <= u
  /\ panel' = [panel EXCEPT ![t] = [mode |-> frame.mode, palette |-> local_palette,
                                    key |-> t \in frame.keys]]
  /\ behind' = behind \ {t}
  /\ frame' = [frame EXCEPT !.under = IF panel[t] = Splash THEN @ \union {t} ELSE @]
  /\ at' = t + 1
  /\ UNCHANGED <<guestvars, overlayvars, splash, vpc, local_palette, dirty_tiles, exitvars>>

\* Any of the rows drawn may not have been written back: their tiles may show
\* what they did before.
NotWritten ==
  /\ \E left \in SUBSET frame.under :
       panel' = [t \in Tile |-> IF t \notin dirty_tiles THEN panel[t]
                               ELSE IF t \in left THEN Splash ELSE Torn]
  /\ behind' = behind \ dirty_tiles

\* Mutant: the damage is forgotten whether or not the rows were written back.
EndTiles_Forgets(ok) ==
  /\ vpc = "draw" /\ \A t \in dirty_tiles : t < at
  /\ dirty_tiles' = {}
  /\ IF ok THEN UNCHANGED panelvars
           ELSE NotWritten
  /\ vpc' = "wait" /\ at' = 0 /\ frame' = NoFrame
  /\ UNCHANGED <<guestvars, overlayvars, splash, local_palette, exitvars>>

\* BoardDisplay_EndTiles: when it fails some of the rows may not have been
\* written back, and all the damage is kept.
EndTiles(ok) ==
  /\ vpc = "draw" /\ \A t \in dirty_tiles : t < at
  /\ IF ok THEN dirty_tiles' = {} /\ UNCHANGED panelvars
           ELSE UNCHANGED dirty_tiles /\ NotWritten
  /\ vpc' = "wait" /\ at' = 0 /\ frame' = NoFrame
  /\ UNCHANGED <<guestvars, overlayvars, splash, local_palette, exitvars>>

Draw == \E t \in Tile : DrawTile(t)
VideoTask == Wake \/ StopTask \/ Capture \/ Drain \/ Collect \/ KeepSplash \/ Handoff
             \/ StartFrame \/ BeginFrame \/ Draw \/ (\E ok \in BOOLEAN : EndTiles(ok))

\* PRESERVE_SPLASH_MAX_MS have passed.
SplashTimeout ==
  /\ splash = "kept"
  /\ splash' = "timed_out"
  /\ UNCHANGED <<guestvars, overlayvars, vpc, at, batchvars, dirty_tiles>>
  /\ TaskOnly

-----------------------------------------------------------------------------
(* VideoExit, on the emulation task, and captures by the automation task. *)

\* stopVideoTask, up to its wait.
ExitStop ==
  /\ InGuest
  /\ video_task_running' = FALSE
  /\ cpu' = "stopping"
  /\ UNCHANGED <<guestvars, overlayvars, taskvars,
                 panelvars, mac_frame_buffer, capture>>

\* Mutant: the task is told to stop but not waited for.
ExitClear_NoWait ==
  /\ cpu = "stopping"
  /\ dirty_tiles' = {} /\ write_dirty_tiles' = {} /\ video_dirty_chunks' = {}
  /\ cpu' = "freeing"
  /\ UNCHANGED <<mode, palette, palette_changed, force_full_update, marking, published,
                 overlay_damage, splash, vpc, at, batchvars, panelvars,
                 video_task_running, mac_frame_buffer, capture>>

\* The task has stopped: the bitmaps are cleared.
ExitClear ==
  /\ cpu = "stopping" /\ vpc = "stopped"
  /\ dirty_tiles' = {} /\ write_dirty_tiles' = {} /\ video_dirty_chunks' = {}
  /\ cpu' = "freeing"
  /\ UNCHANGED <<mode, palette, palette_changed, force_full_update, marking, published,
                 overlay_damage, splash, vpc, at, batchvars, panelvars,
                 video_task_running, mac_frame_buffer, capture>>

\* Under video_capture_mutex.
ExitFree ==
  /\ cpu = "freeing" /\ capture \notin Reading
  /\ mac_frame_buffer' = FALSE
  /\ cpu' = "exited"
  /\ UNCHANGED <<guestvars, overlayvars, taskvars,
                 panelvars, video_task_running, capture>>

\* The automation task reads the frame buffer, if it finds one under the mutex.
\* s_serial_capture_busy is set around a capture, not around VideoVerifyPanel.
CaptureStep(from, to) ==
  /\ capture = from
  /\ capture' = to
  /\ UNCHANGED <<guestvars, overlayvars, taskvars,
                 panelvars, cpu, video_task_running, mac_frame_buffer>>

CaptureBusy == CaptureStep("none", "busy")
CaptureRead ==
  mac_frame_buffer /\ (CaptureStep("busy", "reading") \/ CaptureStep("none", "verify"))
CaptureDone == \E from \in {"busy", "reading", "verify"} : CaptureStep(from, "none")

Next == Guest \/ Overlay \/ VideoTask \/ SplashTimeout \/ ExitStop \/ ExitClear
        \/ ExitFree \/ CaptureBusy \/ CaptureRead \/ CaptureDone

Spec == Init /\ [][Next]_vars

\* Every task goes on, captures leave the renderer its turns, and writing back
\* rows does not fail for ever.  Nothing obliges the guest or the user to act.
Fairness ==
  /\ WF_vars(Mark) /\ WF_vars(\E t \in Tile : MarkTile(t))
  /\ SF_vars(Wake)
  /\ WF_vars(StopTask \/ Capture \/ Drain \/ Collect \/ StartFrame \/ BeginFrame
             \/ Draw)
  /\ WF_vars(KeepSplash \/ Handoff)
  /\ WF_vars(\E ok \in BOOLEAN : EndTiles(ok)) /\ SF_vars(EndTiles(TRUE))
  /\ WF_vars(SplashTimeout)
  /\ WF_vars(ExitClear) /\ SF_vars(ExitFree) /\ WF_vars(CaptureDone)

LiveSpec == Spec /\ Fairness

-----------------------------------------------------------------------------
(* Properties. *)

Picture(t) == [mode |-> mode, palette |-> palette, key |-> t \in published]
Stale(t) == panel[t] # Picture(t) \/ t \in behind

\* Something will have the tile drawn again.
Pending(t) ==
  \/ force_full_update \/ splash # "gone"
  \/ frame.full /\ vpc \in {"drain", "collect", "gate"}
  \/ t \in marking \union video_dirty_chunks \union overlay_damage \union write_dirty_tiles
  \/ t \in dirty_tiles /\ ~(vpc = "draw" /\ t < at)

\* No change is lost: while the guest runs, a tile of the panel that shows old
\* pixels, an old mode or palette, or an old look of the overlay is covered by
\* damage that is still to be drawn, whatever the order in which the guest, the
\* overlay and the video task take their steps and whether or not rows are
\* written back.  In particular the panel of a settled screen is what
\* VideoVerifyPanel expects of it.
DamagePending == cpu = "guest" => \A t \in Tile : Stale(t) => Pending(t)

\* The handoff replaces the whole splash.  Until it, nothing but the splash is
\* on the panel; from it on, outside a batch, splash is left only on tiles that
\* the next batch draws again, because there was no batch yet or because its
\* rows could not be written back: no batch that ends well leaves any, nor does
\* any damage, mode or key that comes meanwhile.  (VideoExit drops the damage.)
HandoffWhole ==
  vpc # "draw" /\ cpu \in {"guest", "stopping"} =>
    \A t \in Tile : IF splash = "gone" THEN panel[t] = Splash => t \in dirty_tiles
                                      ELSE panel[t] = Splash

\* VideoExit never frees a frame buffer that the renderer, the test of the
\* splash gate or a capture is reading.
BufferLive ==
  vpc \in {"gate", "begin", "draw"} \/ capture \in Reading => mac_frame_buffer

Changes ==
  Store \/ (\E p \in Palette : SetPalette(p)) \/ (\E m \in Mode : SwitchMode(m))
        \/ (\E keys \in SUBSET Overlaid : PublishOverlay(keys))

\* When the guest and the overlay leave the screen alone, the panel comes to
\* show it and stays so; also a frame of one colour, by the timeout.
PanelCatchesUp ==
  <>[][~Changes]_vars => <>[](cpu # "guest" \/ \A t \in Tile : ~Stale(t))

\* VideoExit gets past the wait for the task and past the mutex.
ExitEnds == cpu = "stopping" ~> cpu = "exited"
=============================================================================
