----------------------------- MODULE HostedDisplay -----------------------------
(***************************************************************************)
(* The display of the Android build: HalDisplay composes a black-and-white *)
(* framebuffer and two gray planes, AndroidPanel holds the frame made from *)
(* them (stage) and posts it to the Surface of an Activity, which the UI   *)
(* thread hands over and withdraws at any moment.                          *)
(*                                                                         *)
(* The render task runs one drawing pass at a time (it holds RenderLock);  *)
(* the kinds of pass are the sequences of HalDisplay calls that the        *)
(* screens make.  AndroidPanel's mutex is taken by each call on its own.   *)
(* Pixels are abstracted to the number of the page they were drawn from.   *)
(***************************************************************************)
EXTENDS Naturals

CONSTANTS
  Windows,      \* surfaces the system may hand over
  NoWindow,     \* a null ANativeWindow*
  MaxPages,     \* bound on the pages drawn
  MayFail       \* kinds of pass in which storing the framebuffer, or reading
                \* the bitmap once more, may fail

(***************************************************************************)
(* plain   no grays, one displayBuffer()                                   *)
(* again   the framebuffer is displayed as it is, under a popup            *)
(* image   a page with images: the base is displayed, then the grays       *)
(* epub    a page with smoothed text: the base is staged, then the grays   *)
(* text    renderAntiAliased(): the same, for plain text                   *)
(* xtc     base staged, grays, then the base is drawn again                *)
(* bitmap  the same in the picture viewer                                  *)
(***************************************************************************)
Passes == {"plain", "again", "image", "epub", "text", "xtc", "bitmap"}

ASSUME DisplayAssumption ==
  /\ NoWindow \notin Windows
  /\ MaxPages \in Nat
  /\ MayFail \subseteq {"image", "epub", "text", "bitmap"}

VARIABLES
  page,       \* the page the last pass draws; 0 before the first
  frame,      \* what is drawn in the framebuffer: <<plane, page>>
  lsb, msb,   \* the pages copied to the two gray planes; 0: a null plane
  baseStaged, \* grayBaseStaged
  stage,      \* AndroidPanel::stage, by the pages of its base and its planes
  window,     \* AndroidPanel::win
  locked,     \* AndroidPanel::mtx is held by a present() of the render task
  target,     \* the window that present() locked
  pass, pc,   \* the pass and its next step
  ready,      \* the picture viewer's planesReady
  alive,      \* surfaces that may be written
  glass       \* the frame that each surface shows

buffers == <<page, frame, lsb, msb, baseStaged, stage>>
surface == <<window, alive>>
posting == <<locked, target>>
vars == <<buffers, surface, posting, pass, pc, ready, glass>>

Blank == [base |-> <<"bw", 0>>, grays |-> <<0, 0>>]
BaseOnly(content) == [base |-> content, grays |-> <<0, 0>>]

\* stageHasContent
HasContent == stage.base # Blank.base

Init ==
  /\ page = 0 /\ frame = <<"bw", 0>> /\ lsb = 0 /\ msb = 0
  /\ baseStaged = FALSE /\ stage = Blank
  /\ window = NoWindow /\ alive = {}
  /\ locked = FALSE /\ target = NoWindow
  /\ pass = "plain" /\ pc = "idle" /\ ready = TRUE
  /\ glass = [w \in Windows |-> Blank]

-----------------------------------------------------------------------------
(* Variants: plausible mistakes, used by no specification.                 *)

SurfaceDestroyed_Unlocked ==
  /\ \E w \in alive : alive' = alive \ {w}
  /\ window' = NoWindow
  /\ UNCHANGED <<buffers, posting, pass, pc, ready, glass>>

Represent_Never(w) == [glass EXCEPT ![w] = Blank]

Overlay_GivesUpTheBase ==
  /\ pc = "overlay"
  /\ IF lsb # 0 /\ msb # 0
       THEN /\ stage' = [stage EXCEPT !.grays = <<lsb, msb>>]
            /\ pc' = "refresh"
            /\ UNCHANGED baseStaged
       ELSE /\ baseStaged' = FALSE
            /\ pc' = "redraw"
            /\ UNCHANGED stage
  /\ UNCHANGED <<page, frame, lsb, msb, surface, posting, pass, ready, glass>>

PlaneFailed_GoesOn == pc' = "overlay"

Redraw_Skipped ==
  /\ pc = "redraw"
  /\ pc' = "cleanup"
  /\ UNCHANGED <<buffers, surface, posting, pass, ready, glass>>

-----------------------------------------------------------------------------
(***************************************************************************)
(* The render task: one drawing pass.                                      *)
(***************************************************************************)

\* present() takes the lock, and the window if there is one ...
Present(next) ==
  /\ locked' = TRUE
  /\ target' = window
  /\ pc' = next

\* A screen draws its next page, or shows the framebuffer once more.
StartPass ==
  /\ pc = "idle"
  /\ \E p \in Passes :
       /\ pass' = p
       /\ IF p = "again"
            THEN page > 0 /\ UNCHANGED <<page, frame>>
            ELSE page < MaxPages /\ page' = page + 1 /\ frame' = <<"bw", page'>>
       /\ pc' = IF p \in {"plain", "again", "image"} THEN "show" ELSE "base"
  /\ UNCHANGED <<lsb, msb, baseStaged, stage, surface, posting, ready, glass>>

\* displayBuffer() -> AndroidPanel::display(): staged and posted in one lock.
\* A base that was staged for grays is superseded.
Show ==
  /\ pc = "show"
  /\ baseStaged' = FALSE
  /\ stage' = BaseOnly(frame)
  /\ Present("posting")
  /\ UNCHANGED <<page, frame, lsb, msb, surface, pass, ready, glass>>

\* displayGrayscaleBase() -> AndroidPanel::stageFrame(): nothing is posted.
StageBase ==
  /\ pc = "base"
  /\ stage' = BaseOnly(frame)
  /\ baseStaged' = TRUE
  /\ pc' = IF pass \in {"epub", "text"} THEN "store" ELSE "lsb"
  /\ UNCHANGED <<page, frame, lsb, msb, surface, posting, pass, ready, glass>>

\* storeBwBuffer(); renderAntiAliased() flushes the base when it fails, the
\* EPUB reader's renderContents() returns.
StoreFrame ==
  /\ pc = "store"
  /\ \/ pc' = "lsb"
     \/ pass \in MayFail /\ pc' = IF pass = "text" THEN "cleanup" ELSE "idle"
  /\ UNCHANGED <<buffers, surface, posting, pass, ready, glass>>

\* copyGrayscale*Buffers(): a plane is allocated when it is first copied and
\* kept from then on.  With no memory for it nothing is stored, and the pass
\* goes on.
Copied(plane) == {page} \cup ({plane} \cap {0})

\* A plane is drawn over the framebuffer and copied.
DrawLsb ==
  /\ pc = "lsb"
  /\ frame' = <<"lsb", page>>
  /\ lsb' \in Copied(lsb)
  /\ pc' = "msb"
  /\ UNCHANGED <<page, msb, baseStaged, stage, surface, posting, pass, ready,
                 glass>>

DrawMsb ==
  /\ pc = "msb"
  /\ frame' = <<"msb", page>>
  /\ msb' \in Copied(msb)
  /\ pc' = "overlay"
  /\ UNCHANGED <<page, lsb, baseStaged, stage, surface, posting, pass, ready,
                 glass>>

\* The picture cannot be read again: its planes are given up.
PlaneFailed == pc' = "redraw"

GiveUpPlanes ==
  /\ pc \in {"lsb", "msb"}
  /\ pass = "bitmap" /\ pass \in MayFail
  /\ \E plane \in {frame[1], pc} : frame' = <<plane, page>>
  /\ ready' = FALSE
  /\ PlaneFailed
  /\ UNCHANGED <<page, lsb, msb, baseStaged, stage, surface, posting, pass, glass>>

HavePlanes == lsb # 0 /\ msb # 0

\* displayGrayBuffer(): stageGrayOverlay(), if there are two planes ...
Overlay ==
  /\ pc = "overlay"
  /\ stage' = IF HavePlanes THEN [stage EXCEPT !.grays = <<lsb, msb>>] ELSE stage
  /\ pc' = IF HavePlanes \/ baseStaged THEN "refresh" ELSE "redraw"
  /\ UNCHANGED <<page, frame, lsb, msb, baseStaged, surface, posting, pass, ready,
                 glass>>

\* ... and refresh() under a lock of its own, of a staged base without grays
\* too.
Refresh ==
  /\ pc = "refresh"
  /\ Present("postingGrays")
  /\ UNCHANGED <<buffers, surface, pass, ready, glass>>

\* restoreBwBuffer(), or the base is drawn again.
Redraw ==
  /\ pc = "redraw"
  /\ frame' = <<"bw", page>>
  /\ \/ UNCHANGED ready
     \/ pass = "bitmap" /\ pass \in MayFail /\ ready' = FALSE
  /\ pc' = "cleanup"
  /\ UNCHANGED <<page, lsb, msb, baseStaged, stage, surface, posting, pass, glass>>

\* cleanupGrayscaleBuffers() rescues a base that was staged and never posted.
\* It stages the frame ...
Cleanup ==
  /\ pc = "cleanup"
  /\ IF baseStaged
       THEN stage' = BaseOnly(frame) /\ pc' = "flush"
       ELSE pc' = (IF ready THEN "idle" ELSE "show") /\ UNCHANGED stage
  /\ UNCHANGED <<page, frame, lsb, msb, baseStaged, surface, posting, pass, ready,
                 glass>>

\* ... and refreshes.
Flush ==
  /\ pc = "flush"
  /\ Present("postingBase")
  /\ UNCHANGED <<buffers, surface, pass, ready, glass>>

\* ... copies the stage to it, posts it and gives the lock back.
Post ==
  /\ pc \in {"posting", "postingGrays", "postingBase"}
  /\ glass' = IF target = NoWindow THEN glass
              ELSE [glass EXCEPT ![target] = stage]
  /\ locked' = FALSE
  /\ target' = NoWindow
  /\ baseStaged' = FALSE
  /\ pc' = CASE pc = "postingGrays" -> "redraw"
             [] pc = "posting" -> IF pass = "image" THEN "store" ELSE "idle"
             [] pc = "postingBase" -> IF ready THEN "idle" ELSE "show"
  /\ ready' = (ready \/ pc = "posting")
  /\ UNCHANGED <<page, frame, lsb, msb, stage, surface, pass>>

-----------------------------------------------------------------------------
(***************************************************************************)
(* The UI thread: nativeSetSurface().  Each call takes AndroidPanel's      *)
(* mutex for all it does.                                                  *)
(***************************************************************************)

\* What a window shows once it was handed over: the last staged frame, if any.
Represent(w) == IF HasContent THEN [glass EXCEPT ![w] = stage] ELSE glass

\* surfaceCreated() with a new surface, surfaceChanged() with the same.  Two
\* Activities may overlap: the last to hand its surface over has the panel.
SurfaceReady ==
  /\ ~locked
  /\ \E w \in Windows :
       /\ alive' = alive \cup {w}
       /\ window' = w
       /\ glass' = Represent(w)
  /\ UNCHANGED <<buffers, posting, pass, pc, ready>>

\* surfaceDestroyed(): when it returns the surface is no longer valid, and a
\* surface that is created later shows nothing.  Whichever surface goes, the
\* panel loses the one it has.
SurfaceDestroyed ==
  /\ ~locked
  /\ \E w \in alive :
       /\ alive' = alive \ {w}
       /\ glass' = [glass EXCEPT ![w] = Blank]
  /\ window' = NoWindow
  /\ UNCHANGED <<buffers, posting, pass, pc, ready>>

-----------------------------------------------------------------------------
Draw == StartPass \/ Show \/ StageBase \/ StoreFrame \/ DrawLsb \/ DrawMsb
        \/ GiveUpPlanes \/ Overlay \/ Refresh \/ Redraw \/ Cleanup \/ Flush
        \/ Post

Next == Draw \/ SurfaceReady \/ SurfaceDestroyed

Spec == Init /\ [][Next]_vars

-----------------------------------------------------------------------------
(***************************************************************************)
(* Properties.                                                             *)
(***************************************************************************)

\* The render task never writes a surface that surfaceDestroyed() has returned
\* from: the withdrawal waits for the paint in progress.
WritesLiveSurface == target # NoWindow => target \in alive

\* Whenever no pass is being drawn, a surface shows the last page as it was
\* composed, whenever it was handed over and whatever failed in the pass: a
\* base that was staged for planes that then had no memory is presented too.
IdleShowsThePage ==
  pc = "idle" /\ page > 0 /\ window # NoWindow =>
    glass[window] = stage /\ stage.base = <<"bw", page>>

\* Grays are only ever shown over the base they were drawn for, both planes of
\* them: planes kept from an earlier page are never reused.
GraysMatchTheirBase ==
  \A w \in Windows : glass[w].grays # <<0, 0>> =>
    \E p \in 1 .. page : glass[w] = [base |-> <<"bw", p>>, grays |-> <<p, p>>]

\* Between passes the framebuffer holds the page, so that a popup drawn over it
\* or a redisplay finds the page and not one of its planes.
IdleFrameIsThePage == pc = "idle" => frame = <<"bw", page>>
=============================================================================
