------------------------- MODULE HostedDisplayProofs -------------------------
(***************************************************************************)
(* Proofs about HostedDisplay, for any set of surfaces and any number of   *)
(* pages: no destroyed surface is written, and whenever no pass is being   *)
(* drawn the surface shows the whole last page.                            *)
(***************************************************************************)
EXTENDS HostedDisplay, TLAPS

Frames == {"bw", "lsb", "msb"} \X Nat
Stages == [base : Frames, grays : Nat \X Nat]

-----------------------------------------------------------------------------
(* The inductive invariant.                                                *)

TypeInv ==
  /\ page \in Nat /\ lsb \in Nat /\ msb \in Nat
  /\ frame \in Frames /\ stage \in Stages /\ glass \in [Windows -> Stages]
  /\ window \in Windows \cup {NoWindow} /\ alive \subseteq Windows
  /\ locked \in BOOLEAN /\ baseStaged \in BOOLEAN /\ ready \in BOOLEAN

Posting == {"posting", "postingGrays", "postingBase"}

\* A present holds the lock from taking the window to posting, so that the
\* window it took is the one the panel has.
SurfaceInv ==
  /\ window # NoWindow => window \in alive
  /\ locked <=> pc \in Posting
  /\ target = IF locked THEN window ELSE NoWindow

\* Where the framebuffer, the planes and the stage are in the pass.
PassInv ==
  /\ pc \in {"idle", "show", "base", "store", "lsb", "msb", "overlay", "refresh",
             "redraw", "cleanup", "flush"} \cup Posting
  /\ pc # "idle" => page > 0
  /\ pc \notin {"msb", "overlay", "refresh", "postingGrays", "redraw"} => frame = <<"bw", page>>
  /\ pc \notin {"show", "base"} /\ page > 0 => stage.base = <<"bw", page>>
  /\ pc \in {"store", "lsb", "msb", "overlay", "posting", "flush", "postingBase"} =>
       stage.grays = <<0, 0>>
  /\ pc \in {"msb", "overlay"} => lsb \in {0, page}
  /\ pc = "overlay" => msb \in {0, page}

\* A base that is staged is shown before the pass ends, unless the EPUB reader
\* gave the pass up.
StagedInv ==
  /\ pc \in {"idle", "base", "store", "lsb", "msb", "overlay", "refresh", "postingGrays"} => ready
  /\ pc = "store" => pass \in {"epub", "text", "image"} /\ (pass = "image" => ~baseStaged)
  /\ pc = "idle" /\ baseStaged => "epub" \in MayFail

Shown == window # NoWindow => glass[window] = stage

ShownInv ==
  /\ pc \in {"idle", "store", "lsb", "msb", "overlay", "redraw", "cleanup"} /\ ~baseStaged => Shown
  /\ page = 0 => stage = Blank
  /\ ~HasContent => stage = Blank /\ \A w \in Windows : glass[w] = Blank

Matches(content, pages) ==
  content.grays # <<0, 0>> =>
    \E p \in 1 .. pages : content = [base |-> <<"bw", p>>, grays |-> <<p, p>>]

GraysInv ==
  /\ Matches(stage, page)
  /\ \A w \in Windows : Matches(glass[w], page)

IInv == TypeInv /\ SurfaceInv /\ PassInv /\ StagedInv /\ ShownInv /\ GraysInv

-----------------------------------------------------------------------------
(* Every step keeps every part of the invariant.                           *)

LEMMA Types ==
  /\ <<"bw", 0>> \in Frames /\ Blank \in Stages
  /\ \A f \in Frames : BaseOnly(f) \in Stages
BY DEF Frames, Stages, Blank, BaseOnly

LEMMA InitIInv == Init => IInv
<1> SUFFICES ASSUME Init PROVE IInv
  OBVIOUS
<1>1. TypeInv
  BY Types DEF Init, TypeInv
<1>2. SurfaceInv /\ PassInv /\ StagedInv
  BY DEF Init, SurfaceInv, PassInv, StagedInv, Posting
<1>3. ShownInv
  BY DEF Init, ShownInv, Shown
<1>4. GraysInv
  BY DEF Init, GraysInv, Matches, Blank
<1> QED BY <1>1, <1>2, <1>3, <1>4 DEF IInv

LEMMA TypeInvStep == IInv /\ [Next]_vars => TypeInv'
<1> SUFFICES ASSUME IInv, [Next]_vars PROVE TypeInv'
  OBVIOUS
<1> USE DEF IInv
<1>1. CASE Refresh \/ Flush \/ StoreFrame
  BY <1>1, Types DEF Refresh, Present, Flush, StoreFrame, buffers, surface, posting, TypeInv,
     Frames, Stages
<1>2. CASE StartPass
  BY <1>2, Types DEF StartPass, buffers, surface, posting, TypeInv, Frames, Stages
<1>3. CASE Show
  BY <1>3, Types DEF Show, Present, BaseOnly, buffers, surface, posting, TypeInv, Frames, Stages
<1>4. CASE StageBase
  BY <1>4, Types DEF StageBase, BaseOnly, buffers, surface, posting, TypeInv, Frames, Stages
<1>5. CASE DrawLsb
  BY <1>5, Types DEF DrawLsb, Copied, buffers, surface, posting, TypeInv, Frames, Stages
<1>6. CASE DrawMsb
  BY <1>6, Types DEF DrawMsb, Copied, buffers, surface, posting, TypeInv, Frames, Stages
<1>7. CASE GiveUpPlanes
  <2>1. PICK plane \in {frame[1], pc} : frame' = <<plane, page>>
    BY <1>7 DEF GiveUpPlanes
  <2>2. frame[1] \in {"bw", "lsb", "msb"} /\ pc \in {"lsb", "msb"}
    BY <1>7 DEF GiveUpPlanes, TypeInv, Frames
  <2>3. plane \in {"bw", "lsb", "msb"}
    BY <2>1, <2>2
  <2>4. frame' \in Frames
    BY <2>1, <2>3 DEF TypeInv, Frames
  <2> QED BY <1>7, <2>4 DEF GiveUpPlanes, surface, posting, TypeInv
<1>8. CASE Overlay
  BY <1>8, Types DEF Overlay, HavePlanes, buffers, surface, posting, TypeInv, Frames, Stages
<1>9. CASE Redraw
  BY <1>9, Types DEF Redraw, buffers, surface, posting, TypeInv, Frames, Stages
<1>10. CASE Cleanup
  <2>1. stage' \in Stages
    BY <1>10, Types DEF Cleanup, TypeInv
  <2> QED BY <1>10, <2>1 DEF Cleanup, surface, posting, TypeInv
<1>11. CASE Post
  BY <1>11, Types DEF Post, buffers, surface, posting, TypeInv, Frames, Stages
<1>12. CASE SurfaceReady
  BY <1>12, Types DEF SurfaceReady, Represent, buffers, surface, posting, TypeInv, Frames, Stages
<1>13. CASE SurfaceDestroyed
  BY <1>13, Types DEF SurfaceDestroyed, buffers, surface, posting, TypeInv, Frames, Stages
<1>14. CASE UNCHANGED vars
  BY <1>14 DEF vars, buffers, surface, posting, TypeInv, Frames, Stages
<1> QED BY <1>1, <1>2, <1>3, <1>4, <1>5, <1>6, <1>7, <1>8, <1>9, <1>10, <1>11, <1>12, <1>13,
  <1>14 DEF Next, Draw

LEMMA SurfaceInvStep == IInv /\ [Next]_vars => SurfaceInv'
<1> SUFFICES ASSUME IInv, [Next]_vars PROVE SurfaceInv'
  OBVIOUS
<1> USE DEF IInv
<1>1. CASE StartPass
  BY <1>1, DisplayAssumption DEF StartPass, buffers, surface, posting, SurfaceInv, TypeInv,
     PassInv, Posting
<1>2. CASE Show
  BY <1>2, DisplayAssumption DEF Show, Present, BaseOnly, buffers, surface, posting, SurfaceInv,
     TypeInv, PassInv, Posting
<1>3. CASE StageBase
  BY <1>3, DisplayAssumption DEF StageBase, BaseOnly, buffers, surface, posting, SurfaceInv,
     TypeInv, PassInv, Posting
<1>4. CASE StoreFrame
  BY <1>4, DisplayAssumption DEF StoreFrame, buffers, surface, posting, SurfaceInv, TypeInv,
     PassInv, Posting
<1>5. CASE DrawLsb
  BY <1>5, DisplayAssumption DEF DrawLsb, Copied, buffers, surface, posting, SurfaceInv, TypeInv, PassInv,
     Posting
<1>6. CASE DrawMsb
  BY <1>6, DisplayAssumption DEF DrawMsb, Copied, buffers, surface, posting, SurfaceInv, TypeInv, PassInv,
     Posting
<1>7. CASE GiveUpPlanes
  BY <1>7, DisplayAssumption DEF GiveUpPlanes, PlaneFailed, buffers, surface, posting, SurfaceInv,
     TypeInv, PassInv, Posting
<1>8. CASE Overlay
  BY <1>8, DisplayAssumption DEF Overlay, HavePlanes, buffers, surface, posting, SurfaceInv, TypeInv, PassInv,
     Posting
<1>9. CASE Refresh
  BY <1>9, DisplayAssumption DEF Refresh, Present, buffers, surface, posting, SurfaceInv, TypeInv,
     PassInv, Posting
<1>10. CASE Redraw
  BY <1>10, DisplayAssumption DEF Redraw, buffers, surface, posting, SurfaceInv, TypeInv, PassInv,
     Posting
<1>11. CASE Cleanup
  BY <1>11, DisplayAssumption DEF Cleanup, BaseOnly, buffers, surface, posting, SurfaceInv,
     TypeInv, PassInv, Posting
<1>12. CASE Flush
  BY <1>12, DisplayAssumption DEF Flush, Present, buffers, surface, posting, SurfaceInv, TypeInv,
     PassInv, Posting
<1>13. CASE Post
  BY <1>13, DisplayAssumption DEF Post, buffers, surface, posting, SurfaceInv, TypeInv, PassInv,
     Posting
<1>14. CASE SurfaceReady
  BY <1>14, DisplayAssumption DEF SurfaceReady, Represent, buffers, surface, posting, SurfaceInv,
     TypeInv, PassInv, Posting
<1>15. CASE SurfaceDestroyed
  BY <1>15, DisplayAssumption DEF SurfaceDestroyed, buffers, surface, posting, SurfaceInv,
     TypeInv, PassInv, Posting
<1>16. CASE UNCHANGED vars
  BY <1>16 DEF vars, buffers, surface, posting, SurfaceInv, TypeInv, PassInv, Posting
<1> QED BY <1>1, <1>2, <1>3, <1>4, <1>5, <1>6, <1>7, <1>8, <1>9, <1>10, <1>11, <1>12, <1>13,
  <1>14, <1>15, <1>16 DEF Next, Draw

LEMMA PassInvStep == IInv /\ [Next]_vars => PassInv'
<1> SUFFICES ASSUME IInv, [Next]_vars PROVE PassInv'
  OBVIOUS
<1> USE DEF IInv
<1>1. CASE StartPass
  BY <1>1 DEF StartPass, buffers, surface, posting, PassInv, TypeInv, Posting, BaseOnly, Frames,
     Stages
<1>2. CASE Show
  BY <1>2 DEF Show, Present, BaseOnly, buffers, surface, posting, PassInv, TypeInv, Posting,
     Frames, Stages
<1>3. CASE StageBase
  BY <1>3 DEF StageBase, BaseOnly, buffers, surface, posting, PassInv, TypeInv, Posting, Frames,
     Stages
<1>4. CASE StoreFrame
  BY <1>4 DEF StoreFrame, buffers, surface, posting, PassInv, TypeInv, Posting, BaseOnly, Frames,
     Stages
<1>5. CASE DrawLsb
  BY <1>5 DEF DrawLsb, Copied, buffers, surface, posting, PassInv, TypeInv, Posting, BaseOnly, Frames,
     Stages
<1>6. CASE DrawMsb
  BY <1>6 DEF DrawMsb, Copied, buffers, surface, posting, PassInv, TypeInv, Posting, BaseOnly, Frames,
     Stages
<1>7. CASE GiveUpPlanes
  BY <1>7 DEF GiveUpPlanes, PlaneFailed, buffers, surface, posting, PassInv, TypeInv, Posting,
     BaseOnly, Frames, Stages
<1>8. CASE Overlay
  BY <1>8 DEF Overlay, HavePlanes, buffers, surface, posting, PassInv, TypeInv, Posting, BaseOnly, Frames,
     Stages
<1>9. CASE Refresh
  BY <1>9 DEF Refresh, Present, buffers, surface, posting, PassInv, TypeInv, Posting, BaseOnly,
     Frames, Stages
<1>10. CASE Redraw
  BY <1>10 DEF Redraw, buffers, surface, posting, PassInv, TypeInv, Posting, BaseOnly, Frames,
     Stages
<1>11. CASE Cleanup
  BY <1>11 DEF Cleanup, BaseOnly, buffers, surface, posting, PassInv, TypeInv, Posting, Frames,
     Stages
<1>12. CASE Flush
  BY <1>12 DEF Flush, Present, buffers, surface, posting, PassInv, TypeInv, Posting, BaseOnly,
     Frames, Stages
<1>13. CASE Post
  BY <1>13 DEF Post, buffers, surface, posting, PassInv, TypeInv, Posting, BaseOnly, Frames,
     Stages
<1>14. CASE SurfaceReady
  BY <1>14 DEF SurfaceReady, Represent, buffers, surface, posting, PassInv, TypeInv, Posting,
     BaseOnly, Frames, Stages
<1>15. CASE SurfaceDestroyed
  BY <1>15 DEF SurfaceDestroyed, buffers, surface, posting, PassInv, TypeInv, Posting, BaseOnly,
     Frames, Stages
<1>16. CASE UNCHANGED vars
  BY <1>16 DEF vars, buffers, surface, posting, PassInv, TypeInv, Posting, BaseOnly, Frames,
     Stages
<1> QED BY <1>1, <1>2, <1>3, <1>4, <1>5, <1>6, <1>7, <1>8, <1>9, <1>10, <1>11, <1>12, <1>13,
  <1>14, <1>15, <1>16 DEF Next, Draw

LEMMA StagedInvStep == IInv /\ [Next]_vars => StagedInv'
<1> SUFFICES ASSUME IInv, [Next]_vars PROVE StagedInv'
  OBVIOUS
<1> USE DEF IInv
<1>1. CASE StartPass
  BY <1>1, DisplayAssumption DEF StartPass, buffers, surface, posting, StagedInv, TypeInv,
     PassInv, Posting
<1>2. CASE Show
  BY <1>2, DisplayAssumption DEF Show, Present, BaseOnly, buffers, surface, posting, StagedInv,
     TypeInv, PassInv, Posting
<1>3. CASE StageBase
  BY <1>3, DisplayAssumption DEF StageBase, BaseOnly, buffers, surface, posting, StagedInv,
     TypeInv, PassInv, Posting
<1>4. CASE StoreFrame
  BY <1>4, DisplayAssumption DEF StoreFrame, buffers, surface, posting, StagedInv, TypeInv,
     PassInv, Posting
<1>5. CASE DrawLsb
  BY <1>5, DisplayAssumption DEF DrawLsb, Copied, buffers, surface, posting, StagedInv, TypeInv, PassInv,
     Posting
<1>6. CASE DrawMsb
  BY <1>6, DisplayAssumption DEF DrawMsb, Copied, buffers, surface, posting, StagedInv, TypeInv, PassInv,
     Posting
<1>7. CASE GiveUpPlanes
  BY <1>7, DisplayAssumption DEF GiveUpPlanes, PlaneFailed, buffers, surface, posting, StagedInv,
     TypeInv, PassInv, Posting
<1>8. CASE Overlay
  BY <1>8, DisplayAssumption DEF Overlay, HavePlanes, buffers, surface, posting, StagedInv, TypeInv, PassInv,
     Posting
<1>9. CASE Refresh
  BY <1>9, DisplayAssumption DEF Refresh, Present, buffers, surface, posting, StagedInv, TypeInv,
     PassInv, Posting
<1>10. CASE Redraw
  BY <1>10, DisplayAssumption DEF Redraw, buffers, surface, posting, StagedInv, TypeInv, PassInv,
     Posting
<1>11. CASE Cleanup
  BY <1>11, DisplayAssumption DEF Cleanup, BaseOnly, buffers, surface, posting, StagedInv,
     TypeInv, PassInv, Posting
<1>12. CASE Flush
  BY <1>12, DisplayAssumption DEF Flush, Present, buffers, surface, posting, StagedInv, TypeInv,
     PassInv, Posting
<1>13. CASE Post
  BY <1>13, DisplayAssumption DEF Post, buffers, surface, posting, StagedInv, TypeInv, PassInv,
     Posting
<1>14. CASE SurfaceReady
  BY <1>14, DisplayAssumption DEF SurfaceReady, Represent, buffers, surface, posting, StagedInv,
     TypeInv, PassInv, Posting
<1>15. CASE SurfaceDestroyed
  BY <1>15, DisplayAssumption DEF SurfaceDestroyed, buffers, surface, posting, StagedInv, TypeInv,
     PassInv, Posting
<1>16. CASE UNCHANGED vars
  BY <1>16 DEF vars, buffers, surface, posting, StagedInv, TypeInv, PassInv, Posting
<1> QED BY <1>1, <1>2, <1>3, <1>4, <1>5, <1>6, <1>7, <1>8, <1>9, <1>10, <1>11, <1>12, <1>13,
  <1>14, <1>15, <1>16 DEF Next, Draw

LEMMA ShownInvStep == IInv /\ [Next]_vars => ShownInv'
<1> SUFFICES ASSUME IInv, [Next]_vars PROVE ShownInv'
  OBVIOUS
<1> USE DEF IInv
<1>1. CASE StartPass
  BY <1>1 DEF StartPass, buffers, surface, posting, ShownInv, TypeInv, SurfaceInv, PassInv,
     StagedInv, Posting, Shown, HasContent, BaseOnly, Blank, Stages, Frames
<1>2. CASE Show
  BY <1>2 DEF Show, Present, BaseOnly, buffers, surface, posting, ShownInv, TypeInv, SurfaceInv,
     PassInv, StagedInv, Posting, Shown, HasContent, Blank, Stages, Frames
<1>3. CASE StageBase
  BY <1>3 DEF StageBase, BaseOnly, buffers, surface, posting, ShownInv, TypeInv, SurfaceInv,
     PassInv, StagedInv, Posting, Shown, HasContent, Blank, Stages, Frames
<1>4. CASE StoreFrame
  BY <1>4 DEF StoreFrame, buffers, surface, posting, ShownInv, TypeInv, SurfaceInv, PassInv,
     StagedInv, Posting, Shown, HasContent, BaseOnly, Blank, Stages, Frames
<1>5. CASE DrawLsb
  BY <1>5 DEF DrawLsb, Copied, buffers, surface, posting, ShownInv, TypeInv, SurfaceInv, PassInv,
     StagedInv, Posting, Shown, HasContent, BaseOnly, Blank, Stages, Frames
<1>6. CASE DrawMsb
  BY <1>6 DEF DrawMsb, Copied, buffers, surface, posting, ShownInv, TypeInv, SurfaceInv, PassInv,
     StagedInv, Posting, Shown, HasContent, BaseOnly, Blank, Stages, Frames
<1>7. CASE GiveUpPlanes
  BY <1>7 DEF GiveUpPlanes, PlaneFailed, buffers, surface, posting, ShownInv, TypeInv, SurfaceInv,
     PassInv, StagedInv, Posting, Shown, HasContent, BaseOnly, Blank, Stages, Frames
<1>8. CASE Overlay
  BY <1>8 DEF Overlay, HavePlanes, buffers, surface, posting, ShownInv, TypeInv, SurfaceInv, PassInv,
     StagedInv, Posting, Shown, HasContent, BaseOnly, Blank, Stages, Frames
<1>9. CASE Refresh
  BY <1>9 DEF Refresh, Present, buffers, surface, posting, ShownInv, TypeInv, SurfaceInv, PassInv,
     StagedInv, Posting, Shown, HasContent, BaseOnly, Blank, Stages, Frames
<1>10. CASE Redraw
  BY <1>10 DEF Redraw, buffers, surface, posting, ShownInv, TypeInv, SurfaceInv, PassInv,
     StagedInv, Posting, Shown, HasContent, BaseOnly, Blank, Stages, Frames
<1>11. CASE Cleanup
  BY <1>11 DEF Cleanup, BaseOnly, buffers, surface, posting, ShownInv, TypeInv, SurfaceInv,
     PassInv, StagedInv, Posting, Shown, HasContent, Blank, Stages, Frames
<1>12. CASE Flush
  BY <1>12 DEF Flush, Present, buffers, surface, posting, ShownInv, TypeInv, SurfaceInv, PassInv,
     StagedInv, Posting, Shown, HasContent, BaseOnly, Blank, Stages, Frames
<1>13. CASE Post
  BY <1>13 DEF Post, buffers, surface, posting, ShownInv, TypeInv, SurfaceInv, PassInv, StagedInv,
     Posting, Shown, HasContent, BaseOnly, Blank, Stages, Frames
<1>14. CASE SurfaceReady
  BY <1>14 DEF SurfaceReady, Represent, buffers, surface, posting, ShownInv, TypeInv, SurfaceInv,
     PassInv, StagedInv, Posting, Shown, HasContent, BaseOnly, Blank, Stages, Frames
<1>15. CASE SurfaceDestroyed
  BY <1>15 DEF SurfaceDestroyed, buffers, surface, posting, ShownInv, TypeInv, SurfaceInv,
     PassInv, StagedInv, Posting, Shown, HasContent, BaseOnly, Blank, Stages, Frames
<1>16. CASE UNCHANGED vars
  BY <1>16 DEF vars, buffers, surface, posting, ShownInv, TypeInv, SurfaceInv, PassInv, StagedInv,
     Posting, Shown, HasContent, BaseOnly, Blank, Stages, Frames
<1> QED BY <1>1, <1>2, <1>3, <1>4, <1>5, <1>6, <1>7, <1>8, <1>9, <1>10, <1>11, <1>12, <1>13,
  <1>14, <1>15, <1>16 DEF Next, Draw

LEMMA GraysInvStep == IInv /\ [Next]_vars => GraysInv'
<1> SUFFICES ASSUME IInv, [Next]_vars PROVE GraysInv'
  OBVIOUS
<1> USE DEF IInv
<1>1. CASE StartPass
  BY <1>1 DEF StartPass, buffers, surface, posting, GraysInv, TypeInv, PassInv, SurfaceInv,
     Posting, Matches, BaseOnly, Blank, Stages, Frames
<1>2. CASE Show
  BY <1>2 DEF Show, Present, BaseOnly, buffers, surface, posting, GraysInv, TypeInv, PassInv,
     SurfaceInv, Posting, Matches, Blank, Stages, Frames
<1>3. CASE StageBase
  BY <1>3 DEF StageBase, BaseOnly, buffers, surface, posting, GraysInv, TypeInv, PassInv,
     SurfaceInv, Posting, Matches, Blank, Stages, Frames
<1>4. CASE StoreFrame
  BY <1>4 DEF StoreFrame, buffers, surface, posting, GraysInv, TypeInv, PassInv, SurfaceInv,
     Posting, Matches, BaseOnly, Blank, Stages, Frames
<1>5. CASE DrawLsb
  BY <1>5 DEF DrawLsb, Copied, buffers, surface, posting, GraysInv, TypeInv, PassInv, SurfaceInv, Posting,
     Matches, BaseOnly, Blank, Stages, Frames
<1>6. CASE DrawMsb
  BY <1>6 DEF DrawMsb, Copied, buffers, surface, posting, GraysInv, TypeInv, PassInv, SurfaceInv, Posting,
     Matches, BaseOnly, Blank, Stages, Frames
<1>7. CASE GiveUpPlanes
  BY <1>7 DEF GiveUpPlanes, PlaneFailed, buffers, surface, posting, GraysInv, TypeInv, PassInv,
     SurfaceInv, Posting, Matches, BaseOnly, Blank, Stages, Frames
<1>8. CASE Overlay
  <2>1. UNCHANGED <<page, glass>>
    BY <1>8 DEF Overlay
  <2>2. CASE ~HavePlanes
    BY <1>8, <2>1, <2>2 DEF Overlay, GraysInv, Matches
  <2>3. CASE HavePlanes
    <3>1. stage \in Stages /\ stage.base = <<"bw", page>> /\ lsb = page /\ msb = page /\ page \in 1 .. page
      BY <1>8, <2>3 DEF Overlay, HavePlanes, TypeInv, PassInv, Posting
    <3>2. stage' = [base |-> <<"bw", page>>, grays |-> <<page, page>>]
      BY <1>8, <2>3, <3>1 DEF Overlay, Stages
    <3> QED BY <2>1, <3>1, <3>2 DEF GraysInv, Matches
  <2> QED BY <2>2, <2>3
<1>9. CASE Refresh
  BY <1>9 DEF Refresh, Present, buffers, surface, posting, GraysInv, TypeInv, PassInv, SurfaceInv,
     Posting, Matches, BaseOnly, Blank, Stages, Frames
<1>10. CASE Redraw
  BY <1>10 DEF Redraw, buffers, surface, posting, GraysInv, TypeInv, PassInv, SurfaceInv, Posting,
     Matches, BaseOnly, Blank, Stages, Frames
<1>11. CASE Cleanup
  BY <1>11 DEF Cleanup, BaseOnly, buffers, surface, posting, GraysInv, TypeInv, PassInv,
     SurfaceInv, Posting, Matches, Blank, Stages, Frames
<1>12. CASE Flush
  BY <1>12 DEF Flush, Present, buffers, surface, posting, GraysInv, TypeInv, PassInv, SurfaceInv,
     Posting, Matches, BaseOnly, Blank, Stages, Frames
<1>13. CASE Post
  BY <1>13 DEF Post, buffers, surface, posting, GraysInv, TypeInv, PassInv, SurfaceInv, Posting,
     Matches, BaseOnly, Blank, Stages, Frames
<1>14. CASE SurfaceReady
  <2>1. Matches(stage, page)' /\ page' = page
    BY <1>14 DEF SurfaceReady, buffers, GraysInv, Matches
  <2>2. ASSUME NEW v \in Windows PROVE glass'[v] \in {glass[v], stage}
    BY <1>14 DEF SurfaceReady, Represent, TypeInv
  <2>3. ASSUME NEW v \in Windows PROVE Matches(glass[v], page)'
    BY <2>1, <2>2 DEF GraysInv, Matches
  <2> QED BY <2>1, <2>3 DEF GraysInv
<1>15. CASE SurfaceDestroyed
  <2>1. Matches(stage, page)' /\ page' = page
    BY <1>15 DEF SurfaceDestroyed, buffers, GraysInv, Matches
  <2>2. ASSUME NEW v \in Windows PROVE glass'[v] \in {glass[v], Blank}
    BY <1>15 DEF SurfaceDestroyed, TypeInv
  <2>3. ASSUME NEW v \in Windows PROVE Matches(glass[v], page)'
    BY <2>1, <2>2 DEF GraysInv, Matches, Blank
  <2> QED BY <2>1, <2>3 DEF GraysInv
<1>16. CASE UNCHANGED vars
  BY <1>16 DEF vars, buffers, surface, posting, GraysInv, TypeInv, PassInv, SurfaceInv, Posting,
     Matches, BaseOnly, Blank, Stages, Frames
<1> QED BY <1>1, <1>2, <1>3, <1>4, <1>5, <1>6, <1>7, <1>8, <1>9, <1>10, <1>11, <1>12, <1>13,
  <1>14, <1>15, <1>16 DEF Next, Draw

LEMMA Preserved == IInv /\ [Next]_vars => IInv'
BY TypeInvStep, SurfaceInvStep, PassInvStep, StagedInvStep, ShownInvStep, GraysInvStep DEF IInv

-----------------------------------------------------------------------------
(* The theorems.                                                           *)

\* The invariant holds through every pass and every change of surface.
THEOREM Inductive == Spec => []IInv
BY InitIInv, Preserved, PTL DEF Spec

\* detachSurface() takes the mutex that a present holds: a surface that
\* surfaceDestroyed() has returned from is not written.
THEOREM OnlyLiveSurfaces == Spec => []WritesLiveSurface
<1>1. IInv => WritesLiveSurface
  BY DEF IInv, SurfaceInv, WritesLiveSurface
<1> QED BY <1>1, Inductive, PTL

\* If no EPUB page is given up because its framebuffer cannot be stored, the
\* surface shows the last page whenever no pass is being drawn: a pass whose
\* gray planes cannot be allocated (displayGrayBuffer() without planes) still
\* presents its base.
THEOREM PagesAreShown ==
  ASSUME "epub" \notin MayFail
  PROVE  Spec => []IdleShowsThePage
<1>1. IInv => IdleShowsThePage
  BY DEF IInv, PassInv, StagedInv, ShownInv, Shown, IdleShowsThePage
<1> QED BY <1>1, Inductive, PTL

\* displayGrayBuffer() never lays grays over the base of another page.
THEOREM GraysBelong == Spec => []GraysMatchTheirBase
<1>1. IInv => GraysMatchTheirBase
  BY DEF IInv, GraysInv, Matches, GraysMatchTheirBase
<1> QED BY <1>1, Inductive, PTL

\* Every pass puts the page back into the framebuffer.
THEOREM FramebuffersHoldThePage == Spec => []IdleFrameIsThePage
<1>1. IInv => IdleFrameIsThePage
  BY DEF IInv, PassInv, Posting, IdleFrameIsThePage
<1> QED BY <1>1, Inductive, PTL

=============================================================================
