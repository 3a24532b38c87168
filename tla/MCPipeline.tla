------------------------------ MODULE MCPipeline ------------------------------
(***************************************************************************)
(* Pipeline for TLC.  The rungs in walk order are 1080p, 360p, 480p and    *)
(* 720p.  The first version of the source is 480 lines high and gets two   *)
(* of them, the second one 360 lines and gets one, as LadderFor plans.     *)
(***************************************************************************)
EXTENDS Pipeline, TLC

CONSTANTS w1, w2, h1, h2

Planning == INSTANCE Planning

OwnHost    == w1 :> h1 @@ w2 :> h2
SharedHost == w1 :> h1 @@ w2 :> h1

WalkOrder == <<"1080p", "360p", "480p", "720p">>
HeightOfVersion == <<480, 360>>
LadderOfVersion ==
    [v \in DOMAIN HeightOfVersion |->
        LET ladder == Planning!LadderFor(HeightOfVersion[v], Planning!DefaultLadder)
        IN  {r \in Rung : \E i \in DOMAIN ladder : ladder[i].name = WalkOrder[r]}]

\* Renditions from the highest to the lowest, thumbnail, sprite, cues, master.
WriteOrder == <<1, 4, 3, 2, 8, 6, 7, 5>>
==============================================================================
