-------------------------- MODULE MCRenderPipeline --------------------------
(* Values of RenderPipeline's constants for TLC. *)
EXTENDS RenderPipeline, TLC

CONSTANTS c1, c2

Video(rotation) ==
    [type |-> "video", width |-> {4}, height |-> {3}, matrix |-> {rotation}, tag |-> {},
     created |-> {}, title |-> {}]
Audio == [Video(0) EXCEPT !.type = "audio"]
Output(streams, duration) ==
    [streams |-> streams, duration |-> duration, apple |-> {}, created |-> {}, title |-> {}]

SomeUploads == {Output(<<Video(0)>>, {}), Output(<<Audio>>, {2})}

\* A row from before windows were set.
OldRow ==
    [status |-> "ready", index |-> 1, in |-> {}, out |-> {}, duration |-> {3}, silent |-> FALSE,
     crossed |-> FALSE]
OneOldClip == {(c1 :> {OldRow}) @@ (c2 :> {})}
\* One end; the other end and a place.
Body(in, out, index) == [in |-> in, out |-> out, index |-> index]
SomeBodies == {Body({3}, {}, {}), Body({}, {1}, {3})}
SomePlaces == {2}

TwoClips == {c1, c2}
AllCalls == CallKinds
AllTroubles == TroubleKinds
=============================================================================
