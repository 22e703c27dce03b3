-------------------------------- MODULE MCGem --------------------------------
(* Instance of LimaGem for TLC: a texture and a heap, lists of one object,   *)
(* of both and of one object twice; the files are interchangeable.           *)
EXTENDS LimaGem, TLC

CONSTANTS tex, heapBo

Objects == {tex, heapBo}
Lists   == {<<tex>>, <<tex, heapBo>>, <<tex, tex>>}
Files   == Permutations(VMs)
=============================================================================
