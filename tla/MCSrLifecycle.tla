--------------------------- MODULE MCSrLifecycle ---------------------------
(* Model-checking instance of SrLifecycle: uuids 1 and 2, a directory 3 that *)
(* was an SR of the older driver, zvols 5 and 6, a plain dataset 7 in it.  *)
EXTENDS SrLifecycle

Old == 9
MCPlaces == {<<>>, <<1>>, <<4>>, <<3>>}
MCAdoptable == {<<3>>, <<>>}
MCOldFs == [p \in {<<>>, <<3>>, <<3, 7>>} |->
              [Bare EXCEPT !.marker = IF p = <<3>> THEN Old ELSE NoSr,
                           !.mounted = (p = <<3, 7>>)]]
MCOldVol == [v \in {<<3, 5>>, <<3, 6>>, <<8>>} |-> IF v = <<3, 6>> THEN <<3, 5>> ELSE NoOrigin]
MCOldSnap == {<<3, 5>>}
MCContents == {[n \in {5} |-> 0], [n \in {5, 6} |-> IF n = 6 THEN 5 ELSE 0],
               [n \in {5, 6} |-> IF n = 5 THEN 6 ELSE 0]}
=============================================================================
