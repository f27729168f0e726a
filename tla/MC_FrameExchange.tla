--------------------------- MODULE MC_FrameExchange ---------------------------
(***************************************************************************)
(* Bodies of no, one, two and three bytes of base 2, of which three bytes  *)
(* are over the limit and nothing, and one of two bytes, does not decode;  *)
(* a kernel that holds less than the longest frame.                        *)
(***************************************************************************)
EXTENDS FrameExchange

Bodies == {<<>>, <<0>>, <<0, 1>>, <<1, 0>>, <<1, 0, 1>>}
MCDecodable == Bodies \ {<<>>, <<1, 0>>}
MCReplyBodies == {<<0, 1>>, <<1, 0, 1>>}

OneRequest == {<<b>> : b \in Bodies}
UpToThreeRequests ==
    OneRequest \cup {<<b, c>> : b, c \in Bodies} \cup {<<b, c, d>> : b, c, d \in Bodies}
=============================================================================
