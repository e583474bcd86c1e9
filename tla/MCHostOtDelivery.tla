------------------------- MODULE MCHostOtDelivery ----------------------------
(* Model values for checking HostOtDelivery with TLC. *)
EXTENDS HostOtDelivery, TLC
CONSTANTS e1, e2, t1, t2

MCEpisode  == {e1}
MCEpisodes == {e1, e2}
MCThreads  == {t1, t2}
MCSymmetry == Permutations(MCThreads) \cup Permutations(MCEpisodes)
=============================================================================
