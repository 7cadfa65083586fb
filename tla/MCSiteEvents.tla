---------------------------- MODULE MCSiteEvents ----------------------------
(* Four events, one of a site the principal may not see, a channel of one   *)
(* and a replay of at most two rows.                                        *)
EXTENDS SiteEvents

FourEvents == 1..4
AllButThree == {1, 2, 4}
=============================================================================
