-------------------------- MODULE MCSiteConnection --------------------------
(* Small instances of SiteConnection for TLC. *)
EXTENDS SiteConnection, TLC

\* Agents, codes and requests are interchangeable; so are sites.
Interchangeable == Permutations(Sites) \cup Permutations(Keys) \cup Permutations(Codes) \cup Permutations(Workers)
=============================================================================
