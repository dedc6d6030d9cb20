------------------------- MODULE NginxEdge_Instances -------------------------
(***************************************************************************)
(* Two instances of NginxEdge in one run, each to bounds of its own: the   *)
(* lists of two domains under changes of nginx.env, and the revisions of   *)
(* one domain and one base over two restarts.                              *)
(***************************************************************************)
EXTENDS NginxEdge_MC

VARIABLE instance

\* The bounds of an instance.
Untouched(f) == vhost[f] = None /\ cert[f] = 0 /\ job.file # f
Within ==
  \/ /\ instance = "lists"
     /\ Untouched(b1) /\ list \in TwoLists
     /\ rev = 1 /\ crashes <= 1 /\ \A f \in Files : cert[f] <= 1
  \/ /\ instance = "revisions"
     /\ Untouched(d2) /\ list \in OneList
     /\ envs = 0

EdgeInit == Init /\ instance \in {"lists", "revisions"}
EdgeNext == Next /\ UNCHANGED instance /\ Within'
EdgeSpec == EdgeInit /\ [][EdgeNext]_<<vars, instance>>
=============================================================================
