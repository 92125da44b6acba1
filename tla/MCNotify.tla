------------------------------ MODULE MCNotify ------------------------------
(* A small instance of Notify for TLC. *)
EXTENDS Notify, TLC

MCSymmetry == Permutations(Request)

\* The scheduler never writes a template and no request on a template looks at
\* what the scheduler does: scans, time and the other requests are explored
\* without templates.
MCTemplatesApart ==
  \/ now = 2 /\ scan = Idle /\ edits = 0 /\ restarts = 0
  \/ /\ \A r \in Request : req[r].step \in {"idle", "channels"}
     /\ \A i \in 1..MaxTemplates : templates[i] = NoTemplate
=============================================================================
