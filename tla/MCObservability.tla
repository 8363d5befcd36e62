-------------------------- MODULE MCObservability --------------------------
(* An instance of Observability for TLC: two goroutines, latencies that are  *)
(* negative, at the first bound and above the last, and the dashboard with   *)
(* two requests under way.  The page of raw messages runs the same script on *)
(* the other list.                                                           *)
EXTENDS Observability

MCBounds == <<1, 2>>

MCLatencies == {-1, 1, 3}
=============================================================================
