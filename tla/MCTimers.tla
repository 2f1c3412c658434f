------------------------------ MODULE MCTimers ------------------------------
(***************************************************************************)
(* The services that promise something by their timers, for TLC: the reaper *)
(* of calls and the sweep of uploads.  They share nothing, so a behaviour   *)
(* follows one of them while the other stays as it began.                   *)
(***************************************************************************)
EXTENDS MCCalls, MCMedia

VARIABLE part       \* the component this behaviour follows

\* A component that is not followed is asked nothing.
NoMediaCall == Shelf(<<>>, 0, 0)
TimerUploads == MCMediaPlan \cup {NoMediaCall}

TimersInit ==
    /\ part \in {"calls", "media"}
    /\ CallsInit /\ (part = "calls" \/ scene = CHOOSE s \in CallScene : TRUE)
    /\ MediaInit /\ (part = "media" <=> mediaPlan # NoMediaCall)

TimersNext ==
    /\ UNCHANGED part
    /\ \/ part = "calls" /\ CallsNext /\ UNCHANGED mediaVars
       \/ part = "media" /\ MediaNext /\ UNCHANGED callVars

\* CallsFairness and MediaFairness, each for the component that is followed.
TimersFairness ==
    /\ \A d \in CallDevice : WF_callVars(part = "calls" /\ FrameStep(d))
    /\ \A c \in CallId : WF_callVars(part = "calls" /\ InitiateStep(c))
    /\ WF_callVars(part = "calls" /\ EndStale) /\ WF_callVars(part = "calls" /\ Tick)
    /\ WF_mediaVars(part = "media" /\ SweepStep)

TimersSpec == TimersInit /\ [][TimersNext]_<<callVars, mediaVars, part>> /\ TimersFairness

=============================================================================
