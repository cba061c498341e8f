----------------------------- MODULE MCTeamCycle ------------------------------
(* A small instance of TeamCycle.                                              *)
EXTENDS TeamCycle

CONSTANTS r1, r2

Run(by, last) == [by |-> by, force |-> FALSE, dry |-> FALSE, last |-> last]

Two(one, other) == [r \in Runs |-> IF r = r1 THEN one ELSE other]

\* Two ticks of launchd; a tick and the operator's run-cycle.sh --now --phases 1-3; a dry
\* cycle that she starts by hand whatever preflight says, and a standup.
MCStarts == {Two(Run("tick", 7), Run("tick", 7)), Two(Run("tick", 7), Run("now", 3)),
             Two([Run("hand", 7) EXCEPT !.force = TRUE, !.dry = TRUE], Run("now", 1))}
==============================================================================
