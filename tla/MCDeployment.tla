---------------------------- MODULE MCDeployment ----------------------------
(* Two processes: one of the new build, which ships two migrations, and    *)
(* one of it or of the old build, which ships one.                         *)
EXTENDS Deployment

CONSTANTS p1, p2

Job(cmd, migrate, known) == [cmd |-> cmd, migrate |-> migrate, known |-> known]

NewBuild ==
  {Job("up", FALSE, 2), Job("down", FALSE, 2), Job("dev", FALSE, 2),
   Job("serve", FALSE, 2), Job("worker", FALSE, 2), Job("worker", TRUE, 2)}

EitherBuild ==
  {Job("up", FALSE, 1), Job("up", FALSE, 2), Job("down", FALSE, 1), Job("down", FALSE, 2),
   Job("serve", FALSE, 2), Job("serve", TRUE, 2), Job("dev", FALSE, 1)}

TwoBuilds == (p1 :> NewBuild) @@ (p2 :> EitherBuild)

TwoLimits == (p1 :> {"rate"}) @@ (p2 :> {"runs"})
=============================================================================
