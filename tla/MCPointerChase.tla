--------------------------- MODULE MCPointerChase ---------------------------
(* Launches of every program in which up to four walkers have rings of     *)
(* their own, share one, or store into each other's.                       *)
EXTENDS PointerChase, ChaseLayouts

Line(size, stride, interval, groups, items, chains, slice) ==
  [size |-> size, stride |-> stride, interval |-> interval, groups |-> groups,
   items |-> items, chains |-> chains, slice |-> slice, hops |-> 5]

MCLaunches == {LaunchOf(x[1], x[2]) : x \in {
  <<"WorkItemBased",       Line(3, 1, 1, 1, 3, 1, 1)>>,
  <<"WorkGroupBased",      Line(4, 2, 1, 2, 2, 1, 1)>>,
  <<"DeviceBased",         Line(3, 4, 1, 2, 2, 1, 1)>>,
  <<"DeviceBased",         Line(2, 1, 0, 2, 1, 1, 1)>>,
  <<"LauncherBased",       Line(3, 2, 1, 1, 4, 1, 2)>>,
  <<"LauncherBased",       Line(3, 3, 1, 2, 4, 1, 1)>>,
  <<"InFlight",            Line(3, 2, 1, 1, 1, 2, 1)>>,
  <<"InFlight",            Line(3, 2, 1, 2, 1, 2, 1)>>,
  <<"CUDA",                Line(3, 2, 1, 2, 2, 1, 1)>>,
  <<"CUDA",                Line(2, 1, 0, 1, 3, 1, 1)>>,
  <<"CUDAInFlight",        Line(3, 2, 1, 1, 2, 2, 1)>>,
  <<"LocalWorkGroupBased", Line(3, 2, 1, 1, 2, 1, 1)>>,
  <<"LocalWorkGroupBased", Line(3, 1, 0, 1, 3, 1, 1)>>,
  <<"LocalLauncherBased",  Line(3, 2, 1, 1, 4, 1, 1)>>,
  <<"LocalInFlight",       Line(3, 2, 1, 1, 1, 2, 1)>>}}
=============================================================================
