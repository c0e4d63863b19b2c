--------------------------- MODULE MCJitLifecycle ---------------------------
(* The instance of JitLifecycle that TLC checks: both builds of LAZY. *)
EXTENDS JitLifecycle

BothBuilds == {TRUE, FALSE}
=============================================================================
