-------------------------- MODULE MCPowerOffAlarm --------------------------
(***************************************************************************)
(* PowerOffAlarm for TLC.  Two ticks to a second tell the phases of the    *)
(* two clocks apart; ErrSecs is the code's, Lead (300 in the code) is      *)
(* scaled to be longer than the thread's tolerance.                        *)
(***************************************************************************)
EXTENDS PowerOffAlarm
============================================================================
