-------------------------------- MODULE MCWatch --------------------------------
EXTENDS Watch, TLC
CONSTANTS f1, f2, log, clean, minor, major, low, high

\* A text without findings, one that breaks a rule, and one that breaks two.
RulesOf == clean :> {} @@ minor :> {low} @@ major :> {low, high}
\* A rule that the gate lets pass and one that needs approval.
Gates == low :> 1 @@ high :> 2
\* The first is of low severity.
Severities == low :> 0 @@ high :> 2
================================================================================
