------------------------------ MODULE MCCuentas ------------------------------
(* Instances of Cuentas for TLC. *)
EXTENDS Cuentas, TLC

CONSTANTS Ana, Luis, Eva

MCPersonas == {Ana, Luis, Eva}
\* 25% and 75%, and 50% and 49.995%, which the form takes for 100%.
MCRepartos == {(Luis :> 50000 @@ Eva :> 150000), (Ana :> 100000 @@ Luis :> 99990)}
=============================================================================
