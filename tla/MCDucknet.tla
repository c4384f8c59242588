----------------------------- MODULE MCDucknet -----------------------------
(* Three hosts, one of which changes its network card; a clock of three    *)
(* values, on which a query made at 0 expires and a later one does not.    *)
EXTENDS Ducknet

CONSTANTS m1, m2

MCAnnounced == {<<1, m1>>, <<1, m2>>, <<2, m1>>, <<3, m1>>}

=============================================================================
