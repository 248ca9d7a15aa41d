------------------------- MODULE MCInvestmentSchedules -------------------------
(* An instance of InvestmentSchedules for TLC: a schedule of every day and *)
(* one of the later days.                                                  *)
EXTENDS InvestmentSchedules

Daily == [start |-> 0, dates |-> Days]
Later == [start |-> 1, dates |-> {MaxDay}]

Plans == {Daily, Later}
===============================================================================
