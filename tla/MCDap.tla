-------------------------------- MODULE MCDap --------------------------------
(* Model values for Dap: commands of up to three requests, one retry, and a *)
(* clock of 24 cycles in a unit of time.                                    *)
EXTENDS Dap

One == 1
Two == 2
Three == 3
Twelve == 12
Zero == 0
RetryChoices == {0, 1}
MatchValues == {0, 2}
ClockChoices == {0, 5}
OneOnly == {1}
=============================================================================
