------------------------------ MODULE MCKeygen ------------------------------
(***************************************************************************)
(* Key generation with the first exchanges of the derivation: the setup,   *)
(* the keys of the common randomness and the shares.                       *)
(***************************************************************************)
EXTENDS KeyGeneration

To(p, q, body) == Message(p, q, body)
Next_(p) == (p + 1) % 3
Prev_(p) == (p + 2) % 3

\* What p sends when its setup is over, and what it does from there.
FromSetup(p) ==
    <<[needs |-> {<<Prev_(p), "KeyNext">>},
       sends |-> <<To(p, Next_(p), "ShamirToRss"), To(p, Prev_(p), "ShamirToRss")>>],
      [needs |-> {<<q, "ShamirToRss">> : q \in Party \ {p}}, sends |-> <<>>]>>

DerivationSteps(p) ==
    CASE p = 2 ->
           <<[needs |-> {}, sends |-> <<To(2, 0, "CommCrs"), To(2, 1, "CommCrs")>>],
             [needs |-> {<<0, "GarbleKey">>}, sends |-> <<To(2, 0, "KeyNext")>>]>> \o FromSetup(2)
      [] p = 0 ->
           <<[needs |-> {<<2, "CommCrs">>},
              sends |-> <<To(0, 1, "PrfSeed"), To(0, 2, "GarbleKey"), To(0, 1, "KeyNext")>>]>> \o FromSetup(0)
      [] OTHER ->
           <<[needs |-> {<<2, "CommCrs">>, <<0, "PrfSeed">>}, sends |-> <<To(1, 2, "KeyNext")>>]>> \o FromSetup(1)

\* The setup alone.
SetupSteps(p) ==
    CASE p = 2 -> <<[needs |-> {}, sends |-> <<To(2, 0, "CommCrs"), To(2, 1, "CommCrs")>>],
                    [needs |-> {<<0, "GarbleKey">>}, sends |-> <<>>]>>
      [] p = 0 -> <<[needs |-> {<<2, "CommCrs">>},
                     sends |-> <<To(0, 1, "PrfSeed"), To(0, 2, "GarbleKey")>>]>>
      [] OTHER -> <<[needs |-> {<<2, "CommCrs">>, <<0, "PrfSeed">>}, sends |-> <<>>]>>

-----------------------------------------------------------------------------

\* Everything in order, a derivation of the first exchanges.
InOrder ==
    [steps |-> [p \in Party |-> DerivationSteps(p)], order |-> "inbox", echo |-> TRUE,
     early |-> FALSE, duplicates |-> 0, fails |-> FALSE]

KeygenSettings ==
    [ordered |-> InOrder,
     faulty  |-> [InOrder EXCEPT !.steps = [p \in Party |-> SetupSteps(p)], !.order = "pair",
                                 !.echo = FALSE, !.duplicates = 1, !.fails = TRUE],
     early   |-> [InOrder EXCEPT !.echo = FALSE, !.early = TRUE],
     twice   |-> [InOrder EXCEPT !.steps = [p \in Party |-> SetupSteps(p)],
                                 !.early = TRUE, !.duplicates = 1]]

RaceSettings == [paired |-> [InOrder EXCEPT !.order = "pair", !.echo = FALSE]]

\* The settings as TLC takes them for the constant: by a name it computes once.
TabledKeygenSettings == LET settings == KeygenSettings IN settings
TabledRaceSettings   == LET settings == RaceSettings IN settings

=============================================================================
