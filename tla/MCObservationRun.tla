-------------------------- MODULE MCObservationRun --------------------------
(* Small instances of ObservationRun for TLC. *)
EXTENDS ObservationRun

\* The pairs RunConfig.from_settings gives: both keys, one key, no key.
SettingsPairs ==
  {<<"network", "network">>, <<"network", "mock">>, <<"mock", "mock">>}

FreeOrNot == {0, 1}
=============================================================================
