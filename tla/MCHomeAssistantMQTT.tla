-------------------------- MODULE MCHomeAssistantMQTT --------------------------
(* Three checks and batches of up to two: a batch can hold a check twice, a    *)
(* check that was announced before and one that was not.  Two of the names     *)
(* only differ in characters that are not letters.                             *)
EXTENDS HomeAssistantMQTT

MCLetters == {"a", "b"}
MCNames == {<<"a", "/">>, <<"a", "-">>, <<"b", ":", "a">>}
===============================================================================
