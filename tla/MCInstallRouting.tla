------------------------- MODULE MCInstallRouting -------------------------
(* An instance of InstallRouting for TLC. *)
EXTENDS InstallRouting, TLC

CONSTANTS mail, chat, hook, a, b, plain, vault, conf

Key(p, i) == [provider |-> p, install |-> i]

\* Two providers share an install id, one has two installs.
MCKeys == {Key(mail, a), Key(mail, b), Key(chat, a), Key(hook, b)}

Provider(name, kind) == [name |-> name, kind |-> kind]

\* The mail sink is passed in twice.
MCSpecs ==
  << Provider(mail, "sink"), Provider(hook, "source"), Provider(chat, "sink"),
     Provider(hook, "other"), Provider(mail, "sink") >>

MCConfigRefs ==
  (Key(mail, a) :> <<plain>>) @@ (Key(mail, b) :> <<>>) @@
  (Key(chat, a) :> <<vault>>) @@ (Key(hook, b) :> <<plain, conf>>)

MCSecretRefs ==
  (Key(mail, a) :> <<conf>>) @@ (Key(mail, b) :> <<>>) @@
  (Key(chat, a) :> <<>>) @@ (Key(hook, b) :> <<vault>>)

===========================================================================
