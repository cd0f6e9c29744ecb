----------------------------- MODULE MCChannels -----------------------------
(* Two networks that share a service, one of which moves to the other's    *)
(* transport stream, channel number and provider while its old place is    *)
(* still heard; two bouquets that give one channel number to services by   *)
(* region.                                                                 *)
EXTENDS Channels

MCStream(ts, svcs, tuning) == [key |-> <<9, ts>>, services |-> svcs, tuning |-> tuning]
MCNit ==
  { [network |-> 1, name |-> "A",
     streams |-> {MCStream(11, {21, 22}, {<<3, 474>>})},
     lcns |-> {[service |-> 21, lcn |-> 101], [service |-> 22, lcn |-> 102]}],
    [network |-> 2, name |-> "B",
     streams |-> {MCStream(12, {22}, {})},
     lcns |-> {[service |-> 22, lcn |-> 101]}] }

MCBat ==
  { [bouquet |-> 1, name |-> "A", streams |-> {<<9, 11>>},
     regions |-> {[code |-> 31, name |-> "R"]},
     lcns |-> {[service |-> 21, region |-> 31, freesat |-> 0, lcn |-> 101],
               [service |-> 22, region |-> 65535, freesat |-> 0, lcn |-> 101]}],
    [bouquet |-> 2, name |-> "B", streams |-> {},
     regions |-> {[code |-> 31, name |-> "S"]},
     lcns |-> {[service |-> 22, region |-> 0, freesat |-> 41, lcn |-> 101]}] }

\* The name of provider p begins with a digit.
MCLeadingNumber == [x \in Text |-> IF x = "p" THEN 4 ELSE 0]

MCProperty == {<<3, 474>>, <<3, 490>>}

MCSdt ==
  { [key |-> <<9, 11>>, tuning |-> {<<3, 490>>},
     services |-> {[service |-> 21, name |-> "one", provider |-> "p"],
                   [service |-> 22, name |-> NoText, provider |-> "p"]}],
    [key |-> <<9, 12>>, tuning |-> {},
     services |-> {[service |-> 22, name |-> NoText, provider |-> "q"]}] }
=============================================================================
