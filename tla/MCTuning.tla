------------------------------ MODULE MCTuning ------------------------------
(* Four of Freeview's channels and all presets of Freesat.  The sections    *)
(* give, on Freeview, a frequency above a channel's by the usual offset, one *)
(* below, and one of no channel; on Freesat one of a preset and two that are *)
(* not, in both bands, once behind a terrestrial one that Freesat does not  *)
(* read; and mix in empty loops, names and unknown descriptors.             *)
EXTENDS Tuning

MCKey == (1 .. 2) \X (4100 .. 4108)

T(f, b, c, h, hp, lp, g, m) ==
  [system |-> "T", frequency |-> f, bandwidth |-> b, constellation |-> c, hierarchy |-> h,
   hp |-> hp, lp |-> lp, guard |-> g, mode |-> m]
Sat(f, p, r, s2, m, rate, fec) ==
  [system |-> "S", frequency |-> f, polarization |-> p, rolloff |-> r, s2 |-> s2,
   modulation |-> m, symbolRate |-> rate, fec |-> fec]
Stream(onw, ts, services, lcns, delivery) ==
  [key |-> <<onw, ts>>, services |-> services, lcns |-> lcns, delivery |-> delivery]
Header(id, version, number, last) ==
  [id |-> id, version |-> version, current |-> 1, number |-> number, last |-> last]

MCNitSection ==
  { [table |-> 64, header |-> Header(12290, 31, 0, 1), names |-> << <<76, 111>>, << >> >>,
     streams |->
       <<Stream(1, 4100, <<4164, 4228>>, <<[service |-> 4164, lcn |-> 1], [service |-> 4228, lcn |-> 800]>>,
                <<T(47416667, 0, 2, 0, 1, 0, 0, 1)>>),
         Stream(1, 4101, << >>, << >>, <<T(48183333, 5, 1, 3, 4, 2, 3, 2)>>),
         Stream(1, 4102, <<65535>>, << >>, << >>)>>],
    [table |-> 65, header |-> Header(12290, 0, 1, 1), names |-> << >>,
     streams |-> <<Stream(1, 4102, << >>, << >>, <<T(54600000, 1, 0, 2, 7, 7, 2, 0)>>)>>],
    [table |-> 64, header |-> Header(59, 3, 0, 255), names |-> << <<70, 115, 32>> >>,
     streams |->
       <<Stream(2, 4100, <<6301>>, << >>, <<Sat(1122217, 0, 0, 0, 1, 275000, 2)>>),
         Stream(2, 4103, << >>, << >>, <<Sat(1102325, 1, 1, 1, 2, 230000, 9)>>)>>],
    [table |-> 65, header |-> Header(59, 4, 1, 1), names |-> << >>,
     streams |->
       <<Stream(2, 4104, << >>, << >>,
                <<T(48200000, 0, 2, 0, 1, 0, 0, 1), Sat(1242150, 3, 2, 1, 3, 219999, 0)>>)>>],
    [table |-> 65, header |-> Header(60, 4, 1, 1), names |-> << >>, streams |-> << >>] }

MCOtherSection ==
  { [table |-> 74, header |-> Header(280, 1, 2, 3), names |-> << <<69>> >>,
     regions |-> <<[code |-> 1, name |-> <<76, 111, 110>>], [code |-> 65535, name |-> << >>]>>,
     lcns |-> <<[service |-> 6301, freesat |-> 257,
                 pairs |-> <<[lcn |-> 101, region |-> 1], [lcn |-> 950, region |-> 65535]>>],
                [service |-> 6302, freesat |-> 258, pairs |-> << >>]>>],
    [table |-> 74, header |-> Header(281, 1, 0, 0), names |-> << >>, regions |-> << >>, lcns |-> << >>],
    [table |-> 66, header |-> Header(4100, 17, 0, 0), onw |-> 9018,
     services |-> <<[id |-> 4164, names |-> <<[type |-> 1, provider |-> <<66, 66, 67>>, name |-> <<79>>]>>],
                    [id |-> 4228, names |-> << >>],
                    [id |-> 4229, names |-> <<[type |-> 2, provider |-> << >>, name |-> << >>]>>]>>],
    [table |-> 70, header |-> Header(4101, 2, 1, 2), onw |-> 9018, services |-> << >>] }

MCPresets ==
  << <<"S2", 11023250, "H", 23000000, "2/3", "25", "8PSK">>,
     <<"S2", 10935500, "V", 23000000, "8/9", "25", "QPSK">>,
     <<"S2", 10847000, "V", 23000000, "2/3", "25", "8PSK">>,
     <<"S1", 11307000, "V", 27500000, "2/3", "35", "QPSK">>,
     <<"S1", 11344500, "H", 27500000, "2/3", "35", "QPSK">>,
     <<"S1", 11223670, "V", 27500000, "2/3", "35", "QPSK">>,
     <<"S1", 11222170, "H", 27500000, "2/3", "35", "QPSK">>,
     <<"S1", 11426330, "V", 27500000, "2/3", "35", "QPSK">>,
     <<"S1", 11343000, "V", 27500000, "2/3", "35", "QPSK">> >>

\* In MHz and kHz, with and without a bandwidth, DVB-T2 by name and by length.
MCLines ==
  { <<"T", 490, 8000, "3/4", "NONE", "QAM64", "2K", "1/32", "NONE">>,
    <<"T1", 545833330, 7000, "AUTO", "AUTO", "AUTO", "AUTO", "AUTO", "AUTO">>,
    <<"T2", 1, 32769, 546000, 1712, "3/5", "AUTO", "QAM256", "32K", "19/256", "AUTO">>,
    <<"T", 0, 0, 626000000, NoWidth, "2/3", "9/10", "DQPSK", "16K", "1/128", "4">>,
    <<"S", 12692250, "R", 19532000, "1/2">> }
=============================================================================
