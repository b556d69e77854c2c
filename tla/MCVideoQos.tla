----------------------------- MODULE MCVideoQos -----------------------------
(***************************************************************************)
(* Small instances of VideoQos.                                            *)
(***************************************************************************)
EXTENDS VideoQos

CONSTANTS c1, c2, s1

(* Two connections, and no service.                                        *)
TwoClients ==
  [FPS |-> 12, INIT_FPS |-> 6, Conn |-> {c1, c2}, Svc |-> {}, AvgDelay |-> {20, 700},
   Fps |-> {}, Image |-> {}, Abr |-> {TRUE}, Bitrate |-> {1000}, Changeable |-> {TRUE},
   Record |-> {}, Linux |-> TRUE]

(* Qualities, one of them the client's own, at a fixed frame rate.         *)
OneEncoder ==
  [FPS |-> 1, INIT_FPS |-> 1, Conn |-> {c1}, Svc |-> {s1}, AvgDelay |-> {700},
   Fps |-> {}, Image |-> {Best, 0}, Abr |-> {TRUE}, Bitrate |-> {400, 4000},
   Changeable |-> {TRUE}, Record |-> {}, Linux |-> FALSE]

(* An encoder that is set up anew for another quality.                     *)
FixedEncoder ==
  [OneEncoder EXCEPT !.Image = {Best}, !.Abr = {FALSE}, !.Changeable = {FALSE}]

(* Frame rates and recordings a client asks for, over delays a rate        *)
(* recovers from, with the frame rates of the code.                        *)
OneWish ==
  [FPS |-> 30, INIT_FPS |-> 15, Conn |-> {c1}, Svc |-> {s1}, AvgDelay |-> {120, 700},
   Fps |-> {4}, Image |-> {}, Abr |-> {FALSE}, Bitrate |-> {1000}, Changeable |-> {TRUE},
   Record |-> BOOLEAN, Linux |-> FALSE]

AllHosts == {TwoClients, OneEncoder, FixedEncoder, OneWish}
=============================================================================
